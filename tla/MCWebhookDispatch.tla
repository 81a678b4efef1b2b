------------------------- MODULE MCWebhookDispatch -------------------------
(***************************************************************************)
(* One endpoint, three events for a list of two rows, two attempts, and    *)
(* an endpoint that stops after two failures.                              *)
(***************************************************************************)
EXTENDS WebhookDispatch

CONSTANTS e1
MCEndpoints == {e1}
=============================================================================
