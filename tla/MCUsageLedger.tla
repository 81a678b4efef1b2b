--------------------------- MODULE MCUsageLedger ---------------------------
(* UsageLedger for TLC: calls that fit the limit one at a time, and may    *)
(* cost more than estimated.                                               *)
EXTENDS UsageLedger

CONSTANTS c1, c2

MCCall == {c1, c2}
MCEstimates == {1, 2}
MCAmounts == {1, 2}

(* What the dashboard says of "block", for a limit of 0 as for any other:  *)
(* a request over the limit is turned away (BillingDashboard.tsx).         *)
ZeroIsALimit == WithinLimit

=============================================================================
