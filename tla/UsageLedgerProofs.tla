------------------------- MODULE UsageLedgerProofs -------------------------
(***************************************************************************)
(* OneStory, AccountingIsTrue and LimitHolds for any finite set of calls   *)
(* and any plan. What makes the first two inductive is RequestInv, what a  *)
(* request may still rely on after each wait while the job and the clock   *)
(* work on its reservation, and JobInv, what the job has done for the row  *)
(* it is at.                                                               *)
(*                                                                         *)
(* LimitHolds speaks of sums over sets. What the proof needs of them is    *)
(* shown first, by induction on finite sets in the form the provers can    *)
(* use: of the sets for which a claim fails, a smallest one would have to  *)
(* exist.                                                                  *)
(***************************************************************************)
EXTENDS UsageLedger, FiniteSetTheorems, TLAPS

(* Sums.  The induction on a finite set is an argument about the smallest  *)
(* set for which a claim fails.                                            *)
LEMMA SmallestExists ==
  ASSUME NEW S, IsFiniteSet(S), NEW B \in SUBSET (SUBSET S), B # {}
  PROVE  \E T \in B : \A U \in SUBSET T : U # T => U \notin B
<1>1. IsWellFoundedOn(StrictSubsetOrdering(S), SUBSET S)
  BY FS_StrictSubsetOrderingWellFounded, FS_FiniteSubsetsOfFinite, Zenon
<1>2. PICK T \in B : \A U \in B : <<U, T>> \notin StrictSubsetOrdering(S)
  BY <1>1, WFMin, Zenon
<1>3. ASSUME NEW U \in SUBSET T, U # T, U \in B PROVE FALSE
  BY <1>2, <1>3 DEF StrictSubsetOrdering
<1> QED
  BY <1>3

First(s) == CHOOSE x \in s : TRUE

(* h adds f up, one element after the other, over every subset of S. *)
AddsUp(f, h, S) ==
  h = [s \in SUBSET S |-> IF s = {} THEN 0 ELSE f[First(s)] + h[s \ {First(s)}]]

LEMMA FirstIsIn == ASSUME NEW s, s # {} PROVE First(s) \in s
  BY DEF First

LEMMA SumsAgree ==
  ASSUME NEW f, NEW S, NEW T \in SUBSET S, IsFiniteSet(T),
         NEW g, NEW h, AddsUp(f, g, S), AddsUp(f, h, T)
  PROVE  \A U \in SUBSET T : g[U] = h[U]
<1> DEFINE B == {U \in SUBSET T : g[U] # h[U]}
<1>1. SUFFICES ASSUME B # {} PROVE FALSE
  OBVIOUS
<1>2. PICK U \in B : \A V \in SUBSET U : V # U => V \notin B
  <2>1. B \in SUBSET (SUBSET T)
    OBVIOUS
  <2> HIDE DEF B
  <2> QED
    BY <1>1, <2>1, SmallestExists
<1>3. /\ g[U] = IF U = {} THEN 0 ELSE f[First(U)] + g[U \ {First(U)}]
      /\ h[U] = IF U = {} THEN 0 ELSE f[First(U)] + h[U \ {First(U)}]
  BY <1>2 DEF AddsUp
<1>4. CASE U = {}
  BY <1>2, <1>3, <1>4
<1>5. CASE U # {}
  <2>1. U \ {First(U)} \in SUBSET U /\ U \ {First(U)} # U
    BY <1>5, FirstIsIn
  <2>2. g[U \ {First(U)}] = h[U \ {First(U)}]
    BY <1>2, <2>1
  <2> QED
    BY <1>2, <1>3, <1>5, <2>2
<1> QED
  BY <1>4, <1>5

LEMMA SumExists ==
  ASSUME NEW f, NEW S, IsFiniteSet(S)
  PROVE  \E h : AddsUp(f, h, S)
<1> DEFINE B == {T \in SUBSET S : ~\E h : AddsUp(f, h, T)}
<1>1. SUFFICES ASSUME B # {} PROVE FALSE
  OBVIOUS
<1>2. PICK T \in B : \A U \in SUBSET T : U # T => U \notin B
  <2>1. B \in SUBSET (SUBSET S)
    OBVIOUS
  <2> HIDE DEF B
  <2> QED
    BY <1>1, <2>1, SmallestExists
<1>3. PICK part : part = [U \in SUBSET T |-> CHOOSE h : AddsUp(f, h, U)]
  OBVIOUS
<1>4. ASSUME NEW U \in SUBSET T, U # T PROVE AddsUp(f, part[U], U) /\ IsFiniteSet(U)
  <2>1. \E h : AddsUp(f, h, U)
    BY <1>2, <1>4
  <2> QED
    BY <1>2, <1>3, <2>1, FS_Subset
<1>5. PICK sum : sum = [s \in SUBSET T |->
        IF s = T /\ T # {} THEN f[First(T)] + part[T \ {First(T)}][T \ {First(T)}]
        ELSE IF s = {} THEN 0 ELSE part[s][s]]
  OBVIOUS
<1>6. ASSUME NEW s \in SUBSET T, s # T PROVE sum[s] = part[s][s]
  <2>1. s = {} => part[s][s] = 0
    BY <1>4, <1>6 DEF AddsUp
  <2> QED
    BY <1>5, <1>6, <2>1
<1>7. ASSUME NEW s \in SUBSET T, s # {} PROVE sum[s] = f[First(s)] + sum[s \ {First(s)}]
  <2>1. PICK U : U = s \ {First(s)}
    OBVIOUS
  <2>2. U \in SUBSET s /\ U # s /\ U \in SUBSET T /\ U # T
    BY <1>7, <2>1, FirstIsIn
  <2>3. sum[U] = part[U][U]
    BY <1>6, <2>2
  <2>4. CASE s = T
    BY <1>5, <1>7, <2>1, <2>3, <2>4
  <2>5. CASE s # T
    <3>1. AddsUp(f, part[s], s) /\ AddsUp(f, part[U], U) /\ IsFiniteSet(U)
      BY <1>4, <2>2, <2>5
    <3>2. part[s][U] = part[U][U]
      <4>1. PICK g, h : g = part[s] /\ h = part[U]
        OBVIOUS
      <4>2. AddsUp(f, g, s) /\ AddsUp(f, h, U) /\ U \in SUBSET s /\ IsFiniteSet(U)
        BY <2>2, <3>1, <4>1
      <4>3. \A V \in SUBSET U : g[V] = h[V]
        BY <4>2, SumsAgree
      <4> QED
        BY <4>1, <4>3
    <3>3. part[s][s] = f[First(s)] + part[s][U]
      BY <1>7, <2>1, <3>1 DEF AddsUp
    <3>4. sum[s] = part[s][s]
      BY <1>6, <2>5
    <3> QED
      BY <2>1, <2>3, <3>2, <3>3, <3>4
  <2> QED
    BY <2>4, <2>5
<1>8. sum = [s \in SUBSET T |-> IF s = {} THEN 0 ELSE f[First(s)] + sum[s \ {First(s)}]]
  <2>1. \A s \in SUBSET T : sum[s] = IF s = {} THEN 0 ELSE f[First(s)] + sum[s \ {First(s)}]
    BY <1>5, <1>7
  <2>2. sum = [s \in SUBSET T |-> sum[s]]
    BY <1>5
  <2> QED
    BY <2>1, <2>2
<1> QED
  BY <1>2, <1>8 DEF AddsUp

LEMMA PointsIsSum ==
  ASSUME NEW f, NEW S, IsFiniteSet(S)
  PROVE  \E h : AddsUp(f, h, S) /\ Points(f, S) = h[S]
<1>1. Points(f, S) = (CHOOSE h : AddsUp(f, h, S))[S]
  BY DEF Points, MapThenSumSet, MapThenFoldSet, AddsUp, First
<1> QED
  BY <1>1, SumExists

LEMMA PointsOfNone == ASSUME NEW f, NEW S, S = {} PROVE Points(f, S) = 0
<1>1. IsFiniteSet(S) /\ S \in SUBSET S
  BY FS_EmptySet
<1>2. PICK h : AddsUp(f, h, S) /\ Points(f, S) = h[S]
  BY <1>1, PointsIsSum
<1> QED
  BY <1>1, <1>2 DEF AddsUp

LEMMA PointsStep ==
  ASSUME NEW f, NEW S, IsFiniteSet(S), S # {}
  PROVE  Points(f, S) = f[First(S)] + Points(f, S \ {First(S)})
<1> DEFINE U == S \ {First(S)}
<1>1. U \in SUBSET S /\ IsFiniteSet(U)
  BY FS_Subset
<1>2. PICK h : AddsUp(f, h, S) /\ Points(f, S) = h[S]
  BY PointsIsSum
<1>3. PICK k : AddsUp(f, k, U) /\ Points(f, U) = k[U]
  BY <1>1, PointsIsSum
<1>4. h[U] = k[U]
  BY <1>1, <1>2, <1>3, SumsAgree
<1>5. h[S] = f[First(S)] + h[U]
  BY <1>2 DEF AddsUp
<1> QED
  BY <1>2, <1>3, <1>4, <1>5

(* What f gives the elements of S is a number of points. *)
Costs(f, S) == IsFiniteSet(S) /\ \A c \in S : f[c] \in Nat

LEMMA CostsLess ==
  ASSUME NEW f, NEW S, Costs(f, S), NEW T \in SUBSET S
  PROVE  Costs(f, T)
  BY FS_Subset DEF Costs

LEMMA PointsType ==
  ASSUME NEW f, NEW S, Costs(f, S)
  PROVE  Points(f, S) \in Nat
<1> DEFINE B == {T \in SUBSET S : Points(f, T) \notin Nat}
<1>1. SUFFICES ASSUME B # {} PROVE FALSE
  OBVIOUS
<1>2. PICK T \in B : \A U \in SUBSET T : U # T => U \notin B
  <2>1. B \in SUBSET (SUBSET S)
    OBVIOUS
  <2> HIDE DEF B
  <2> QED
    BY <1>1, <2>1, SmallestExists DEF Costs
<1>3. T # {}
  <2>1. ASSUME T = {} PROVE Points(f, T) = 0
    BY <2>1, PointsOfNone
  <2> QED
    BY <1>2, <2>1
<1>4. Costs(f, T) /\ First(T) \in T
  BY <1>2, <1>3, FirstIsIn, CostsLess
<1>5. Points(f, T \ {First(T)}) \in Nat
  BY <1>2, <1>4
<1>6. Points(f, T) = f[First(T)] + Points(f, T \ {First(T)})
  BY <1>3, <1>4, PointsStep DEF Costs
<1> QED
  BY <1>2, <1>4, <1>5, <1>6 DEF Costs

(* The order does not matter. *)
LEMMA PointsRemove ==
  ASSUME NEW f, NEW S, Costs(f, S), NEW x \in S
  PROVE  Points(f, S) = f[x] + Points(f, S \ {x})
<1> DEFINE B == {T \in SUBSET S : \E y \in T : Points(f, T) # f[y] + Points(f, T \ {y})}
<1>1. SUFFICES ASSUME B # {} PROVE FALSE
  OBVIOUS
<1>2. PICK T \in B : \A U \in SUBSET T : U # T => U \notin B
  <2>1. B \in SUBSET (SUBSET S)
    OBVIOUS
  <2> HIDE DEF B
  <2> QED
    BY <1>1, <2>1, SmallestExists DEF Costs
<1>3. PICK y \in T : Points(f, T) # f[y] + Points(f, T \ {y})
  BY <1>2
<1>4. PICK z : z = First(T) /\ z \in T
  BY <1>3, FirstIsIn
<1>5. Costs(f, T) /\ Costs(f, T \ {z}) /\ Costs(f, T \ {y}) /\ Costs(f, T \ {y, z})
  BY <1>2, CostsLess
<1>6. Points(f, T) = f[z] + Points(f, T \ {z})
  BY <1>4, <1>5, PointsStep DEF Costs
<1>7. y # z
  BY <1>3, <1>6
<1>8. Points(f, T \ {z}) = f[y] + Points(f, T \ {y, z})
  <2>1. T \ {z} \in SUBSET T /\ T \ {z} # T /\ y \in T \ {z} /\ (T \ {z}) \ {y} = T \ {y, z}
    BY <1>3, <1>4, <1>7
  <2> QED
    BY <1>2, <2>1
<1>9. Points(f, T \ {y}) = f[z] + Points(f, T \ {y, z})
  <2>1. T \ {y} \in SUBSET T /\ T \ {y} # T /\ z \in T \ {y} /\ (T \ {y}) \ {z} = T \ {y, z}
    BY <1>3, <1>4, <1>7
  <2> QED
    BY <1>2, <2>1
<1>10. f[y] \in Nat /\ f[z] \in Nat /\ Points(f, T \ {y, z}) \in Nat
  BY <1>3, <1>4, <1>5, PointsType DEF Costs
<1> QED
  BY <1>3, <1>6, <1>8, <1>9, <1>10

LEMMA PointsLess ==
  ASSUME NEW f, NEW g, NEW S, Costs(f, S), Costs(g, S), \A c \in S : f[c] <= g[c]
  PROVE  Points(f, S) <= Points(g, S)
<1> DEFINE B == {T \in SUBSET S : ~(Points(f, T) <= Points(g, T))}
<1>1. SUFFICES ASSUME B # {} PROVE FALSE
  OBVIOUS
<1>2. PICK T \in B : \A U \in SUBSET T : U # T => U \notin B
  <2>1. B \in SUBSET (SUBSET S)
    OBVIOUS
  <2> HIDE DEF B
  <2> QED
    BY <1>1, <2>1, SmallestExists DEF Costs
<1>3. T # {}
  <2>1. ASSUME T = {} PROVE Points(f, T) = 0 /\ Points(g, T) = 0
    BY <2>1, PointsOfNone
  <2> QED
    BY <1>2, <2>1
<1>4. PICK x : x \in T
  BY <1>3
<1>5. Costs(f, T) /\ Costs(g, T) /\ Costs(f, T \ {x}) /\ Costs(g, T \ {x})
  BY <1>2, CostsLess
<1>6. Points(f, T) = f[x] + Points(f, T \ {x}) /\ Points(g, T) = g[x] + Points(g, T \ {x})
  BY <1>4, <1>5, PointsRemove
<1>7. Points(f, T \ {x}) <= Points(g, T \ {x})
  BY <1>2, <1>4
<1>8. Points(f, T \ {x}) \in Nat /\ Points(g, T \ {x}) \in Nat
  BY <1>5, PointsType
<1>9. f[x] \in Nat /\ g[x] \in Nat /\ f[x] <= g[x]
  BY <1>2, <1>4 DEF Costs
<1> QED
  BY <1>2, <1>6, <1>7, <1>8, <1>9

LEMMA PointsSame ==
  ASSUME NEW f, NEW g, NEW S, Costs(f, S), \A c \in S : f[c] = g[c]
  PROVE  Points(f, S) = Points(g, S)
<1>1. Costs(g, S) /\ (\A c \in S : f[c] <= g[c] /\ g[c] <= f[c])
  BY DEF Costs
<1>2. Points(f, S) <= Points(g, S) /\ Points(g, S) <= Points(f, S)
  BY <1>1, PointsLess
<1>3. Points(f, S) \in Nat /\ Points(g, S) \in Nat
  BY <1>1, PointsType
<1> QED
  BY <1>2, <1>3

LEMMA PointsAdd ==
  ASSUME NEW f, NEW g, NEW h, NEW S, Costs(f, S), Costs(g, S), \A c \in S : h[c] = f[c] + g[c]
  PROVE  Points(h, S) = Points(f, S) + Points(g, S)
<1> DEFINE B == {T \in SUBSET S : Points(h, T) # Points(f, T) + Points(g, T)}
<1>1. SUFFICES ASSUME B # {} PROVE FALSE
  OBVIOUS
<1>2. PICK T \in B : \A U \in SUBSET T : U # T => U \notin B
  <2>1. B \in SUBSET (SUBSET S)
    OBVIOUS
  <2> HIDE DEF B
  <2> QED
    BY <1>1, <2>1, SmallestExists DEF Costs
<1>3. T # {}
  <2>1. ASSUME T = {} PROVE Points(f, T) = 0 /\ Points(g, T) = 0 /\ Points(h, T) = 0
    BY <2>1, PointsOfNone
  <2> QED
    BY <1>2, <2>1
<1>4. PICK x : x \in T
  BY <1>3
<1>5. Costs(h, S)
  BY DEF Costs
<1>6. /\ Costs(f, T) /\ Costs(g, T) /\ Costs(f, T \ {x}) /\ Costs(g, T \ {x})
      /\ Costs(h, T) /\ Costs(h, T \ {x})
  BY <1>2, <1>5, CostsLess
<1>7. /\ Points(f, T) = f[x] + Points(f, T \ {x}) /\ Points(g, T) = g[x] + Points(g, T \ {x})
      /\ Points(h, T) = h[x] + Points(h, T \ {x})
  BY <1>4, <1>6, PointsRemove
<1>8. Points(h, T \ {x}) = Points(f, T \ {x}) + Points(g, T \ {x})
  BY <1>2, <1>4
<1>9. Points(f, T \ {x}) \in Nat /\ Points(g, T \ {x}) \in Nat
  BY <1>6, PointsType
<1>10. f[x] \in Nat /\ g[x] \in Nat /\ h[x] = f[x] + g[x]
  BY <1>2, <1>4 DEF Costs
<1> QED
  BY <1>2, <1>7, <1>8, <1>9, <1>10

LEMMA PointsUnion ==
  ASSUME NEW f, NEW S, NEW R, Costs(f, S), Costs(f, R), S \cap R = {}
  PROVE  Points(f, S \cup R) = Points(f, S) + Points(f, R)
<1> DEFINE B == {T \in SUBSET S : Points(f, T \cup R) # Points(f, T) + Points(f, R)}
<1>1. SUFFICES ASSUME B # {} PROVE FALSE
  OBVIOUS
<1>2. PICK T \in B : \A U \in SUBSET T : U # T => U \notin B
  <2>1. B \in SUBSET (SUBSET S)
    OBVIOUS
  <2> HIDE DEF B
  <2> QED
    BY <1>1, <2>1, SmallestExists DEF Costs
<1>3. Points(f, R) \in Nat
  BY PointsType
<1>4. T # {}
  <2>1. ASSUME T = {} PROVE T \cup R = R /\ Points(f, T) = 0
    BY <2>1, PointsOfNone
  <2> QED
    BY <1>2, <1>3, <2>1
<1>5. PICK x : x \in T
  BY <1>4
<1>6. Costs(f, S \cup R)
  BY FS_Union DEF Costs
<1>7. Costs(f, T) /\ Costs(f, T \ {x}) /\ Costs(f, T \cup R)
  BY <1>2, <1>6, CostsLess
<1>8. (T \cup R) \ {x} = (T \ {x}) \cup R
  BY <1>2, <1>5
<1>9. Points(f, T) = f[x] + Points(f, T \ {x}) /\ Points(f, T \cup R) = f[x] + Points(f, (T \ {x}) \cup R)
  BY <1>5, <1>7, <1>8, PointsRemove
<1>10. Points(f, (T \ {x}) \cup R) = Points(f, T \ {x}) + Points(f, R)
  BY <1>2, <1>5
<1>11. Points(f, T \ {x}) \in Nat /\ f[x] \in Nat
  BY <1>5, <1>7, PointsType DEF Costs
<1> QED
  BY <1>2, <1>3, <1>9, <1>10, <1>11

-----------------------------------------------------------------------------
USE UsageLedgerAssumption

(* The tables have their types. *)
LedgerOK ==
  /\ reservation \in [Call -> Reservations]
  /\ expired \subseteq Call
  /\ events \subseteq Call
  /\ queue \in [Call -> {"none", "pending", "resolved"}]

(* A reservation is made for a call no table knows. *)
LEMMA ReserveKeeps ==
  ASSUME LedgerOK, OneStory, NEW c \in Call, NEW points \in Estimates,
         reservation[c] = NoReservation, ReserveUsage(c, points)
  PROVE  /\ LedgerOK' /\ OneStory'
         /\ events' = events /\ queue' = queue
         /\ \A d \in Call \ {c} : reservation'[d] = reservation[d]
         /\ reservation'[c].status = "pending"
<1>1. reservation' \in [Call -> Reservations]
  BY DEF ReserveUsage, LedgerOK, Reservations, NoReservation
<1> QED
  BY <1>1 DEF ReserveUsage, LedgerOK, OneStory, Reservations, NoReservation

(* A release touches no call that is booked or noted. *)
LEMMA ReleaseKeeps ==
  ASSUME LedgerOK, OneStory, NEW c \in Call, ReleaseUsageReservation(c)
  PROVE  /\ LedgerOK' /\ OneStory'
         /\ events' = events /\ queue' = queue
         /\ \A d \in Call \ {c} : reservation'[d] = reservation[d]
<1>1. reservation' \in [Call -> Reservations]
  BY DEF ReleaseUsageReservation, LedgerOK, Reservations
<1> QED
  BY <1>1 DEF ReleaseUsageReservation, LedgerOK, OneStory, Reservations

(* Booking commits the reservation and ends its keeping. *)
LEMMA RecordKeeps ==
  ASSUME LedgerOK, OneStory, NEW c \in Call, RecordUsageEvent(c)
  PROVE  /\ LedgerOK' /\ OneStory'
         /\ events' = events \cup {c} /\ queue' = queue
         /\ \A d \in Call \ {c} : reservation'[d] = reservation[d]
         /\ reservation'[c].status = "committed"
<1>1. CASE c \in events /\ UNCHANGED ledger
  BY <1>1 DEF ledger, LedgerOK, OneStory
<1>2. CASE c \notin events /\ UNCHANGED <<expired, queue>>
  <2>1. /\ events' = events \cup {c}
        /\ reservation' = [reservation EXCEPT
             ![c].status = "committed", ![c].reconciliationPending = FALSE]
    BY <1>2 DEF RecordUsageEvent, ledger
  <2>2. reservation' \in [Call -> Reservations]
    BY <2>1 DEF LedgerOK, Reservations
  <2>3. /\ reservation'[c].status = "committed"
        /\ ~reservation'[c].reconciliationPending
        /\ \A d \in Call \ {c} : reservation'[d] = reservation[d]
    BY <2>1 DEF LedgerOK, Reservations
  <2> QED
    BY <1>2, <2>1, <2>2, <2>3 DEF LedgerOK, OneStory
<1> QED
  BY <1>1, <1>2 DEF RecordUsageEvent

(* A note keeps the reservation beyond its time, until it is booked. *)
LEMMA NoteKeeps ==
  ASSUME LedgerOK, OneStory, NEW c \in Call, RecordReconciliationPending(c)
  PROVE  /\ LedgerOK' /\ OneStory'
         /\ events' = events
         /\ queue' = [queue EXCEPT ![c] = "pending"]
         /\ \A d \in Call \ {c} : reservation'[d] = reservation[d]
         /\ reservation'[c].status = reservation[c].status
<1>1. reservation' \in [Call -> Reservations]
  BY DEF RecordReconciliationPending, LedgerOK, Reservations
<1>2. queue' \in [Call -> {"none", "pending", "resolved"}]
  BY DEF RecordReconciliationPending, LedgerOK
<1> QED
  BY <1>1, <1>2 DEF RecordReconciliationPending, Queueable, LedgerOK, OneStory, Reservations

(* The effect of any transaction about c: no event and no note is taken    *)
(* back, and no other call is touched.                                     *)
Touches(c) ==
  /\ LedgerOK' /\ OneStory'
  /\ events \subseteq events'
  /\ \A d \in Call : queue[d] # "none" => queue'[d] # "none"
  /\ \A d \in Call \ {c} :
       /\ reservation'[d] = reservation[d]
       /\ d \in events <=> d \in events'
       /\ queue'[d] = queue[d]

(* A transaction that rolls back touches nothing. *)
LEMMA IdleTouches ==
  ASSUME LedgerOK, OneStory, NEW c \in Call, UNCHANGED ledger
  PROVE  Touches(c)
  BY DEF ledger, LedgerOK, OneStory, Touches

-----------------------------------------------------------------------------
(* A request that ends a wait keeps the invariant if what it goes on with, *)
(* or answers, holds of the tables it leaves.                              *)
LEMMA RequestKeeps ==
  ASSUME IInv, NEW c \in Call, NEW to \in Phases \ {"idle"}, Goes(c, to),
         Touches(c), UNCHANGED <<turn, late>>,
         used' \in [Call -> Nat], outage \subseteq outage', outage' \subseteq Call,
         to \in {"calling", "recording", "queueing"} =>
           reservation'[c].status \in {"pending", "committed"},
         to = "recorded" => c \in events',
         to = "reconciliation-pending" => queue'[c] # "none",
         to = "reconciliation-unavailable" =>
           c \in events' \/ queue'[c] # "none" \/ c \in outage'
  PROVE  IInv'
<1>1. \A d \in Call : phase'[d] = IF d = c THEN to ELSE phase[d]
  BY DEF Goes, IInv, TypeOK
<1>2. TypeOK'
  BY DEF Goes, IInv, TypeOK, Touches, LedgerOK
<1>3. OneStory'
  BY DEF Touches
<1>4. AccountingIsTrue'
  BY <1>1 DEF IInv, AccountingIsTrue, Touches
<1>5. RequestInv'
  BY <1>1 DEF IInv, RequestInv, Touches
<1>6. JobInv'
  BY DEF IInv, TypeOK, JobInv, Touches
<1> QED
  BY <1>2, <1>3, <1>4, <1>5, <1>6 DEF IInv

(* A step of the job, which is at a call that is noted, keeps the          *)
(* invariant if it books the call before it says so.                       *)
LEMMA JobKeeps ==
  ASSUME IInv, NEW c \in Call, queue[c] # "none", Touches(c),
         UNCHANGED <<phase, used, late, outage>>,
         turn'.listed \subseteq turn.listed, turn'.at \in {c, NoCall},
         turn' \in [listed : SUBSET Call, at : Call \cup {NoCall}, booked : BOOLEAN],
         turn'.booked => turn'.at = c /\ c \in events',
         reservation'[c].status \in {reservation[c].status, "committed"}
  PROVE  IInv'
<1>1. TypeOK' /\ OneStory'
  BY DEF IInv, TypeOK, Touches, LedgerOK
<1>2. AccountingIsTrue'
  BY DEF IInv, AccountingIsTrue, Touches
<1>3. RequestInv'
  <2> SUFFICES ASSUME NEW d \in Call
               PROVE  /\ phase[d] = "idle" =>
                           /\ reservation'[d] = NoReservation
                           /\ d \notin events' /\ queue'[d] = "none"
                      /\ phase[d] \in {"calling", "recording", "queueing"} =>
                           reservation'[d].status \in {"pending", "committed"}
    BY DEF RequestInv
  <2>1. CASE d = c
    BY <2>1 DEF IInv, RequestInv
  <2>2. CASE d # c
    BY <2>2 DEF IInv, RequestInv, Touches
  <2> QED
    BY <2>1, <2>2
<1>4. JobInv'
  BY DEF IInv, TypeOK, JobInv, Touches
<1> QED
  BY <1>1, <1>2, <1>3, <1>4 DEF IInv

-----------------------------------------------------------------------------
(* The parts of the invariant the transactions need. *)
LEMMA IInvTables == IInv => LedgerOK /\ OneStory
  BY DEF IInv, TypeOK, LedgerOK

(* Every step of a request keeps the invariant. *)
LEMMA RequestNextIInv ==
  ASSUME IInv, NEW c \in Call, RequestNext(c)
  PROVE  IInv'
<1> USE IInvTables DEF Phases, Waiting, Answers
<1>0. used \in [Call -> Nat] /\ outage \subseteq Call
  BY DEF IInv, TypeOK
<1>1. CASE Reserve(c)
  <2>1. PICK points \in Estimates, to \in {"calling", "refused"} :
           ReserveUsage(c, points) /\ Goes(c, to)
    BY <1>1 DEF Reserve
  <2>2. reservation[c] = NoReservation
    BY <1>1 DEF Reserve, IInv, RequestInv
  <2>3. Touches(c) /\ reservation'[c].status = "pending"
    BY <2>1, <2>2, ReserveKeeps DEF Touches
  <2> QED
    BY <1>0, <1>1, <2>1, <2>3, RequestKeeps DEF Reserve
<1>2. CASE ReserveRefused(c) \/ RecordFails(c) \/ ModelAnswers(c) \/ ModelFails(c)
  <2>1. UNCHANGED ledger
    BY <1>2 DEF ReserveRefused, RecordFails, ModelAnswers, ModelFails
  <2>2. Touches(c)
    BY <2>1, IdleTouches
  <2>3. phase[c] \in {"calling", "recording"} =>
          reservation'[c].status \in {"pending", "committed"}
    BY <2>1 DEF ledger, IInv, RequestInv
  <2>4. used' \in [Call -> Nat]
    BY <1>0, <1>2 DEF ReserveRefused, RecordFails, ModelAnswers, ModelFails
  <2>5. PICK to \in {"refused", "queueing", "not-recorded", "recording", "releasing"} :
           Goes(c, to) /\ (to \in {"queueing", "recording"} => phase[c] \in {"calling", "recording"})
    BY <1>2 DEF ReserveRefused, RecordFails, ModelAnswers, ModelFails
  <2>6. UNCHANGED <<turn, late, outage>>
    BY <1>2 DEF ReserveRefused, RecordFails, ModelAnswers, ModelFails
  <2> QED
    BY <1>0, <2>2, <2>3, <2>4, <2>5, <2>6, RequestKeeps
<1>3. CASE Release(c)
  <2>1. Touches(c)
    BY <1>3, ReleaseKeeps, IdleTouches DEF Release, Touches
  <2> QED
    BY <1>0, <1>3, <2>1, RequestKeeps DEF Release
<1>4. CASE Record(c)
  <2>1. /\ Touches(c) /\ c \in events'
        /\ reservation'[c].status = "committed"
    BY <1>4, RecordKeeps DEF Record, Touches
  <2>2. PICK to \in {"recorded", "queueing", "not-recorded"} : Goes(c, to)
    BY <1>4 DEF Record
  <2> QED
    BY <1>0, <1>4, <2>1, <2>2, RequestKeeps DEF Record
<1>5. CASE Queue(c)
  <2>1. Touches(c) /\ queue'[c] # "none"
    BY <1>5, NoteKeeps DEF Queue, Touches, LedgerOK
  <2>2. PICK to \in {"reconciliation-pending", "reconciliation-unavailable"} : Goes(c, to)
    BY <1>5 DEF Queue
  <2> QED
    BY <1>0, <1>5, <2>1, <2>2, RequestKeeps DEF Queue
<1>6. CASE QueueRefused(c)
  <2>1. reservation[c].status = "committed"
    BY <1>6 DEF QueueRefused, Queueable, IInv, RequestInv
  <2>2. Touches(c) /\ c \in events'
    BY <1>6, <2>1, IdleTouches DEF QueueRefused, OneStory, Touches
  <2> QED
    BY <1>0, <1>6, <2>2, RequestKeeps DEF QueueRefused
<1>7. CASE QueueFails(c)
  <2>1. Touches(c)
    BY <1>7, IdleTouches DEF QueueFails
  <2> QED
    BY <1>0, <1>7, <2>1, RequestKeeps DEF QueueFails
<1> QED
  BY <1>1, <1>2, <1>3, <1>4, <1>5, <1>6, <1>7 DEF RequestNext

(* Every step of the job at a call keeps the invariant. *)
LEMMA JobNextIInv ==
  ASSUME IInv, NEW c \in Call, JobNext(c)
  PROVE  IInv'
<1> USE IInvTables
<1>0. turn \in [listed : SUBSET Call, at : Call \cup {NoCall}, booked : BOOLEAN]
  BY DEF IInv, TypeOK
<1>1. queue[c] # "none"
  BY DEF JobNext, JobTakes, JobRecords, JobResolves, JobMoves, IInv, JobInv
<1>2. CASE JobTakes(c)
  <2>1. Touches(c)
    BY <1>2, IdleTouches DEF JobTakes
  <2>2. ~turn.booked
    BY <1>2 DEF JobTakes, IInv, JobInv, TypeOK
  <2> QED
    BY <1>0, <1>1, <1>2, <2>1, <2>2, JobKeeps DEF JobTakes, ledger
<1>3. CASE JobRecords(c)
  <2>1. /\ Touches(c) /\ c \in events'
        /\ reservation'[c].status = "committed"
    BY <1>3, RecordKeeps DEF JobRecords, Touches
  <2> QED
    BY <1>0, <1>1, <1>3, <2>1, JobKeeps DEF JobRecords
<1>4. CASE JobResolves(c)
  <2>1. c \in events
    BY <1>4 DEF JobResolves, IInv, JobInv
  <2>2. Touches(c)
    BY <1>4, <2>1 DEF JobResolves, LedgerOK, OneStory, Touches
  <2> QED
    BY <1>0, <1>1, <1>4, <2>2, JobKeeps DEF JobResolves
<1>5. CASE JobMoves(c)
  <2>1. Touches(c) /\ reservation'[c].status \in {reservation[c].status, "committed"}
    BY <1>5, RecordKeeps, IdleTouches DEF JobMoves, Touches, ledger
  <2> QED
    BY <1>0, <1>1, <1>5, <2>1, JobKeeps DEF JobMoves
<1> QED
  BY <1>2, <1>3, <1>4, <1>5 DEF JobNext

(* So do the clock, the start of the job, and a stop of the process. *)
LEMMA RestIInv ==
  ASSUME IInv, \/ \E c \in Call : Expire(c)
               \/ JobLists \/ Crash \/ UNCHANGED vars
  PROVE  IInv'
<1>1. CASE \E c \in Call : Expire(c)
  BY <1>1 DEF Expire, IInv, TypeOK, OneStory, AccountingIsTrue, RequestInv, JobInv
<1>2. CASE JobLists
  BY <1>2 DEF JobLists, NoTurn, ledger, IInv, TypeOK, OneStory, AccountingIsTrue,
              RequestInv, JobInv
<1>3. CASE Crash
  <2>1. \A c \in Call : phase'[c] \in {phase[c], "gone"}
    BY <1>3 DEF Crash, IInv, TypeOK
  <2>2. TypeOK'
    BY <1>3 DEF Crash, NoTurn, ledger, IInv, TypeOK, Phases
  <2>3. UNCHANGED <<reservation, expired, events, queue, outage>> /\ turn' = NoTurn
    BY <1>3 DEF Crash, ledger
  <2>4. OneStory' /\ JobInv'
    BY <2>3 DEF NoTurn, IInv, OneStory, JobInv
  <2>5. AccountingIsTrue' /\ RequestInv'
    BY <2>1, <2>3 DEF IInv, AccountingIsTrue, RequestInv
  <2> QED
    BY <2>2, <2>4, <2>5 DEF IInv
<1>4. CASE UNCHANGED vars
  BY <1>4 DEF vars, ledger, IInv, TypeOK, OneStory, AccountingIsTrue, RequestInv, JobInv
<1> QED
  BY <1>1, <1>2, <1>3, <1>4

(* Empty tables satisfy the invariant. *)
LEMMA InitIInv == Init => IInv
  BY DEF Init, NoTurn, NoReservation, Phases, Reservations, IInv, TypeOK, OneStory,
         AccountingIsTrue, RequestInv, JobInv

(* Requests, the job, the clock and crashes keep the conjunction. *)
THEOREM Inductive == Spec => []IInv
<1>1. IInv /\ [Next]_vars => IInv'
  BY RequestNextIInv, JobNextIInv, RestIInv DEF Next
<1> QED
  BY InitIInv, <1>1, PTL DEF Spec

(* The tables, the requests and the job keep their types. *)
THEOREM TypeCorrect == Spec => []TypeOK
<1>1. IInv => TypeOK
  BY DEF IInv
<1> QED
  BY Inductive, <1>1, PTL

(* Whatever fails or is committed unheard, for any number of calls: events, *)
(* reservations and notes agree, and no call is booked but by its note or  *)
(* its request.                                                            *)
THEOREM AlwaysOneStory == Spec => []OneStory
<1>1. IInv => OneStory
  BY DEF IInv
<1> QED
  BY Inductive, <1>1, PTL

(* The accounting a user is told is the truth, and what was to be noted is *)
(* missing only where an outage met the note itself.                       *)
THEOREM AccountingIsAlwaysTrue == Spec => []AccountingIsTrue
<1>1. IInv => AccountingIsTrue
  BY DEF IInv
<1> QED
  BY Inductive, <1>1, PTL

-----------------------------------------------------------------------------
(* LimitHolds.  What of a call counts against the limit: its estimate while *)
(* it is held, no more than that when it is booked, and nothing once the    *)
(* reservation has lapsed before it was kept.                               *)
Share(c) ==
  IF c \in late THEN 0
  ELSE IF c \in events
       THEN IF used[c] > reservation[c].estimated THEN reservation[c].estimated ELSE used[c]
       ELSE IF Holds(c) THEN reservation[c].estimated ELSE 0

Shares == [c \in Call |-> Share(c)]

(* Nobody books a call that is still under way, and a reservation that has *)
(* run out without being kept is known to have lapsed.                     *)
SpareInv ==
  \A c \in Call :
    /\ phase[c] = "idle" => c \notin expired
    /\ phase[c] = "calling" => c \notin events /\ queue[c] = "none"
    /\ c \in expired /\ reservation[c].status = "pending" => c \in late \/ reservation[c].reconciliationPending

LimitInv == Limit > 0 => Points(Shares, Call) <= Limit

LEMMA SharesAreNats == IInv => \A c \in Call : Share(c) \in Nat /\ Shares[c] = Share(c)
<1> SUFFICES ASSUME IInv, NEW c \in Call PROVE Share(c) \in Nat /\ Shares[c] = Share(c)
  OBVIOUS
<1>1. used[c] \in Nat /\ reservation[c].estimated \in Nat
  BY DEF IInv, TypeOK, Reservations
<1> QED
  BY <1>1 DEF Share, Shares

LEMMA SharesAreCosts == IInv => Costs(Shares, Call)
  BY SharesAreNats DEF Costs

(* Nothing about c that counts has changed. *)
LEMMA ShareStays ==
  ASSUME NEW c \in Call, reservation'[c] = reservation[c],
         c \in events' <=> c \in events, c \in expired' <=> c \in expired, c \in late' <=> c \in late,
         used'[c] = used[c] \/ c \notin events
  PROVE  Share(c)' = Share(c)
  BY DEF Share, Holds

(* What a step does to the shares: only a reservation adds, within Fits. *)
NoShareGrows == \A c \in Call : Share(c)' <= Share(c)
OneReserves ==
  \E c \in Call, points \in Estimates :
    Fits(points) /\ Share(c)' <= points /\ \A d \in Call \ {c} : Share(d)' = Share(d)

(* The transactions: what one does to the share of its call. *)
LEMMA ReserveShare ==
  ASSUME IInv, SpareInv, NEW c \in Call, NEW points \in Estimates, phase[c] = "idle",
         ReserveUsage(c, points), UNCHANGED <<used, late>>
  PROVE  /\ Share(c)' <= points /\ c \notin expired' /\ c \notin events' /\ queue'[c] = "none"
         /\ \A d \in Call \ {c} : reservation'[d] = reservation[d] /\ Share(d)' = Share(d)
<1>1. c \notin events /\ queue[c] = "none" /\ c \notin expired /\ points \in Nat
  BY DEF IInv, RequestInv, SpareInv
<1>2. /\ reservation'[c].estimated = points /\ \A d \in Call \ {c} : reservation'[d] = reservation[d]
      /\ UNCHANGED <<expired, events, queue>>
  BY DEF ReserveUsage, IInv, TypeOK, NoReservation
<1>3. Share(c)' <= points
  BY <1>1, <1>2 DEF Share
<1> QED
  BY <1>1, <1>2, <1>3, ShareStays

LEMMA ReleaseShare ==
  ASSUME IInv, NEW c \in Call, ReleaseUsageReservation(c), UNCHANGED <<used, late>>
  PROVE  NoShareGrows
<1>1. /\ reservation' = reservation \/ reservation' = [reservation EXCEPT ![c].status = "released"]
      /\ UNCHANGED <<expired, events, queue>>
  BY DEF ReleaseUsageReservation
<1>2. CASE reservation' = reservation
  <2>1. \A d \in Call : Share(d)' = Share(d) /\ Share(d) \in Nat
    BY <1>1, <1>2, ShareStays, SharesAreNats
  <2> QED
    BY <2>1 DEF NoShareGrows
<1>3. CASE reservation' = [reservation EXCEPT ![c].status = "released"]
  <2>1. /\ \A d \in Call \ {c} : reservation'[d] = reservation[d]
        /\ reservation'[c].status = "released" /\ reservation'[c].estimated = reservation[c].estimated
    BY <1>3 DEF IInv, TypeOK, Reservations
  <2>2. \A d \in Call \ {c} : Share(d)' = Share(d)
    BY <1>1, <2>1, ShareStays
  <2>3. \A d \in Call : Share(d) \in Nat
    BY SharesAreNats
  <2>4. Share(c)' = Share(c) \/ Share(c)' = 0
    BY <1>1, <2>1 DEF Share, Holds
  <2> QED
    BY <2>2, <2>3, <2>4 DEF NoShareGrows
<1> QED
  BY <1>1, <1>2, <1>3

LEMMA RecordShare ==
  ASSUME IInv, NEW c \in Call, RecordUsageEvent(c), UNCHANGED <<used, late>>
  PROVE  NoShareGrows
<1>1. \A d \in Call : Share(d) \in Nat
  BY SharesAreNats
<1>2. CASE UNCHANGED ledger
  BY <1>1, <1>2, ShareStays DEF ledger, NoShareGrows
<1>3. CASE c \notin events /\ Recordable(c) /\ UNCHANGED <<expired, queue>>
             /\ events' = events \cup {c}
             /\ reservation' = [reservation EXCEPT ![c].status = "committed", ![c].reconciliationPending = FALSE]
  <2>1. /\ \A d \in Call \ {c} : reservation'[d] = reservation[d]
        /\ reservation'[c].estimated = reservation[c].estimated
        /\ reservation[c].estimated \in Nat /\ used[c] \in Nat
    BY <1>3 DEF IInv, TypeOK, Reservations
  <2>2. \A d \in Call \ {c} : Share(d)' = Share(d)
    BY <1>3, <2>1, ShareStays
  <2>3. Share(c)' <= Share(c)
    BY <1>3, <2>1 DEF Share, Holds, Recordable
  <2> QED
    BY <1>1, <2>2, <2>3 DEF NoShareGrows
<1> QED
  BY <1>2, <1>3 DEF RecordUsageEvent

LEMMA NoteShare ==
  ASSUME IInv, SpareInv, NEW c \in Call, RecordReconciliationPending(c), UNCHANGED <<used, late>>
  PROVE  NoShareGrows
<1>1. \A d \in Call : Share(d) \in Nat
  BY SharesAreNats
<1>2. /\ \A d \in Call \ {c} : reservation'[d] = reservation[d]
      /\ reservation'[c].estimated = reservation[c].estimated
      /\ UNCHANGED <<expired, events>> /\ reservation[c].status = "pending"
  BY DEF RecordReconciliationPending, Queueable, IInv, TypeOK, Reservations
<1>3. \A d \in Call \ {c} : Share(d)' = Share(d)
  BY <1>2, ShareStays
<1>4. c \in late \/ Holds(c)
  BY <1>2 DEF SpareInv, Holds
<1>5. Share(c)' = Share(c) \/ Share(c)' = 0
  BY <1>2, <1>4 DEF Share
<1> QED
  BY <1>1, <1>3, <1>5 DEF NoShareGrows

(* Nothing but the phases, the notes and the job. *)
LEMMA SharesStay ==
  ASSUME IInv, UNCHANGED <<reservation, expired, events, late>>,
         \A c \in Call : used'[c] = used[c] \/ c \notin events
  PROVE  NoShareGrows
<1>1. \A c \in Call : Share(c)' = Share(c) /\ Share(c) \in Nat
  BY ShareStays, SharesAreNats
<1> QED
  BY <1>1 DEF NoShareGrows

(* A request goes on to something else than a call. *)
LEMMA GoesSpare ==
  ASSUME IInv, SpareInv, NEW c \in Call, NEW to \in Phases \ {"idle", "calling"}, Goes(c, to),
         late' = late, expired' = expired,
         \A d \in Call \ {c} : /\ reservation'[d] = reservation[d] /\ queue'[d] = queue[d]
                               /\ d \in events' <=> d \in events,
         reservation'[c].status = "pending" =>
           /\ reservation[c].status = "pending"
           /\ reservation[c].reconciliationPending => reservation'[c].reconciliationPending
  PROVE  SpareInv'
<1>1. \A d \in Call : phase'[d] = IF d = c THEN to ELSE phase[d]
  BY DEF Goes, IInv, TypeOK
<1> QED
  BY <1>1 DEF SpareInv

LEMMA RequestShares ==
  ASSUME IInv, SpareInv, NEW c \in Call, RequestNext(c)
  PROVE  SpareInv' /\ (NoShareGrows \/ OneReserves)
<1> USE DEF Phases, Waiting, Answers
<1>1. CASE Reserve(c)
  <2>1. PICK points \in Estimates, to \in {"calling", "refused"} :
           ReserveUsage(c, points) /\ Goes(c, to)
    BY <1>1 DEF Reserve
  <2>2. phase[c] = "idle" /\ UNCHANGED <<used, late>> /\ Fits(points) /\ UNCHANGED <<expired, events, queue>>
    BY <1>1, <2>1 DEF Reserve, ReserveUsage
  <2>3. /\ Share(c)' <= points /\ c \notin expired' /\ c \notin events' /\ queue'[c] = "none"
        /\ \A d \in Call \ {c} : reservation'[d] = reservation[d] /\ Share(d)' = Share(d)
    BY <2>1, <2>2, ReserveShare
  <2>4. \A d \in Call : phase'[d] = IF d = c THEN to ELSE phase[d]
    BY <2>1 DEF Goes, IInv, TypeOK
  <2>5. SpareInv'
    BY <2>2, <2>3, <2>4 DEF SpareInv
  <2> QED
    BY <2>2, <2>3, <2>5 DEF OneReserves
<1>2. CASE ReserveRefused(c) \/ RecordFails(c) \/ ModelAnswers(c) \/ ModelFails(c)
           \/ QueueRefused(c) \/ QueueFails(c)
  <2>1. UNCHANGED <<reservation, expired, events, queue, late>>
    BY <1>2 DEF ReserveRefused, RecordFails, ModelAnswers, ModelFails, QueueRefused, QueueFails, ledger
  <2>2. PICK to \in {"refused", "queueing", "not-recorded", "recording", "releasing",
                      "reconciliation-unavailable"} : Goes(c, to)
    BY <1>2 DEF ReserveRefused, RecordFails, ModelAnswers, ModelFails, QueueRefused, QueueFails
  <2>3. \A d \in Call : used'[d] = used[d] \/ d \notin events
    BY <1>2 DEF ReserveRefused, RecordFails, ModelAnswers, ModelFails, QueueRefused, QueueFails,
                SpareInv, IInv, TypeOK
  <2>4. SpareInv'
    BY <2>1, <2>2, GoesSpare
  <2> QED
    BY <2>1, <2>3, <2>4, SharesStay
<1>3. CASE Release(c)
  <2>1. Goes(c, "failed") /\ UNCHANGED <<used, late>>
    BY <1>3 DEF Release
  <2>2. CASE UNCHANGED ledger
    BY <2>1, <2>2, GoesSpare, SharesStay DEF ledger
  <2>3. CASE ReleaseUsageReservation(c)
    <3>1. /\ UNCHANGED <<expired, events, queue>>
          /\ \A d \in Call \ {c} : reservation'[d] = reservation[d]
          /\ reservation'[c] = reservation[c] \/ reservation'[c].status = "released"
      BY <2>3 DEF ReleaseUsageReservation, IInv, TypeOK, Reservations
    <3>2. SpareInv'
      BY <2>1, <3>1, GoesSpare
    <3> QED
      BY <2>1, <2>3, <3>2, ReleaseShare
  <2> QED
    BY <1>3, <2>2, <2>3 DEF Release
<1>4. CASE Record(c)
  <2>1. RecordUsageEvent(c) /\ UNCHANGED <<used, late>>
    BY <1>4 DEF Record
  <2>2. PICK to \in {"recorded", "queueing", "not-recorded"} : Goes(c, to)
    BY <1>4 DEF Record
  <2>3. /\ UNCHANGED <<expired, queue>> /\ reservation'[c].status = "committed"
        /\ \A d \in Call \ {c} : reservation'[d] = reservation[d] /\ (d \in events' <=> d \in events)
    BY <2>1, IInvTables, RecordKeeps DEF RecordUsageEvent, ledger
  <2>4. SpareInv'
    BY <2>1, <2>2, <2>3, GoesSpare
  <2> QED
    BY <2>1, <2>4, RecordShare
<1>5. CASE Queue(c)
  <2>1. RecordReconciliationPending(c) /\ UNCHANGED <<used, late>>
    BY <1>5 DEF Queue
  <2>2. PICK to \in {"reconciliation-pending", "reconciliation-unavailable"} : Goes(c, to)
    BY <1>5 DEF Queue
  <2>3. /\ UNCHANGED <<expired, events>> /\ reservation'[c].reconciliationPending
        /\ reservation[c].status = "pending"
        /\ \A d \in Call \ {c} : reservation'[d] = reservation[d] /\ queue'[d] = queue[d]
    BY <2>1 DEF RecordReconciliationPending, Queueable, IInv, TypeOK, Reservations
  <2>4. SpareInv'
    BY <2>1, <2>2, <2>3, GoesSpare
  <2> QED
    BY <2>1, <2>4, NoteShare
<1> QED
  BY <1>1, <1>2, <1>3, <1>4, <1>5 DEF RequestNext

LEMMA JobShares ==
  ASSUME IInv, SpareInv, NEW c \in Call, JobNext(c)
  PROVE  SpareInv' /\ NoShareGrows
<1>1. queue[c] # "none"
  BY DEF JobNext, JobTakes, JobRecords, JobResolves, JobMoves, IInv, JobInv
<1>2. UNCHANGED <<phase, used, late>>
  BY DEF JobNext, JobTakes, JobRecords, JobResolves, JobMoves
<1>3. CASE RecordUsageEvent(c)
  <2>1. /\ UNCHANGED <<expired, queue>> /\ reservation'[c].status = "committed"
        /\ \A d \in Call \ {c} : reservation'[d] = reservation[d] /\ (d \in events' <=> d \in events)
    BY <1>3, IInvTables, RecordKeeps DEF RecordUsageEvent, ledger
  <2>2. SpareInv'
    BY <1>1, <1>2, <2>1 DEF SpareInv
  <2> QED
    BY <1>2, <1>3, <2>2, RecordShare
<1>4. CASE UNCHANGED ledger
  BY <1>2, <1>4, SharesStay DEF ledger, SpareInv
<1>5. CASE JobResolves(c)
  <2>1. UNCHANGED <<reservation, expired, events>> /\ \A d \in Call \ {c} : queue'[d] = queue[d]
    BY <1>5 DEF JobResolves, IInv, TypeOK
  <2>2. SpareInv'
    BY <1>1, <1>2, <2>1 DEF SpareInv
  <2> QED
    BY <1>2, <2>1, <2>2, SharesStay
<1> QED
  BY <1>3, <1>4, <1>5 DEF JobNext, JobTakes, JobRecords, JobMoves

(* A reservation that runs out lapses, or is kept and counts as before. *)
LEMMA ExpireShares ==
  ASSUME IInv, SpareInv, NEW c \in Call, Expire(c)
  PROVE  SpareInv' /\ NoShareGrows
<1>1. /\ UNCHANGED <<phase, used, reservation, events, queue>> /\ expired' = expired \cup {c}
      /\ late' = IF reservation[c].reconciliationPending THEN late ELSE late \cup {c}
      /\ reservation[c].status = "pending"
  BY DEF Expire
<1>2. phase[c] # "idle"
  BY <1>1 DEF IInv, RequestInv, NoReservation
<1>3. SpareInv'
  BY <1>1, <1>2 DEF SpareInv
<1>4. \A d \in Call \ {c} : Share(d)' = Share(d)
  BY <1>1, ShareStays
<1>5. Share(c)' = Share(c) \/ Share(c)' = 0
  BY <1>1 DEF Share, Holds
<1> QED
  BY <1>3, <1>4, <1>5, SharesAreNats DEF NoShareGrows

LEMMA NextShares ==
  ASSUME IInv, SpareInv, [Next]_vars
  PROVE  SpareInv' /\ (NoShareGrows \/ OneReserves)
<1>1. CASE JobLists \/ Crash \/ UNCHANGED vars
  <2>1. UNCHANGED <<used, reservation, expired, events, queue, late>>
    BY <1>1 DEF JobLists, Crash, ledger, vars
  <2>2. \A c \in Call : phase'[c] \in {phase[c], "gone"}
    BY <1>1 DEF JobLists, Crash, vars, IInv, TypeOK
  <2>3. SpareInv'
    BY <2>1, <2>2 DEF SpareInv
  <2> QED
    BY <2>1, <2>3, SharesStay
<1> QED
  BY <1>1, RequestShares, JobShares, ExpireShares DEF Next

(* What is booked and held is the shares and the excess. *)
LEMMA BookedAndHeld ==
  ASSUME IInv
  PROVE  /\ Booked + Held = Points(Shares, Call) + Points(Excess, events \cup Active)
         /\ Points(Excess, events \cup Active) \in Nat /\ Points(Shares, Call) \in Nat
<1>1. /\ \A c \in Call : used[c] \in Nat /\ reservation[c].estimated \in Nat
      /\ events \subseteq Call /\ Active \subseteq Call /\ events \cap Active = {}
      /\ IsFiniteSet(Call) /\ IsFiniteSet(events) /\ IsFiniteSet(Active)
  <2>1. events \subseteq Call /\ Active \subseteq Call /\ IsFiniteSet(Call)
    BY DEF IInv, TypeOK, Active
  <2>2. events \cap Active = {}
    BY DEF IInv, OneStory, Active, Holds
  <2> QED
    BY <2>1, <2>2, FS_Subset DEF IInv, TypeOK, Reservations
<1>2. PICK charge : charge = [c \in Call |-> IF c \in events THEN used[c] ELSE reservation[c].estimated]
  OBVIOUS
<1>3. Costs(charge, events) /\ Costs(charge, Active) /\ Costs(used, events) /\ Costs(Estimated, Active)
  BY <1>1, <1>2 DEF Costs, Estimated
<1>4. Booked = Points(charge, events) /\ Held = Points(charge, Active)
  <2>1. \A c \in events : used[c] = charge[c]
    BY <1>1, <1>2
  <2>2. \A c \in Active : Estimated[c] = charge[c]
    BY <1>1, <1>2 DEF Estimated
  <2> QED
    BY <1>3, <2>1, <2>2, PointsSame DEF Booked, Held
<1>5. Booked + Held = Points(charge, events \cup Active)
  BY <1>1, <1>3, <1>4, PointsUnion
<1> DEFINE counted == events \cup Active
<1>6. counted \subseteq Call /\ Costs(Shares, Call) /\ Costs(Shares, counted) /\ Costs(Shares, Call \ counted)
  BY <1>1, SharesAreCosts, CostsLess
<1>7. Costs(Excess, counted)
  BY <1>1, <1>6 DEF Costs, Excess, Estimated
<1>8. \A c \in counted : charge[c] = Shares[c] + Excess[c]
  BY <1>1, <1>2, <1>6 DEF Shares, Share, Excess, Estimated, Active
<1>9. Points(charge, counted) = Points(Shares, counted) + Points(Excess, counted)
  BY <1>6, <1>7, <1>8, PointsAdd
<1>10. Points(Shares, Call \ counted) = 0
  <2>1. \A c \in Call \ counted : Shares[c] = 0
    BY DEF Shares, Share, Active
  <2>2. Points(Shares, Call \ counted) = Points(Shares, Call \ counted) + Points(Shares, Call \ counted)
    BY <1>6, <2>1, PointsAdd
  <2> QED
    BY <1>6, <2>2, PointsType
<1>11. Points(Shares, Call) = Points(Shares, counted)
  <2>1. Call = counted \cup (Call \ counted) /\ counted \cap (Call \ counted) = {}
    BY <1>6
  <2>2. Points(Shares, Call) = Points(Shares, counted) + Points(Shares, Call \ counted)
    BY <1>6, <2>1, PointsUnion
  <2> QED
    BY <1>6, <1>10, <2>2, PointsType
<1> QED
  BY <1>5, <1>6, <1>7, <1>9, <1>11, PointsType

LEMMA SharesAreNatsNext == IInv' => (\A c \in Call : Share(c) \in Nat /\ Shares[c] = Share(c))'
  BY SharesAreNats, PTL

LEMMA NextLimit ==
  ASSUME IInv, IInv', NoShareGrows \/ OneReserves, LimitInv
  PROVE  LimitInv'
<1> SUFFICES ASSUME Limit > 0 PROVE Points(Shares', Call) <= Limit
  BY DEF LimitInv
<1>1. PICK old, new : old = Shares /\ new = Shares'
  OBVIOUS
<1>2. Costs(old, Call) /\ Points(old, Call) <= Limit
  BY <1>1, SharesAreCosts DEF LimitInv
<1>3. \A c \in Call : old[c] = Share(c) /\ new[c] = Share(c)'
  BY <1>1 DEF Shares
<1>4. Costs(new, Call)
  BY <1>3, SharesAreNatsNext DEF Costs
<1>5. Points(new, Call) \in Nat /\ Points(old, Call) \in Nat
  BY <1>2, <1>4, PointsType
<1>6. CASE NoShareGrows
  <2>1. Points(new, Call) <= Points(old, Call)
    BY <1>2, <1>3, <1>4, <1>6, PointsLess DEF NoShareGrows
  <2> QED
    BY <1>1, <1>2, <1>5, <2>1
<1>7. CASE OneReserves
  <2>1. PICK c \in Call, points \in Estimates :
          Fits(points) /\ new[c] <= points /\ \A d \in Call \ {c} : new[d] = old[d]
    BY <1>3, <1>7 DEF OneReserves
  <2>2. Costs(old, Call \ {c}) /\ Costs(new, Call \ {c})
    BY <1>2, <1>4, CostsLess
  <2>3. /\ Points(new, Call) = new[c] + Points(new, Call \ {c})
        /\ Points(old, Call) = old[c] + Points(old, Call \ {c})
    BY <1>2, <1>4, PointsRemove
  <2>4. Points(new, Call \ {c}) = Points(old, Call \ {c})
    BY <2>1, <2>2, PointsSame
  <2>5. /\ Points(old, Call \ {c}) \in Nat /\ old[c] \in Nat /\ new[c] \in Nat /\ points \in Nat
        /\ Points(Excess, events \cup Active) \in Nat
    BY <1>2, <1>4, <2>1, <2>2, PointsType, BookedAndHeld DEF Costs
  <2>6. Points(old, Call) + Points(Excess, events \cup Active) + points <= Limit
    BY <1>1, <2>1, BookedAndHeld DEF Fits
  <2> QED
    BY <1>1, <2>1, <2>3, <2>4, <2>5, <2>6
<1> QED
  BY <1>6, <1>7

(* With limitAction "block" the points booked and held exceed a limit above *)
(* 0 by nothing but calls that outlived their reservation, and what booked  *)
(* calls cost beyond their estimate: for any number of calls and any plan.  *)
THEOREM LimitAlwaysHolds == Spec => []LimitHolds
<1>1. Init => IInv /\ SpareInv /\ LimitInv
  <2> SUFFICES ASSUME Init PROVE IInv /\ SpareInv /\ LimitInv
    OBVIOUS
  <2>1. SpareInv
    BY DEF Init, SpareInv, NoReservation
  <2>2. \A c \in Call : Shares[c] = 0
    BY DEF Init, Shares, Share, Holds, NoReservation
  <2>3. Points(Shares, Call) = Points(Shares, Call) + Points(Shares, Call)
    BY <2>2, InitIInv, SharesAreCosts, PointsAdd
  <2> QED
    BY <2>1, <2>3, InitIInv, SharesAreCosts, PointsType DEF LimitInv
<1>2. IInv /\ SpareInv /\ LimitInv /\ [Next]_vars => (IInv /\ SpareInv /\ LimitInv)'
  <2>1. IInv /\ [Next]_vars => IInv'
    BY RequestNextIInv, JobNextIInv, RestIInv DEF Next
  <2> QED
    BY <2>1, NextShares, NextLimit
<1>3. IInv /\ SpareInv /\ LimitInv => LimitHolds
  BY BookedAndHeld DEF LimitInv, LimitHolds, WithinLimit
<1> QED
  BY <1>1, <1>2, <1>3, PTL DEF Spec

=============================================================================
