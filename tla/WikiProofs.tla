----------------------------- MODULE WikiProofs -----------------------------
(***************************************************************************)
(* What the wiki's server and the queue of a browser promise, for any      *)
(* number of edits, edits of others, lost requests and answers, and for    *)
(* any limits of the history and of a batch.                               *)
(*                                                                         *)
(* An op of a merge leaves entries that undo it (MergeOpFacts), so a batch *)
(* does (MergeAllFacts), so each row of the history undoes its version     *)
(* (RowTrue) and the rows that are kept follow one another up to the page  *)
(* (HistoryInv); a rebuild walks back over them (ReconstructFacts).        *)
(* All of it needs that no id is on a page twice (UniqueIds).              *)
(*                                                                         *)
(* The texts of a batch that is stored are in a version, in its row or in  *)
(* the answer (BatchTexts), and folding the queue loses none but into an   *)
(* insert (CoalesceFacts); so that what the server knows of an op that is  *)
(* queued or under way is safe (KeptInv).                                  *)
(*                                                                         *)
(* What a batch of the person leaves on the page or writes over is of its  *)
(* own ops, or was there (StoreBlocks); and no op that is still to be      *)
(* merged is older than a block of the person (NoticeInv).                 *)
(*                                                                         *)
(* What runs over a list is a recursive function here; that it exists for  *)
(* every list is Steps, from the order of the natural numbers.             *)
(***************************************************************************)
EXTENDS WikiEditing, SequenceTheorems, FiniteSetTheorems, TLAPS

(* The order of the natural numbers is well-founded. *)
LEMMA NatOrder ==
  \E R : IsWellFoundedOn(R, Nat) /\ \A x, y \in Nat : x < y => <<x, y>> \in R
<1> DEFINE R == OpToRel(<, Nat)
<1>1. R = {ss \in Nat \X Nat : ss[1] < ss[2]}
  BY Zenon DEF OpToRel
<1>2. IsWellFoundedOn(R, Nat)
  BY NatLessThanWellFounded
<1> HIDE DEF R
<1> QED
  BY <1>1, <1>2

LEMMA LeastOf ==
  ASSUME NEW B \in SUBSET Nat, B # {}
  PROVE  \E n \in B : \A k \in B : ~(k < n)
<1>0. PICK R : IsWellFoundedOn(R, Nat) /\ \A x, y \in Nat : x < y => <<x, y>> \in R
  BY NatOrder
<1>1. B \subseteq Nat /\ IsWellFoundedOn(R, Nat)
  BY <1>0
<1>2. \E n \in B : \A k \in B : ~ (<<k, n>> \in R)
  BY <1>1, WFMin, Zenon
<1> QED
  BY <1>0, <1>1, <1>2

(* Induction up to a number, for the members of a set. *)
LEMMA Upwards ==
  ASSUME NEW N \in Nat, NEW T \in SUBSET Nat, 0 \in T, \A n \in 1..N : n - 1 \in T => n \in T
  PROVE  0..N \subseteq T
<1> DEFINE B == {n \in 0..N : n \notin T}
<1>1. SUFFICES ASSUME B # {} PROVE FALSE
  OBVIOUS
<1>2. PICK n \in B : \A k \in B : ~(k < n)
  <2>1. B \in SUBSET Nat
    OBVIOUS
  <2> HIDE DEF B
  <2> QED
    BY <1>1, <2>1, LeastOf
<1>4. n \in 1..N /\ n - 1 \notin B
  BY <1>2
<1> QED
  BY <1>4

(* What is defined step by step exists. *)
StepsOf(N, M, base, f) == N \in Nat /\ base \in M /\ f \in [1..N -> [M -> M]]
Stepwise(N, M, base, f) == \E g \in [0..N -> M] : g[0] = base /\ \A n \in 1..N : g[n] = f[n][g[n - 1]]

LEMMA Steps == \A N, M, base, f : StepsOf(N, M, base, f) => Stepwise(N, M, base, f)
<1> SUFFICES ASSUME NEW N, NEW M, NEW base, NEW f, StepsOf(N, M, base, f)
             PROVE  Stepwise(N, M, base, f)
  BY Zenon
<1>0. N \in Nat /\ base \in M /\ f \in [1..N -> [M -> M]]
  BY DEF StepsOf
<1> USE <1>0
<1> DEFINE P(k, g) == g \in [0..k -> M] /\ g[0] = base /\ \A n \in 1..k : g[n] = f[n][g[n - 1]]
           T == {k \in 0..N : \E g : P(k, g)}
<1>1. 0 \in T
  <2>1. PICK h : h = [i \in 0..0 |-> base]
    OBVIOUS
  <2>2. P(0, h)
    BY <2>1
  <2> HIDE DEF P
  <2> QED
    BY <2>2
<1>2. ASSUME NEW k \in 1..N, k - 1 \in T PROVE k \in T
  <2>1. PICK g : P(k - 1, g)
    BY <1>2
  <2>2. PICK h : h = [i \in 0..k |-> IF i = k THEN f[k][g[k - 1]] ELSE g[i]]
    OBVIOUS
  <2>3. f[k][g[k - 1]] \in M
    BY <2>1
  <2>4. h \in [0..k -> M] /\ h[0] = base
    BY <2>1, <2>2, <2>3
  <2>5. ASSUME NEW n \in 1..k PROVE h[n] = f[n][h[n - 1]]
    <3>1. n - 1 \in 0..(k - 1) /\ n - 1 \in 0..k /\ n - 1 # k /\ (n # k => n \in 1..(k - 1) /\ n \in 0..k)
      OBVIOUS
    <3>2. h[n - 1] = g[n - 1] /\ h[n] = IF n = k THEN f[k][g[k - 1]] ELSE g[n]
      BY <2>2, <3>1
    <3> QED
      BY <2>1, <3>1, <3>2
  <2>6. P(k, h)
    BY <2>4, <2>5
  <2>7. k \in 0..N
    OBVIOUS
  <2> HIDE DEF P
  <2>8. \E g1 : P(k, g1)
    BY <2>6
  <2> QED
    BY <2>7, <2>8
<1>3. N \in T
  <2>1. T \in SUBSET Nat
    OBVIOUS
  <2> HIDE DEF T
  <2>2. 0..N \subseteq T
    BY <1>1, <1>2, <2>1, Upwards
  <2> QED
    BY <2>2
<1> QED
  BY <1>3 DEF Stepwise

----------------------------------------------------------------------------
(* Sequences. *)
LEMMA InsertAtFacts ==
  ASSUME NEW S, NEW s \in Seq(S), NEW e \in S, NEW i \in 1..(Len(s) + 1)
  PROVE  /\ InsertAt(s, i, e) \in Seq(S) /\ Len(InsertAt(s, i, e)) = Len(s) + 1
         /\ \A k \in 1..(Len(s) + 1) :
              InsertAt(s, i, e)[k] = IF k < i THEN s[k] ELSE IF k = i THEN e ELSE s[k - 1]
<1>1. Len(s) \in Nat /\ \A k \in 1..Len(s) : s[k] \in S
  BY ElementOfSeq, LenProperties
<1>2. /\ SubSeq(s, 1, i - 1) \in Seq(S) /\ Len(SubSeq(s, 1, i - 1)) = i - 1
      /\ \A k \in 1..(i - 1) : SubSeq(s, 1, i - 1)[k] = s[k]
  <2>1. \A k \in 1..(i - 1) : s[k] \in S
    BY <1>1
  <2> QED
    BY <1>1, <2>1, SubSeqProperties
<1>3. /\ SubSeq(s, i, Len(s)) \in Seq(S) /\ Len(SubSeq(s, i, Len(s))) = Len(s) - i + 1
      /\ \A k \in 1..(Len(s) - i + 1) : SubSeq(s, i, Len(s))[k] = s[i + k - 1]
  <2>1. \A k \in i..Len(s) : s[k] \in S
    BY <1>1
  <2> QED
    BY <1>1, <2>1, SubSeqProperties
<1>4. <<e>> \in Seq(S) /\ Len(<<e>>) = 1 /\ <<e>>[1] = e
  OBVIOUS
<1> DEFINE left == SubSeq(s, 1, i - 1) \o <<e>>
<1>5. /\ left \in Seq(S) /\ Len(left) = i
      /\ \A k \in 1..i : left[k] = IF k < i THEN s[k] ELSE e
  BY <1>1, <1>2, <1>4, ConcatProperties
<1> DEFINE right == SubSeq(s, i, Len(s))
           t == InsertAt(s, i, e)
<1>6. t = left \o right
  BY DEF InsertAt
<1> HIDE DEF left, right, t
<1>7. right \in Seq(S) /\ Len(right) = Len(s) - i + 1 /\ \A k \in 1..(Len(s) - i + 1) : right[k] = s[i + k - 1]
  BY <1>3 DEF right
<1>8. /\ t \in Seq(S) /\ Len(t) = Len(s) + 1
      /\ \A k \in 1..(Len(s) + 1) : t[k] = IF k <= i THEN left[k] ELSE right[k - i]
  <2>1. /\ left \o right \in Seq(S) /\ Len(left \o right) = Len(left) + Len(right)
        /\ \A k \in 1..(Len(left) + Len(right)) : (left \o right)[k] =
             IF k <= Len(left) THEN left[k] ELSE right[k - Len(left)]
    BY <1>5, <1>7, ConcatProperties
  <2> QED
    BY <1>1, <1>5, <1>6, <1>7, <2>1
<1>9. \A k \in 1..(Len(s) + 1) : t[k] = IF k < i THEN s[k] ELSE IF k = i THEN e ELSE s[k - 1]
  <2> TAKE k \in 1..(Len(s) + 1)
  <2>1. CASE k <= i
    BY <1>1, <1>5, <1>8, <2>1
  <2>2. CASE k > i
    <3>1. k - i \in 1..(Len(s) - i + 1) /\ i + (k - i) - 1 = k - 1
      BY <1>1, <2>2
    <3> QED
      BY <1>1, <1>7, <1>8, <2>2, <3>1
  <2> QED
    BY <1>1, <2>1, <2>2
<1> HIDE DEF left, right
<1> QED
  BY <1>8, <1>9, Zenon DEF t

(* What is left when one member is taken out. *)
LEMMA RemoveAtFacts ==
  ASSUME NEW S, NEW s \in Seq(S), NEW i \in 1..Len(s)
  PROVE  /\ RemoveAt(s, i) \in Seq(S) /\ Len(RemoveAt(s, i)) = Len(s) - 1
         /\ \A k \in 1..(Len(s) - 1) : RemoveAt(s, i)[k] = IF k < i THEN s[k] ELSE s[k + 1]
<1>1. Len(s) \in Nat /\ \A k \in 1..Len(s) : s[k] \in S
  BY ElementOfSeq, LenProperties
<1>2. /\ SubSeq(s, 1, i - 1) \in Seq(S) /\ Len(SubSeq(s, 1, i - 1)) = i - 1
      /\ \A k \in 1..(i - 1) : SubSeq(s, 1, i - 1)[k] = s[k]
  <2>1. \A k \in 1..(i - 1) : s[k] \in S
    BY <1>1
  <2> QED
    BY <1>1, <2>1, SubSeqProperties
<1>3. /\ SubSeq(s, i + 1, Len(s)) \in Seq(S) /\ Len(SubSeq(s, i + 1, Len(s))) = Len(s) - i
      /\ \A k \in 1..(Len(s) - i) : SubSeq(s, i + 1, Len(s))[k] = s[i + k]
  <2>1. \A k \in (i + 1)..Len(s) : s[k] \in S
    BY <1>1
  <2>2. i + 1 \in Int /\ Len(s) \in Int
    BY <1>1
  <2> QED
    BY <1>1, <2>1, <2>2, SubSeqProperties
<1> DEFINE left == SubSeq(s, 1, i - 1)
           right == SubSeq(s, i + 1, Len(s))
           t == RemoveAt(s, i)
<1>4. t = left \o right
  BY DEF RemoveAt
<1>5. /\ left \in Seq(S) /\ Len(left) = i - 1 /\ \A k \in 1..(i - 1) : left[k] = s[k]
      /\ right \in Seq(S) /\ Len(right) = Len(s) - i /\ \A k \in 1..(Len(s) - i) : right[k] = s[i + k]
  BY <1>2, <1>3
<1> HIDE DEF left, right, t
<1>6. /\ t \in Seq(S) /\ Len(t) = Len(s) - 1
      /\ \A k \in 1..(Len(s) - 1) : t[k] = IF k <= i - 1 THEN left[k] ELSE right[k - (i - 1)]
  <2>1. /\ left \o right \in Seq(S) /\ Len(left \o right) = Len(left) + Len(right)
        /\ \A k \in 1..(Len(left) + Len(right)) : (left \o right)[k] =
             IF k <= Len(left) THEN left[k] ELSE right[k - Len(left)]
    BY <1>5, ConcatProperties
  <2> QED
    BY <1>1, <1>5, <1>4, <2>1
<1>7. \A k \in 1..(Len(s) - 1) : t[k] = IF k < i THEN s[k] ELSE s[k + 1]
  <2> TAKE k \in 1..(Len(s) - 1)
  <2>1. CASE k < i
    <3>1. k <= i - 1 /\ k \in 1..(i - 1)
      BY <1>1, <2>1
    <3> QED
      BY <1>5, <1>6, <2>1, <3>1
  <2>2. CASE k >= i
    <3>1. k - (i - 1) \in 1..(Len(s) - i) /\ i + (k - (i - 1)) = k + 1
      BY <1>1, <2>2
    <3>2. right[k - (i - 1)] = s[i + (k - (i - 1))]
      BY <1>5, <3>1
    <3>3. ~(k <= i - 1) /\ ~(k < i)
      BY <1>1, <2>2
    <3> QED
      BY <1>6, <3>1, <3>2, <3>3
  <2> QED
    BY <1>1, <2>1, <2>2
<1> QED
  BY <1>6, <1>7, Zenon DEF t

LEMMA ReplaceAtFacts ==
  ASSUME NEW S, NEW s \in Seq(S), NEW e \in S, NEW i \in 1..Len(s)
  PROVE  /\ ReplaceAt(s, i, e) \in Seq(S) /\ Len(ReplaceAt(s, i, e)) = Len(s)
         /\ \A k \in 1..Len(s) : ReplaceAt(s, i, e)[k] = IF k = i THEN e ELSE s[k]
  BY ExceptSeq DEF ReplaceAt

(* Index finds a member with the id where there is one. *)
LEMMA IndexFacts ==
  ASSUME NEW S, NEW rows \in Seq(S), NEW id
  PROVE  /\ Has(rows, id) => Index(rows, id) \in 1..Len(rows) /\ rows[Index(rows, id)].id = id
         /\ ~Has(rows, id) => Index(rows, id) = 0
         /\ Index(rows, id) # 0 <=> Has(rows, id)
<1>1. DOMAIN rows = 1..Len(rows) /\ Len(rows) \in Nat
  BY LenProperties
<1>2. ASSUME Has(rows, id)
      PROVE  \E i \in DOMAIN rows : rows[i].id = id /\ \A j \in 1..(i - 1) : rows[j].id # id
  <2> DEFINE B == {i \in DOMAIN rows : rows[i].id = id}
  <2>1. B \in SUBSET Nat /\ B # {}
    BY <1>1, <1>2 DEF Has
  <2>2. PICK n \in B : \A k \in B : ~(k < n)
    <3> HIDE DEF B
    <3> QED
      BY <2>1, LeastOf
  <2> QED
    BY <1>1, <2>2
<1>3. ASSUME Has(rows, id) PROVE Index(rows, id) \in 1..Len(rows) /\ rows[Index(rows, id)].id = id
  BY <1>1, <1>2, <1>3 DEF Index
<1>4. ~Has(rows, id) => Index(rows, id) = 0
  BY DEF Index
<1> QED
  BY <1>1, <1>3, <1>4
----------------------------------------------------------------------------
(* What a merge does to the blocks, and how it is undone. *)
Places == Int \cup {None}
Tombs == [id : Int, after : Places]
Entries == [kind : {"delete"}, id : Int] \cup [kind : {"insert"}, block : Blocks, after : Places]
           \cup [kind : {"update"}, id : Int, block : Blocks] \cup [kind : {"move"}, id : Int, after : Places]

UniqueIds(s) == \A i, j \in DOMAIN s : s[i].id = s[j].id => i = j

(* An anchor is a place of the page (resolveAnchor). *)
LEMMA AnchorFacts ==
  ASSUME NEW blocks \in Seq(Blocks), NEW tombs, NEW after
  PROVE  Anchor(blocks, tombs, after) \in 0..Len(blocks)
<1>1. \A a : Has(blocks, a) => Index(blocks, a) \in 1..Len(blocks)
  BY IndexFacts
<1>2. Len(blocks) \in Nat
  BY LenProperties
<1> QED
  BY <1>1, <1>2 DEF Anchor

(* Where ids are unique, a block is found where it is. *)
LEMMA IndexIs ==
  ASSUME NEW s \in Seq(Blocks), UniqueIds(s), NEW i \in 1..Len(s)
  PROVE  Has(s, s[i].id) /\ Index(s, s[i].id) = i
<1>1. DOMAIN s = 1..Len(s) /\ Len(s) \in Nat
  BY LenProperties
<1>2. Has(s, s[i].id)
  BY <1>1 DEF Has
<1>3. Index(s, s[i].id) \in 1..Len(s) /\ s[Index(s, s[i].id)].id = s[i].id
  BY <1>2, IndexFacts
<1> QED
  BY <1>1, <1>2, <1>3 DEF UniqueIds

(* A block put in, a block taken out, and when two documents are one. *)
Widened(s, k, b, t) ==
  /\ t \in Seq(Blocks) /\ Len(t) = Len(s) + 1
  /\ \A n \in 1..(Len(s) + 1) : t[n] = IF n < k THEN s[n] ELSE IF n = k THEN b ELSE s[n - 1]

Narrowed(s, k, t) ==
  /\ t \in Seq(Blocks) /\ Len(t) = Len(s) - 1
  /\ \A n \in 1..(Len(s) - 1) : t[n] = IF n < k THEN s[n] ELSE s[n + 1]

LEMMA Widens ==
  ASSUME NEW s \in Seq(Blocks), NEW b \in Blocks, NEW k \in 1..(Len(s) + 1)
  PROVE  Widened(s, k, b, InsertAt(s, k, b))
<1>1. /\ InsertAt(s, k, b) \in Seq(Blocks) /\ Len(InsertAt(s, k, b)) = Len(s) + 1
      /\ \A n \in 1..(Len(s) + 1) :
           InsertAt(s, k, b)[n] = IF n < k THEN s[n] ELSE IF n = k THEN b ELSE s[n - 1]
  BY InsertAtFacts
<1> QED
  BY <1>1, Zenon DEF Widened

LEMMA Narrows ==
  ASSUME NEW s \in Seq(Blocks), NEW k \in 1..Len(s)
  PROVE  Narrowed(s, k, RemoveAt(s, k))
<1>1. /\ RemoveAt(s, k) \in Seq(Blocks) /\ Len(RemoveAt(s, k)) = Len(s) - 1
      /\ \A n \in 1..(Len(s) - 1) : RemoveAt(s, k)[n] = IF n < k THEN s[n] ELSE s[n + 1]
  BY RemoveAtFacts
<1> QED
  BY <1>1, Zenon DEF Narrowed

LEMMA SameBlocks ==
  ASSUME NEW s \in Seq(Blocks), NEW u \in Seq(Blocks), Len(u) = Len(s), \A n \in 1..Len(s) : u[n] = s[n]
  PROVE  u = s
BY SeqEqual

(* Putting in and taking out undo each other. *)
LEMMA WidenNarrow ==
  ASSUME NEW s \in Seq(Blocks), NEW b, NEW k \in 1..(Len(s) + 1), NEW t, NEW u,
         Widened(s, k, b, t), Narrowed(t, k, u)
  PROVE  u = s
<1>1. Len(s) \in Nat
  BY LenProperties
<1>2. u \in Seq(Blocks) /\ Len(u) = Len(s)
  BY <1>1 DEF Widened, Narrowed
<1>3. ASSUME NEW n \in 1..Len(s) PROVE u[n] = s[n]
  <2>1. u[n] = IF n < k THEN t[n] ELSE t[n + 1]
    BY <1>1 DEF Widened, Narrowed
  <2>2. CASE n < k
    BY <1>1, <2>1, <2>2 DEF Widened
  <2>3. CASE ~(n < k)
    <3>1. n + 1 \in 1..(Len(s) + 1) /\ ~(n + 1 < k) /\ n + 1 # k /\ (n + 1) - 1 = n
      BY <1>1, <2>3
    <3>2. t[n + 1] = s[(n + 1) - 1]
      BY <3>1 DEF Widened
    <3> QED
      BY <2>1, <2>3, <3>1, <3>2
  <2> QED
    BY <2>2, <2>3
<1> QED
  BY <1>2, <1>3, SameBlocks, Zenon

LEMMA NarrowWiden ==
  ASSUME NEW s \in Seq(Blocks), NEW k \in 1..Len(s), NEW t, NEW u, NEW b,
         Narrowed(s, k, t), Widened(t, k, b, u), b = s[k]
  PROVE  u = s
<1>1. Len(s) \in Nat
  BY LenProperties
<1>2. u \in Seq(Blocks) /\ Len(u) = Len(s)
  BY <1>1 DEF Widened, Narrowed
<1>3. ASSUME NEW n \in 1..Len(s) PROVE u[n] = s[n]
  <2>1. u[n] = IF n < k THEN t[n] ELSE IF n = k THEN b ELSE t[n - 1]
    BY <1>1 DEF Widened, Narrowed
  <2>2. CASE n < k
    BY <1>1, <2>1, <2>2 DEF Narrowed
  <2>3. CASE n > k
    <3>1. n - 1 \in 1..(Len(s) - 1) /\ ~(n - 1 < k) /\ n # k /\ (n - 1) + 1 = n /\ ~(n < k)
      BY <1>1, <2>3
    <3>2. t[n - 1] = s[(n - 1) + 1]
      BY <3>1 DEF Narrowed
    <3> QED
      BY <2>1, <3>1, <3>2
  <2>4. CASE n = k
    BY <2>1, <2>4
  <2> QED
    BY <1>1, <2>2, <2>3, <2>4
<1> QED
  BY <1>2, <1>3, SameBlocks, Zenon

LEMMA InsertBlock ==
  ASSUME NEW s \in Seq(Blocks), UniqueIds(s), NEW b \in Blocks, ~Has(s, b.id), NEW k \in 1..(Len(s) + 1)
  PROVE  LET t == InsertAt(s, k, b) IN
         /\ t \in Seq(Blocks) /\ UniqueIds(t) /\ ToSet(t) = ToSet(s) \cup {b}
         /\ t[k] = b /\ k \in 1..Len(t) /\ RemoveAt(t, k) = s
<1> DEFINE t == InsertAt(s, k, b)
           u == RemoveAt(t, k)
<1>1. DOMAIN s = 1..Len(s) /\ Len(s) \in Nat
  BY LenProperties
<1>2. Widened(s, k, b, t)
  BY Widens
<1> HIDE DEF t
<1>3. /\ t \in Seq(Blocks) /\ DOMAIN t = 1..(Len(s) + 1) /\ Len(t) = Len(s) + 1 /\ k \in 1..Len(t) /\ t[k] = b
      /\ \A n \in 1..(Len(s) + 1) : t[n] = IF n < k THEN s[n] ELSE IF n = k THEN b ELSE s[n - 1]
  BY <1>1, <1>2, LenProperties DEF Widened
<1>4. Narrowed(t, k, u)
  BY <1>3, Narrows
<1> HIDE DEF u
<1>5. u = s
  BY <1>2, <1>4, WidenNarrow, Zenon
<1>6. \A n \in DOMAIN s : s[n] \in ToSet(s) /\ s[n].id # b.id
  BY DEF ToSet, Has
<1>7. \A n \in 1..(Len(s) + 1) : n # k => \E i \in DOMAIN s : i = (IF n < k THEN n ELSE n - 1) /\ t[n] = s[i]
  BY <1>1, <1>3
<1>8. UniqueIds(t)
  BY <1>1, <1>3, <1>6, <1>7 DEF UniqueIds
<1>9. ToSet(t) \subseteq ToSet(s) \cup {b}
  BY <1>3, <1>6, <1>7 DEF ToSet
<1>10. ASSUME NEW n \in DOMAIN s PROVE s[n] \in ToSet(t)
  <2>1. (IF n < k THEN n ELSE n + 1) \in DOMAIN t /\ t[IF n < k THEN n ELSE n + 1] = s[n]
    <3>1. CASE n < k
      BY <1>1, <1>3, <3>1
    <3>2. CASE ~(n < k)
      <4>1. n + 1 \in DOMAIN t /\ ~(n + 1 < k) /\ n + 1 # k /\ (n + 1) - 1 = n
        BY <1>1, <1>3, <3>2
      <4> QED
        BY <1>3, <3>2, <4>1
    <3> QED
      BY <3>1, <3>2
  <2> QED
    BY <2>1 DEF ToSet
<1>11. ToSet(t) = ToSet(s) \cup {b}
  BY <1>3, <1>9, <1>10 DEF ToSet
<1> QED
  BY <1>3, <1>5, <1>8, <1>11 DEF t, u

LEMMA RemoveBlock ==
  ASSUME NEW s \in Seq(Blocks), UniqueIds(s), NEW k \in 1..Len(s)
  PROVE  LET t == RemoveAt(s, k) IN
         /\ t \in Seq(Blocks) /\ UniqueIds(t) /\ ToSet(s) = ToSet(t) \cup {s[k]} /\ ~Has(t, s[k].id)
         /\ Len(t) = Len(s) - 1 /\ InsertAt(t, k, s[k]) = s
         /\ k > 1 => Has(t, s[k - 1].id) /\ Index(t, s[k - 1].id) = k - 1
<1> DEFINE t == RemoveAt(s, k)
           u == InsertAt(t, k, s[k])
<1>1. DOMAIN s = 1..Len(s) /\ Len(s) \in Nat /\ s[k] \in Blocks
  BY LenProperties, ElementOfSeq
<1>2. Narrowed(s, k, t)
  BY Narrows
<1> HIDE DEF t
<1>3. /\ t \in Seq(Blocks) /\ Len(t) = Len(s) - 1 /\ DOMAIN t = 1..(Len(s) - 1) /\ k \in 1..(Len(t) + 1)
      /\ \A n \in 1..(Len(s) - 1) : t[n] = IF n < k THEN s[n] ELSE s[n + 1]
  BY <1>1, <1>2, LenProperties DEF Narrowed
<1>4. Widened(t, k, s[k], u)
  BY <1>1, <1>3, Widens
<1> HIDE DEF u
<1>5. u = s
  BY <1>2, <1>4, NarrowWiden, Zenon
<1>6. \A n \in DOMAIN t : \E i \in DOMAIN s : i # k /\ i = (IF n < k THEN n ELSE n + 1) /\ t[n] = s[i]
  BY <1>1, <1>3
<1>7. UniqueIds(t)
  BY <1>1, <1>3, <1>6 DEF UniqueIds
<1>8. ~Has(t, s[k].id)
  BY <1>1, <1>6 DEF UniqueIds, Has
<1>9. ASSUME NEW n \in DOMAIN s, n # k PROVE \E i \in DOMAIN t : i = (IF n < k THEN n ELSE n - 1) /\ t[i] = s[n]
  BY <1>1, <1>3, <1>9
<1>10. ToSet(s) = ToSet(t) \cup {s[k]}
  <2>1. ToSet(s) \subseteq ToSet(t) \cup {s[k]}
    BY <1>9 DEF ToSet
  <2>2. ToSet(t) \subseteq ToSet(s) /\ s[k] \in ToSet(s)
    BY <1>1, <1>6 DEF ToSet
  <2> QED
    BY <2>1, <2>2
<1>11. ASSUME k > 1 PROVE Has(t, s[k - 1].id) /\ Index(t, s[k - 1].id) = k - 1
  <2>1. k - 1 \in DOMAIN t /\ k - 1 \in 1..Len(t) /\ t[k - 1] = s[k - 1]
    BY <1>1, <1>3, <1>11
  <2> QED
    BY <1>3, <1>7, <2>1, IndexIs
<1> QED
  BY <1>3, <1>5, <1>7, <1>8, <1>10, <1>11 DEF t, u

LEMMA ReplaceBlock ==
  ASSUME NEW s \in Seq(Blocks), UniqueIds(s), NEW k \in 1..Len(s), NEW b \in Blocks, b.id = s[k].id
  PROVE  LET t == ReplaceAt(s, k, b) IN
         /\ t \in Seq(Blocks) /\ UniqueIds(t) /\ ToSet(t) \cup {s[k]} = ToSet(s) \cup {b}
         /\ t[k] = b /\ Len(t) = Len(s) /\ ReplaceAt(t, k, s[k]) = s
<1> DEFINE t == ReplaceAt(s, k, b)
           u == ReplaceAt(t, k, s[k])
<1>1. DOMAIN s = 1..Len(s) /\ Len(s) \in Nat /\ s[k] \in Blocks
  BY LenProperties, ElementOfSeq
<1>2. /\ t \in Seq(Blocks) /\ Len(t) = Len(s)
      /\ \A n \in 1..Len(s) : t[n] = IF n = k THEN b ELSE s[n]
  BY ReplaceAtFacts
<1> HIDE DEF t
<1>3. DOMAIN t = 1..Len(s)
  BY <1>1, <1>2, LenProperties
<1>4. /\ u \in Seq(Blocks) /\ Len(u) = Len(t)
      /\ \A n \in 1..Len(t) : u[n] = IF n = k THEN s[k] ELSE t[n]
  BY <1>1, <1>2, ReplaceAtFacts
<1> HIDE DEF u
<1>5. u = s
  <2>1. \A n \in 1..Len(s) : u[n] = s[n]
    BY <1>2, <1>4
  <2> QED
    BY <1>2, <1>4, <2>1, SameBlocks, Zenon
<1>6. UniqueIds(t)
  BY <1>1, <1>2, <1>3 DEF UniqueIds
<1>7. ToSet(t) \cup {s[k]} = ToSet(s) \cup {b}
  BY <1>1, <1>2, <1>3 DEF ToSet
<1> QED
  BY <1>2, <1>5, <1>6, <1>7 DEF t, u

LEMMA BlockBefore ==
  ASSUME NEW s \in Seq(Blocks), NEW k \in 1..Len(s), None \notin Int
  PROVE  /\ k > 1 => s[k - 1] \in Blocks /\ s[k - 1].id # None
         /\ s[k] \in Blocks /\ IdBefore(s, k) \in Places
<1>1. Len(s) \in Nat
  BY LenProperties
<1>2. s[k] \in Blocks /\ (k > 1 => k - 1 \in 1..Len(s))
  BY <1>1, ElementOfSeq
<1>3. k > 1 => s[k - 1] \in Blocks
  BY <1>2, ElementOfSeq
<1> QED
  BY <1>2, <1>3 DEF Blocks, IdBefore, Places

(* How an entry is undone. *)
LEMMA UndoneInsert ==
  ASSUME NEW s \in Seq(Blocks), UniqueIds(s), NEW b \in Blocks, ~Has(s, b.id), NEW k \in 1..(Len(s) + 1)
  PROVE  Undone(InsertAt(s, k, b), [kind |-> "delete", id |-> b.id]) = s
<1> DEFINE t == InsertAt(s, k, b)
<1>1. t \in Seq(Blocks) /\ UniqueIds(t) /\ t[k] = b /\ k \in 1..Len(t) /\ RemoveAt(t, k) = s
  BY InsertBlock
<1> HIDE DEF t
<1>2. Index(t, b.id) = k /\ k # 0
  BY <1>1, IndexIs
<1>3. Undone(t, [kind |-> "delete", id |-> b.id]) = s
  BY <1>1, <1>2 DEF Undone
<1> QED
  BY <1>3 DEF t

LEMMA UndoneUpdate ==
  ASSUME NEW s \in Seq(Blocks), UniqueIds(s), NEW k \in 1..Len(s), NEW b \in Blocks, b.id = s[k].id
  PROVE  Undone(ReplaceAt(s, k, b), [kind |-> "update", id |-> b.id, block |-> s[k]]) = s
<1> DEFINE t == ReplaceAt(s, k, b)
<1>1. t \in Seq(Blocks) /\ UniqueIds(t) /\ t[k] = b /\ k \in 1..Len(t) /\ ReplaceAt(t, k, s[k]) = s
  BY ReplaceBlock
<1> HIDE DEF t
<1>2. Index(t, b.id) = k /\ k # 0
  BY <1>1, IndexIs
<1>3. Undone(t, [kind |-> "update", id |-> b.id, block |-> s[k]]) = s
  BY <1>1, <1>2 DEF Undone
<1> QED
  BY <1>3 DEF t

(* A deleted block comes back behind the block it stood behind. *)
LEMMA UndoneDelete ==
  ASSUME NEW s \in Seq(Blocks), UniqueIds(s), NEW k \in 1..Len(s), None \notin Int
  PROVE  Undone(RemoveAt(s, k), [kind |-> "insert", block |-> s[k], after |-> IdBefore(s, k)]) = s
<1> DEFINE t == RemoveAt(s, k)
           e == [kind |-> "insert", block |-> s[k], after |-> IdBefore(s, k)]
<1>1. /\ InsertAt(t, k, s[k]) = s
      /\ k > 1 => Has(t, s[k - 1].id) /\ Index(t, s[k - 1].id) = k - 1
  BY RemoveBlock
<1>2. k > 1 => s[k - 1] \in Blocks /\ s[k - 1].id # None
  BY BlockBefore
<1> HIDE DEF t
<1>3. Undone(t, e) = InsertAt(t, k, s[k])
  <2>1. CASE k > 1
    BY <1>1, <1>2, <2>1 DEF Undone, IdBefore
  <2>2. CASE k = 1
    BY <1>1, <1>2, <2>2 DEF Undone, IdBefore
  <2> QED
    BY <2>1, <2>2, LenProperties
<1> QED
  BY <1>1, <1>3 DEF t

LEMMA UndoneMove ==
  ASSUME NEW s \in Seq(Blocks), UniqueIds(s), NEW k \in 1..Len(s), NEW to \in 1..Len(s), None \notin Int
  PROVE  LET t == InsertAt(RemoveAt(s, k), to, s[k]) IN
         /\ Undone(t, [kind |-> "move", id |-> s[k].id, after |-> IdBefore(s, k)]) = s
         /\ t \in Seq(Blocks) /\ UniqueIds(t) /\ ToSet(t) = ToSet(s)
<1> DEFINE r == RemoveAt(s, k)
           t == InsertAt(r, to, s[k])
           e == [kind |-> "move", id |-> s[k].id, after |-> IdBefore(s, k)]
<1>0. Len(s) \in Nat /\ s[k] \in Blocks
  BY LenProperties, ElementOfSeq
<1>1. /\ r \in Seq(Blocks) /\ UniqueIds(r) /\ ToSet(s) = ToSet(r) \cup {s[k]} /\ ~Has(r, s[k].id)
      /\ Len(r) = Len(s) - 1 /\ InsertAt(r, k, s[k]) = s
      /\ k > 1 => Has(r, s[k - 1].id) /\ Index(r, s[k - 1].id) = k - 1
  BY RemoveBlock
<1>2. k > 1 => s[k - 1] \in Blocks /\ s[k - 1].id # None
  BY BlockBefore
<1> HIDE DEF r
<1>3. to \in 1..(Len(r) + 1)
  BY <1>0, <1>1
<1>4. /\ t \in Seq(Blocks) /\ UniqueIds(t) /\ ToSet(t) = ToSet(r) \cup {s[k]}
      /\ t[to] = s[k] /\ to \in 1..Len(t) /\ RemoveAt(t, to) = r
  BY <1>0, <1>1, <1>3, InsertBlock
<1> HIDE DEF t
<1>5. Index(t, s[k].id) = to /\ to # 0
  BY <1>4, IndexIs
<1>6. Undone(t, e) = InsertAt(r, k, s[k])
  <2>1. CASE k > 1
    BY <1>1, <1>2, <1>4, <1>5, <2>1 DEF Undone, IdBefore
  <2>2. CASE k = 1
    BY <1>1, <1>2, <1>4, <1>5, <2>2 DEF Undone, IdBefore
  <2> QED
    BY <1>0, <2>1, <2>2
<1> QED
  BY <1>1, <1>4, <1>6 DEF r, t

----------------------------------------------------------------------------
(* One op of a merge.                                                      *)
Merges == [blocks : Seq(Blocks), tombs : Seq(Tombs), seq : Nat, recent : SUBSET Names, lostBefore : SUBSET Names,
           applied : SUBSET Names, took : SUBSET Names, rejected : SUBSET [op : Names, dropped : BOOLEAN],
           overwrites : SUBSET Blocks, lost : SUBSET Nat, lostOps : SUBSET Names, inverse : Seq(Entries)]

Saved(entries) == {e.block.text : e \in {x \in ToSet(entries) : "block" \in DOMAIN x}}
Holds(m) == TextsOf(m.blocks) \cup m.lost \cup Saved(m.inverse)

(* What is taken is of this op, unless it was known, and can be undone.     *)
Taken(m, m2, op) ==
    /\ m2 \in Merges /\ UniqueIds(m2.blocks)
    /\ m2.recent = m.recent /\ m2.lostBefore = m.lostBefore
    /\ m.took \subseteq m2.took /\ m2.took \subseteq m.took \cup {op.op}
    /\ m.applied \subseteq m2.applied /\ m2.applied \subseteq m.applied \cup {op.op}
    /\ \/ m2.blocks = m.blocks /\ m2.inverse = m.inverse
       \/ /\ op.op \in m2.took
          /\ \E e \in Entries : m2.inverse = <<e>> \o m.inverse /\ Undone(m2.blocks, e) = m.blocks

(* No text is lost, and that of the op is held, was held when it came       *)
(* before, or is reported as given up.                                      *)
Given(m, m2, op) ==
    /\ Holds(m) \subseteq Holds(m2) /\ m.rejected \subseteq m2.rejected
    /\ m.lostOps \subseteq m2.lostOps /\ m2.lostOps \subseteq m.lostOps \cup {op.op}
    /\ op.text # None =>
          \/ op.text \in Holds(m2) \/ op.op \in m.recent
          \/ /\ m2.lostOps = m.lostOps /\ m2.applied = m.applied
             /\ op.op \in m.lostBefore \/ [op |-> op.op, dropped |-> TRUE] \in m2.rejected

(* What is new on the page is stamped with the next seq, and has an id that *)
(* was there unless the op is an insert; what was written over was younger  *)
(* than the base of the op.                                                 *)
Aged(m, m2, op, actor) ==
    /\ m.seq <= m2.seq
    /\ ToSet(m2.blocks) \subseteq ToSet(m.blocks) \cup {Stamped(op.id, op.text, m.seq + 1, actor)}
    /\ \/ ToSet(m2.blocks) \subseteq ToSet(m.blocks) 
       \/ /\ m2.seq = m.seq + 1 /\ op.op \in m2.applied
          /\ op.text # None /\ (op.kind = "insert" \/ Has(m.blocks, op.id))
    /\ m2.overwrites \subseteq m.overwrites \cup
          {b \in ToSet(m.blocks) : b.id = op.id /\ op.text # None /\ (op.kind = "update" => op.base < b.seq)}

LEMMA TextsOfSet ==
  ASSUME NEW s \in Seq(Blocks)
  PROVE  TextsOf(s) = {b.text : b \in ToSet(s)}
  BY DEF TextsOf, ToSet

LEMMA OneMore ==
  ASSUME NEW S, NEW e \in S, NEW s \in Seq(S)
  PROVE  <<e>> \o s \in Seq(S) /\ ToSet(<<e>> \o s) = ToSet(s) \cup {e}
<1> DEFINE t == <<e>> \o s
<1>1. <<e>> \in Seq(S) /\ Len(<<e>>) = 1 /\ <<e>>[1] = e
  OBVIOUS
<1>2. Len(s) \in Nat /\ DOMAIN s = 1..Len(s)
  BY LenProperties
<1>3. /\ t \in Seq(S) /\ Len(t) = Len(<<e>>) + Len(s)
      /\ \A i \in 1..(Len(<<e>>) + Len(s)) : t[i] = IF i <= Len(<<e>>) THEN <<e>>[i] ELSE s[i - Len(<<e>>)]
  BY <1>1, ConcatProperties
<1> HIDE DEF t
<1>4. DOMAIN t = 1..(1 + Len(s)) /\ t[1] = e /\ \A i \in 1..(1 + Len(s)) : i # 1 => t[i] = s[i - 1]
  BY <1>1, <1>2, <1>3, LenProperties
<1>5. ToSet(t) \subseteq ToSet(s) \cup {e}
  <2>1. \A i \in DOMAIN t : i # 1 => i - 1 \in DOMAIN s /\ t[i] = s[i - 1]
    BY <1>2, <1>4
  <2> QED
    BY <1>4, <2>1 DEF ToSet
<1>6. ToSet(s) \cup {e} \subseteq ToSet(t)
  <2>1. \A i \in DOMAIN s : i + 1 \in DOMAIN t /\ t[i + 1] = s[i]
    BY <1>2, <1>4
  <2>2. 1 \in DOMAIN t
    BY <1>2, <1>4
  <2> QED
    BY <1>4, <2>1, <2>2 DEF ToSet
<1> QED
  BY <1>3, <1>5, <1>6 DEF t

LEMMA SavedMore ==
  ASSUME NEW e \in Entries, NEW s \in Seq(Entries)
  PROVE  /\ Saved(s) \subseteq Saved(<<e>> \o s)
         /\ "block" \in DOMAIN e => e.block.text \in Saved(<<e>> \o s)
<1>1. ToSet(<<e>> \o s) = ToSet(s) \cup {e}
  BY OneMore
<1> QED
  BY <1>1 DEF Saved

LEMMA StampedType ==
  ASSUME NEW m \in Merges, NEW op \in Ops, op.text # None, NEW actor \in {Me, Other}
  PROVE  Stamped(op.id, op.text, m.seq + 1, actor) \in Blocks
  BY DEF Stamped, Blocks, Ops, Merges

(* An op that is applied leaves its entry, and its id with what was applied. *)
LEMMA AppliedFacts ==
  ASSUME NEW m \in Merges, UniqueIds(m.blocks), NEW op \in Ops, NEW actor,
         op.text # None => op.text \in Holds(m) \/ op.op \in m.recent
  PROVE  LET m2 == Applied(m, op) IN Taken(m, m2, op) /\ Given(m, m2, op) /\ Aged(m, m2, op, actor)
<1> DEFINE m2 == Applied(m, op)
<1>1. op.op \in Names
  BY DEF Ops
<1>2. /\ m2 \in Merges /\ m2.blocks = m.blocks /\ m2.inverse = m.inverse /\ m2.lost = m.lost
      /\ m2.recent = m.recent /\ m2.lostBefore = m.lostBefore /\ m2.took = m.took /\ m2.seq = m.seq
      /\ m2.applied = m.applied \cup {op.op} /\ m2.rejected = m.rejected /\ m2.lostOps = m.lostOps
      /\ m2.overwrites = m.overwrites
  BY <1>1 DEF Applied, Merges
<1>3. m.seq \in Nat
  BY DEF Merges
<1> HIDE DEF m2
<1>4. Taken(m, m2, op)
  BY <1>2 DEF Taken
<1>5. Given(m, m2, op)
  BY <1>2 DEF Given, Holds
<1>6. Aged(m, m2, op, actor)
  BY <1>2, <1>3 DEF Aged
<1> QED
  BY <1>4, <1>5, <1>6 DEF m2

(* An op that is refused changes no block (rejectOp). *)
LEMMA RejectFacts ==
  ASSUME NEW m \in Merges, UniqueIds(m.blocks), NEW op \in Ops, NEW actor
  PROVE  LET m2 == RejectOp(m, op) IN Taken(m, m2, op) /\ Given(m, m2, op) /\ Aged(m, m2, op, actor)
<1> DEFINE m2 == RejectOp(m, op)
           known == op.text = None \/ op.op \in m.lostBefore
           full == ~known /\ Cardinality(m.lost) >= MaxLost
<1>1. op.op \in Names /\ (op.text # None => op.text \in Nat)
  BY DEF Ops
<1>2. full \in BOOLEAN
  OBVIOUS
<1> HIDE DEF known, full
<1>3. m2 = [m EXCEPT !.rejected = @ \cup {[op |-> op.op, dropped |-> full]},
                     !.lost = IF known \/ full THEN @ ELSE @ \cup {op.text},
                     !.lostOps = IF known \/ full THEN @ ELSE @ \cup {op.op}]
  BY Zenon DEF RejectOp, known, full
<1> HIDE DEF m2
<1>4. op.text = None => known
  BY DEF known
<1>5. /\ m2.blocks = m.blocks /\ m2.inverse = m.inverse
      /\ m2.recent = m.recent /\ m2.lostBefore = m.lostBefore /\ m2.took = m.took /\ m2.seq = m.seq
      /\ m2.applied = m.applied /\ m2.overwrites = m.overwrites
      /\ m2.rejected = m.rejected \cup {[op |-> op.op, dropped |-> full]}
      /\ m2.lost = (IF known \/ full THEN m.lost ELSE m.lost \cup {op.text})
      /\ m2.lostOps = (IF known \/ full THEN m.lostOps ELSE m.lostOps \cup {op.op})
  BY <1>3 DEF Merges
<1>10. m2 \in Merges
  <2>1. (IF known \/ full THEN m.lost ELSE m.lost \cup {op.text}) \in SUBSET Nat
    BY <1>1, <1>4 DEF Merges
  <2>2. (IF known \/ full THEN m.lostOps ELSE m.lostOps \cup {op.op}) \in SUBSET Names
    BY <1>1 DEF Merges
  <2>3. m.rejected \cup {[op |-> op.op, dropped |-> full]} \in SUBSET [op : Names, dropped : BOOLEAN]
    BY <1>1, <1>2 DEF Merges
  <2> QED
    BY <1>3, <2>1, <2>2, <2>3 DEF Merges
<1>6. m.seq \in Nat
  BY DEF Merges
<1>7. Taken(m, m2, op)
  BY <1>5, <1>10 DEF Taken
<1>8. Given(m, m2, op)
  <2>1. Holds(m) \subseteq Holds(m2) /\ m.rejected \subseteq m2.rejected
        /\ m.lostOps \subseteq m2.lostOps /\ m2.lostOps \subseteq m.lostOps \cup {op.op}
    BY <1>5 DEF Holds
  <2>2. ASSUME op.text # None, ~known, ~full PROVE op.text \in Holds(m2)
    BY <1>5, <2>2 DEF Holds
  <2>3. ASSUME op.text # None, known PROVE op.op \in m.lostBefore /\ m2.lostOps = m.lostOps
    BY <1>5, <2>3 DEF known
  <2>4. ASSUME full PROVE [op |-> op.op, dropped |-> TRUE] \in m2.rejected /\ m2.lostOps = m.lostOps
    BY <1>2, <1>5, <2>4
  <2> QED
    BY <1>5, <2>1, <2>2, <2>3, <2>4 DEF Given
<1>9. Aged(m, m2, op, actor)
  BY <1>5, <1>6 DEF Aged
<1> QED
  BY <1>7, <1>8, <1>9 DEF m2

LEMMA MergeRecord ==
  ASSUME NEW blocks \in Seq(Blocks), NEW tombs \in Seq(Tombs), NEW seq \in Nat, NEW recent \in SUBSET Names,
         NEW lostBefore \in SUBSET Names, NEW applied \in SUBSET Names, NEW took \in SUBSET Names,
         NEW rejected \in SUBSET [op : Names, dropped : BOOLEAN], NEW overwrites \in SUBSET Blocks,
         NEW lost \in SUBSET Nat, NEW lostOps \in SUBSET Names, NEW inverse \in Seq(Entries)
  PROVE  [blocks |-> blocks, tombs |-> tombs, seq |-> seq, recent |-> recent, lostBefore |-> lostBefore,
          applied |-> applied, took |-> took, rejected |-> rejected, overwrites |-> overwrites,
          lost |-> lost, lostOps |-> lostOps, inverse |-> inverse] \in Merges
  BY DEF Merges

(* An op that changes the blocks, by the entry that undoes it. *)
LEMMA TookFacts ==
  ASSUME NEW m \in Merges, NEW op \in Ops, NEW actor, NEW m2, NEW e \in Entries,
         NEW t \in Seq(Blocks), UniqueIds(t), Undone(t, e) = m.blocks,
         NEW grows \in 0..1, NEW over \in SUBSET {b \in ToSet(m.blocks) : b.id = op.id /\ op.text # None /\ (op.kind = "update" => op.base < b.seq)},
         NEW tombs \in Seq(Tombs),
         m2 = [Took(m, op) EXCEPT !.seq = m.seq + grows, !.blocks = t, !.tombs = tombs,
                                  !.overwrites = m.overwrites \cup over, !.inverse = <<e>> \o m.inverse],
         TextsOf(m.blocks) \subseteq TextsOf(t) \cup (IF "block" \in DOMAIN e THEN {e.block.text} ELSE {}),
         op.text # None => op.text \in TextsOf(t),
         \/ ToSet(t) \subseteq ToSet(m.blocks)
         \/ /\ grows = 1 /\ ToSet(t) \subseteq ToSet(m.blocks) \cup {Stamped(op.id, op.text, m.seq + 1, actor)}
            /\ op.text # None /\ (op.kind = "insert" \/ Has(m.blocks, op.id))
  PROVE  Taken(m, m2, op) /\ Given(m, m2, op) /\ Aged(m, m2, op, actor)
<1>1. op.op \in Names
  BY DEF Ops
<1>2. m.inverse \in Seq(Entries) /\ m.seq \in Nat /\ m.blocks \in Seq(Blocks)
  BY DEF Merges
<1>3. <<e>> \o m.inverse \in Seq(Entries)
  BY <1>2, OneMore
<1>4. over \subseteq Blocks
  <2>1. ToSet(m.blocks) \subseteq Blocks
    BY <1>2, ElementOfSeq, LenProperties DEF ToSet
  <2> QED
    BY <2>1
<1>5. /\ m2.blocks = t /\ m2.inverse = <<e>> \o m.inverse /\ m2.lost = m.lost
      /\ m2.recent = m.recent /\ m2.lostBefore = m.lostBefore /\ m2.seq = m.seq + grows
      /\ m2.applied = m.applied \cup {op.op} /\ m2.took = m.took \cup {op.op}
      /\ m2.rejected = m.rejected /\ m2.lostOps = m.lostOps /\ m2.overwrites = m.overwrites \cup over
  BY DEF Took, Applied, Merges
<1>6. m2 \in Merges
  <2>1. m.seq + grows \in Nat
    BY <1>2
  <2>2. m2 = [blocks |-> t, tombs |-> tombs, seq |-> m.seq + grows, recent |-> m.recent,
              lostBefore |-> m.lostBefore, applied |-> m.applied \cup {op.op}, took |-> m.took \cup {op.op},
              rejected |-> m.rejected, overwrites |-> m.overwrites \cup over, lost |-> m.lost,
              lostOps |-> m.lostOps, inverse |-> <<e>> \o m.inverse]
    BY DEF Took, Applied, Merges
  <2>3. /\ m.recent \in SUBSET Names /\ m.lostBefore \in SUBSET Names /\ m.applied \cup {op.op} \in SUBSET Names
        /\ m.took \cup {op.op} \in SUBSET Names /\ m.rejected \in SUBSET [op : Names, dropped : BOOLEAN]
        /\ m.overwrites \cup over \in SUBSET Blocks /\ m.lost \in SUBSET Nat /\ m.lostOps \in SUBSET Names
    BY <1>1, <1>4 DEF Merges
  <2>4. [blocks |-> t, tombs |-> tombs, seq |-> m.seq + grows, recent |-> m.recent,
         lostBefore |-> m.lostBefore, applied |-> m.applied \cup {op.op}, took |-> m.took \cup {op.op},
         rejected |-> m.rejected, overwrites |-> m.overwrites \cup over, lost |-> m.lost,
         lostOps |-> m.lostOps, inverse |-> <<e>> \o m.inverse] \in Merges
    BY <1>3, <2>1, <2>3, MergeRecord, Zenon
  <2> QED
    BY <2>2, <2>4, Zenon
<1>7. Taken(m, m2, op)
  BY <1>5, <1>6 DEF Taken
<1>8. Given(m, m2, op)
  <2>1. /\ Saved(m.inverse) \subseteq Saved(m2.inverse)
        /\ "block" \in DOMAIN e => e.block.text \in Saved(m2.inverse)
    BY <1>2, <1>5, SavedMore
  <2>2. Holds(m) \subseteq Holds(m2)
    BY <1>5, <2>1 DEF Holds
  <2> QED
    BY <1>5, <2>2 DEF Given, Holds
<1>9. Aged(m, m2, op, actor)
  BY <1>2, <1>5 DEF Aged
<1> QED
  BY <1>7, <1>8, <1>9

LEMMA InsertOpFacts ==
  ASSUME NEW m \in Merges, UniqueIds(m.blocks), NEW op \in Ops, NEW actor \in {Me, Other},
         op.kind = "insert", ~Has(m.blocks, op.id)
  PROVE  LET m2 == InsertOp(m, op, actor) IN Taken(m, m2, op) /\ Given(m, m2, op) /\ Aged(m, m2, op, actor)
<1> DEFINE b == Stamped(op.id, op.text, m.seq + 1, actor)
           k == Anchor(m.blocks, m.tombs, op.after) + 1
           e == [kind |-> "delete", id |-> op.id]
           m2 == InsertOp(m, op, actor)
<1>1. op.text # None /\ op.text \in Nat /\ op.id \in Int /\ op.op \in Names
  BY EditingAssumption DEF Ops
<1>2. b \in Blocks /\ b.id = op.id /\ b.text = op.text
  BY <1>1, StampedType DEF Stamped
<1>3. m.blocks \in Seq(Blocks) /\ k \in 1..(Len(m.blocks) + 1) /\ m.seq \in Nat /\ m.tombs \in Seq(Tombs)
  <2>1. m.blocks \in Seq(Blocks) /\ m.seq \in Nat /\ m.tombs \in Seq(Tombs)
    BY DEF Merges
  <2>2. Anchor(m.blocks, m.tombs, op.after) \in 0..Len(m.blocks) /\ Len(m.blocks) \in Nat
    BY <2>1, AnchorFacts, LenProperties
  <2> QED
    BY <2>1, <2>2
<1> HIDE DEF b, k
<1> DEFINE t == InsertAt(m.blocks, k, b)
<1>4. t \in Seq(Blocks) /\ UniqueIds(t) /\ ToSet(t) = ToSet(m.blocks) \cup {b}
  BY <1>2, <1>3, InsertBlock
<1>5. Undone(t, e) = m.blocks
  BY <1>2, <1>3, UndoneInsert
<1>6. e \in Entries
  BY <1>1 DEF Entries
<1> HIDE DEF t, e
<1>7. m2 = [Took(m, op) EXCEPT !.seq = m.seq + 1, !.blocks = t, !.tombs = m.tombs,
                               !.overwrites = m.overwrites \cup {}, !.inverse = <<e>> \o m.inverse]
  BY <1>1 DEF InsertOp, Took, Applied, Merges, t, k, b, e
<1> HIDE DEF m2
<1>8. m2.blocks = t
  BY <1>7 DEF Took, Applied, Merges
<1>9. /\ TextsOf(m.blocks) \subseteq TextsOf(m2.blocks) /\ op.text \in TextsOf(m2.blocks)
      /\ ToSet(m2.blocks) \subseteq ToSet(m.blocks) \cup {Stamped(op.id, op.text, m.seq + 1, actor)}
  <2>1. TextsOf(m.blocks) = {x.text : x \in ToSet(m.blocks)} /\ TextsOf(t) = {x.text : x \in ToSet(t)}
    BY <1>3, <1>4, TextsOfSet
  <2> QED
    BY <1>2, <1>4, <1>8, <2>1 DEF b
<1>10. 1 \in 0..1 /\ {} \in SUBSET {x \in ToSet(m.blocks) : x.id = op.id /\ op.text # None /\ (op.kind = "update" => op.base < x.seq)}
  OBVIOUS
<1> QED
  BY <1>1, <1>3, <1>4, <1>5, <1>6, <1>7, <1>8, <1>9, <1>10, TookFacts DEF m2

LEMMA UpdateOpFacts ==
  ASSUME NEW m \in Merges, UniqueIds(m.blocks), NEW op \in Ops, NEW actor \in {Me, Other},
         op.kind \in {"insert", "update"}
  PROVE  LET m2 == UpdateOp(m, op, actor) IN Taken(m, m2, op) /\ Given(m, m2, op) /\ Aged(m, m2, op, actor)
<1> DEFINE i == Index(m.blocks, op.id)
           before == m.blocks[i]
           base == IF op.kind = "update" THEN op.base ELSE 0
           b == Stamped(op.id, op.text, m.seq + 1, actor)
           m2 == UpdateOp(m, op, actor)
<1>1. op.text # None /\ op.text \in Nat /\ op.id \in Int /\ op.op \in Names
  BY EditingAssumption DEF Ops
<1>2. m.blocks \in Seq(Blocks) /\ m.seq \in Nat /\ m.tombs \in Seq(Tombs)
  BY DEF Merges
<1>3. CASE i = 0
  <2>1. m2 = RejectOp(m, op)
    BY <1>3 DEF UpdateOp
  <2> QED
    BY <2>1, RejectFacts
<1>4. ASSUME i # 0 PROVE i \in 1..Len(m.blocks) /\ before \in Blocks /\ before.id = op.id /\ before \in ToSet(m.blocks)
  <2>1. i \in 1..Len(m.blocks) /\ before.id = op.id
    BY <1>2, <1>4, IndexFacts
  <2>2. before \in Blocks /\ i \in DOMAIN m.blocks
    BY <1>2, <2>1, ElementOfSeq, LenProperties
  <2> QED
    BY <2>1, <2>2 DEF ToSet
<1>5. CASE i # 0 /\ before.text = op.text
  <2>1. m2 = Applied(m, op)
    BY <1>5 DEF UpdateOp
  <2>2. op.text \in Holds(m)
    BY <1>2, <1>4, <1>5, TextsOfSet DEF Holds
  <2> QED
    BY <2>1, <2>2, AppliedFacts
<1>6. CASE i # 0 /\ before.text # op.text
  <2> DEFINE t == ReplaceAt(m.blocks, i, b)
             e == [kind |-> "update", id |-> op.id, block |-> before]
             over == IF base < before.seq THEN {before} ELSE {}
  <2>1. b \in Blocks /\ b.id = op.id /\ b.text = op.text
    BY <1>1, StampedType DEF Stamped
  <2>2. i \in 1..Len(m.blocks) /\ before \in Blocks /\ before.id = op.id /\ before \in ToSet(m.blocks)
    BY <1>4, <1>6
  <2>14. Has(m.blocks, op.id)
    BY <1>2, <1>6, IndexFacts
  <2>3. t = [m.blocks EXCEPT ![i] = b]
    BY DEF ReplaceAt
  <2>4. m2 = [Took(m, op) EXCEPT !.seq = m.seq + 1, !.blocks = t, !.tombs = m.tombs,
                                 !.overwrites = m.overwrites \cup over, !.inverse = <<e>> \o m.inverse]
    <3>1. m2 = [Took(m, op) EXCEPT !.seq = @ + 1, !.blocks[i] = b,
                                   !.overwrites = IF base < before.seq THEN @ \cup {before} ELSE @,
                                   !.inverse = <<e>> \o @]
      BY <1>6 DEF UpdateOp
    <3> HIDE DEF m2, b, base, i, before, e
    <3>2. Took(m, op).blocks = m.blocks /\ Took(m, op).tombs = m.tombs /\ Took(m, op).seq = m.seq
          /\ Took(m, op).overwrites = m.overwrites /\ Took(m, op).inverse = m.inverse /\ Took(m, op) \in Merges
      BY <1>1 DEF Took, Applied, Merges
    <3> QED
      BY <2>3, <3>1, <3>2 DEF Merges
  <2> HIDE DEF b, i
  <2>5. /\ t \in Seq(Blocks) /\ UniqueIds(t) /\ ToSet(t) \cup {before} = ToSet(m.blocks) \cup {b}
        /\ t[i] = b /\ Len(t) = Len(m.blocks)
    <3>1. b.id = m.blocks[i].id
      BY <2>1, <2>2
    <3> QED
      BY <1>2, <2>1, <2>2, <3>1, ReplaceBlock
  <2>6. Undone(t, e) = m.blocks
    BY <1>2, <2>1, <2>2, UndoneUpdate, Zenon
  <2>7. e \in Entries
    BY <1>1, <2>2 DEF Entries
  <2>8. over \in SUBSET {x \in ToSet(m.blocks) : x.id = op.id /\ op.text # None /\ (op.kind = "update" => op.base < x.seq)}
    BY <1>1, <2>2
  <2>9. b \in ToSet(t)
    BY <2>2, <2>5, LenProperties DEF ToSet
  <2> HIDE DEF before, over, base, m2, t
  <2>10. "block" \in DOMAIN e /\ e.block = before
    OBVIOUS
  <2> HIDE DEF e
  <2>11. TextsOf(m.blocks) \subseteq TextsOf(t) \cup (IF "block" \in DOMAIN e THEN {e.block.text} ELSE {})
         /\ op.text \in TextsOf(t)
    <3>1. TextsOf(m.blocks) = {x.text : x \in ToSet(m.blocks)} /\ TextsOf(t) = {x.text : x \in ToSet(t)}
      BY <1>2, <2>5, TextsOfSet
    <3> QED
      BY <2>1, <2>5, <2>9, <2>10, <3>1
  <2>12. /\ ToSet(t) \subseteq ToSet(m.blocks) \cup {Stamped(op.id, op.text, m.seq + 1, actor)}
         /\ op.text # None /\ (op.kind = "insert" \/ Has(m.blocks, op.id))
    BY <1>1, <2>5, <2>14 DEF b
  <2>13. 1 \in 0..1
    OBVIOUS
  <2>15. Taken(m, m2, op) /\ Given(m, m2, op) /\ Aged(m, m2, op, actor)
    <3>1. op.text # None => op.text \in TextsOf(t)
      BY <2>11
    <3>2. TextsOf(m.blocks) \subseteq TextsOf(t) \cup (IF "block" \in DOMAIN e THEN {e.block.text} ELSE {})
      BY <2>11
    <3>3. t \in Seq(Blocks) /\ UniqueIds(t)
      BY <2>5
    <3> QED
      BY <1>2, <2>4, <2>6, <2>7, <2>8, <2>12, <2>13, <3>1, <3>2, <3>3, TookFacts
  <2> QED
    BY <2>15 DEF m2
<1> QED
  BY <1>3, <1>5, <1>6

LEMMA DeleteOpFacts ==
  ASSUME NEW m \in Merges, UniqueIds(m.blocks), NEW op \in Ops, NEW actor, op.kind = "delete"
  PROVE  LET m2 == DeleteOp(m, op) IN Taken(m, m2, op) /\ Given(m, m2, op) /\ Aged(m, m2, op, actor)
<1> DEFINE i == Index(m.blocks, op.id)
           after == IdBefore(m.blocks, i)
           m2 == DeleteOp(m, op)
<1>1. op.text = None /\ op.id \in Int /\ op.op \in Names /\ None \notin Int
  BY EditingAssumption DEF Ops
<1>2. m.blocks \in Seq(Blocks) /\ m.seq \in Nat /\ m.tombs \in Seq(Tombs)
  BY DEF Merges
<1>3. CASE i = 0
  <2>1. m2 = Applied(m, op)
    BY <1>3 DEF DeleteOp
  <2> QED
    BY <1>1, <2>1, AppliedFacts
<1>4. CASE i # 0
  <2> DEFINE t == RemoveAt(m.blocks, i)
             e == [kind |-> "insert", block |-> m.blocks[i], after |-> after]
             tombs == <<[id |-> op.id, after |-> after]>> \o m.tombs
  <2>1. i \in 1..Len(m.blocks)
    BY <1>2, <1>4, IndexFacts
  <2>2. m.blocks[i] \in Blocks /\ after \in Places
    BY <1>1, <1>2, <2>1, BlockBefore
  <2>3. tombs \in Seq(Tombs)
    <3>1. [id |-> op.id, after |-> after] \in Tombs
      BY <1>1, <2>2 DEF Tombs
    <3> QED
      BY <1>2, <3>1, OneMore
  <2>4. /\ t \in Seq(Blocks) /\ UniqueIds(t) /\ ToSet(m.blocks) = ToSet(t) \cup {m.blocks[i]}
    BY <1>2, <2>1, RemoveBlock
  <2>5. Undone(t, e) = m.blocks
    BY <1>1, <1>2, <2>1, UndoneDelete
  <2>6. e \in Entries
    BY <2>2 DEF Entries
  <2> HIDE DEF after, t, e
  <2>7. m2 = [Took(m, op) EXCEPT !.seq = m.seq + 0, !.blocks = t, !.tombs = tombs,
                                 !.overwrites = m.overwrites \cup {}, !.inverse = <<e>> \o m.inverse]
    <3>1. m2 = [Took(m, op) EXCEPT !.blocks = RemoveAt(@, i),
                                   !.tombs = <<[id |-> op.id, after |-> after]>> \o @,
                                   !.inverse = <<e>> \o @]
      BY <1>4 DEF DeleteOp, after, e
    <3> HIDE DEF m2, i
    <3>2. Took(m, op).blocks = m.blocks /\ Took(m, op).tombs = m.tombs /\ Took(m, op).seq = m.seq
          /\ Took(m, op).overwrites = m.overwrites /\ Took(m, op).inverse = m.inverse /\ Took(m, op) \in Merges
      BY <1>1 DEF Took, Applied, Merges
    <3>3. m.seq + 0 = m.seq /\ m.overwrites \cup {} = m.overwrites
      BY <1>2
    <3> QED
      BY <3>1, <3>2, <3>3 DEF Merges, t
  <2>8. "block" \in DOMAIN e /\ e.block = m.blocks[i]
    BY DEF e
  <2>9. TextsOf(m.blocks) \subseteq TextsOf(t) \cup (IF "block" \in DOMAIN e THEN {e.block.text} ELSE {})
    <3>1. TextsOf(m.blocks) = {x.text : x \in ToSet(m.blocks)} /\ TextsOf(t) = {x.text : x \in ToSet(t)}
      BY <1>2, <2>4, TextsOfSet
    <3> QED
      BY <2>4, <2>8, <3>1
  <2>10. ToSet(t) \subseteq ToSet(m.blocks)
    BY <2>4
  <2>11. 0 \in 0..1 /\ {} \in SUBSET {x \in ToSet(m.blocks) : x.id = op.id /\ op.text # None /\ (op.kind = "update" => op.base < x.seq)}
    OBVIOUS
  <2> HIDE DEF m2, tombs, i
  <2> QED
    BY <1>1, <2>3, <2>4, <2>5, <2>6, <2>7, <2>9, <2>10, <2>11, TookFacts DEF m2
<1> QED
  BY <1>3, <1>4

LEMMA MoveOpFacts ==
  ASSUME NEW m \in Merges, UniqueIds(m.blocks), NEW op \in Ops, NEW actor, op.kind = "move"
  PROVE  LET m2 == MoveOp(m, op) IN Taken(m, m2, op) /\ Given(m, m2, op) /\ Aged(m, m2, op, actor)
<1> DEFINE i == Index(m.blocks, op.id)
           rest == RemoveAt(m.blocks, i)
           to == Anchor(rest, m.tombs, op.after)
           m2 == MoveOp(m, op)
<1>1. op.text = None /\ op.id \in Int /\ op.op \in Names /\ None \notin Int
  BY EditingAssumption DEF Ops
<1>2. m.blocks \in Seq(Blocks) /\ m.seq \in Nat /\ m.tombs \in Seq(Tombs)
  BY DEF Merges
<1>3. CASE i = 0 \/ op.after = op.id
  <2>1. m2 = RejectOp(m, op)
    BY <1>3 DEF MoveOp
  <2> QED
    BY <2>1, RejectFacts
<1>4. CASE i # 0 /\ op.after # op.id /\ to + 1 = i
  <2>1. m2 = Applied(m, op)
    BY <1>4 DEF MoveOp
  <2> QED
    BY <1>1, <2>1, AppliedFacts
<1>5. CASE i # 0 /\ op.after # op.id /\ to + 1 # i
  <2> DEFINE t == InsertAt(rest, to + 1, m.blocks[i])
             after == IdBefore(m.blocks, i)
             e == [kind |-> "move", id |-> op.id, after |-> after]
  <2>1. i \in 1..Len(m.blocks) /\ m.blocks[i].id = op.id
    BY <1>2, <1>5, IndexFacts
  <2>2. after \in Places
    BY <1>1, <1>2, <2>1, BlockBefore
  <2>3. rest \in Seq(Blocks) /\ Len(rest) = Len(m.blocks) - 1
    BY <1>2, <2>1, RemoveBlock
  <2> HIDE DEF after
  <2>4. to + 1 \in 1..Len(m.blocks)
    <3>1. to \in 0..Len(rest)
      <4> HIDE DEF rest
      <4> QED
        BY <2>3, AnchorFacts
    <3> HIDE DEF rest, to
    <3> QED
      BY <1>2, <2>3, <3>1, LenProperties
  <2> HIDE DEF to
  <2>5. Undone(t, e) = m.blocks /\ t \in Seq(Blocks) /\ UniqueIds(t) /\ ToSet(t) = ToSet(m.blocks)
    BY <1>1, <1>2, <2>1, <2>4, UndoneMove DEF after
  <2>6. e \in Entries
    BY <1>1, <2>2 DEF Entries
  <2> HIDE DEF t
  <2>7. m2 = [Took(m, op) EXCEPT !.seq = m.seq + 0, !.blocks = t, !.tombs = m.tombs,
                                 !.overwrites = m.overwrites \cup {}, !.inverse = <<e>> \o m.inverse]
    <3>1. m2 = [Took(m, op) EXCEPT !.blocks = t, !.inverse = <<e>> \o @]
      BY <1>5 DEF MoveOp, t, to, after
    <3> HIDE DEF m2, e
    <3>2. Took(m, op).blocks = m.blocks /\ Took(m, op).tombs = m.tombs /\ Took(m, op).seq = m.seq
          /\ Took(m, op).overwrites = m.overwrites /\ Took(m, op).inverse = m.inverse /\ Took(m, op) \in Merges
      BY <1>1 DEF Took, Applied, Merges
    <3>3. m.seq + 0 = m.seq /\ m.overwrites \cup {} = m.overwrites
      BY <1>2
    <3> QED
      BY <3>1, <3>2, <3>3 DEF Merges
  <2>8. TextsOf(m.blocks) = TextsOf(t)
    BY <1>2, <2>5, TextsOfSet
  <2>9. 0 \in 0..1 /\ {} \in SUBSET {x \in ToSet(m.blocks) : x.id = op.id /\ op.text # None /\ (op.kind = "update" => op.base < x.seq)}
    OBVIOUS
  <2> HIDE DEF m2, e
  <2> QED
    BY <1>1, <1>2, <2>5, <2>6, <2>7, <2>8, <2>9, TookFacts DEF m2
<1> QED
  BY <1>3, <1>4, <1>5

(* Every kind of op is taken, given and aged as one merge step must be. *)
LEMMA MergeOpFacts ==
  ASSUME NEW m \in Merges, UniqueIds(m.blocks), NEW op \in Ops, NEW actor \in {Me, Other}
  PROVE  LET m2 == MergeOp(m, op, actor)
         IN /\ Taken(m, m2, op) /\ Given(m, m2, op) /\ Aged(m, m2, op, actor)
            /\ op.op \in m.recent => m2.took = m.took /\ m2.lostOps = m.lostOps
<1> DEFINE m2 == MergeOp(m, op, actor)
<1>1. CASE op.op \in m.recent
  <2>1. m2 = Applied(m, op)
    BY <1>1 DEF MergeOp
  <2>2. m2.took = m.took /\ m2.lostOps = m.lostOps
    BY <2>1 DEF Applied, Merges
  <2> QED
    BY <1>1, <2>1, <2>2, AppliedFacts
<1>2. CASE op.op \notin m.recent
  <2>1. op.kind \in {"insert", "update", "delete", "move"}
    BY DEF Ops
  <2>2. CASE op.kind = "delete"
    <3>1. m2 = DeleteOp(m, op)
      BY <1>2, <2>2 DEF MergeOp
    <3> QED
      BY <1>2, <2>2, <3>1, DeleteOpFacts
  <2>3. CASE op.kind = "move"
    <3>1. m2 = MoveOp(m, op)
      BY <1>2, <2>3 DEF MergeOp
    <3> QED
      BY <1>2, <2>3, <3>1, MoveOpFacts
  <2>4. CASE op.kind = "insert" /\ ~Has(m.blocks, op.id)
    <3>1. m2 = InsertOp(m, op, actor)
      BY <1>2, <2>4 DEF MergeOp
    <3> QED
      BY <1>2, <2>4, <3>1, InsertOpFacts
  <2>5. CASE op.kind \in {"insert", "update"} /\ ~(op.kind = "insert" /\ ~Has(m.blocks, op.id))
    <3>1. m2 = UpdateOp(m, op, actor)
      BY <1>2, <2>5 DEF MergeOp
    <3> QED
      BY <1>2, <2>5, <3>1, UpdateOpFacts
  <2> QED
    BY <2>1, <2>2, <2>3, <2>4, <2>5
<1> QED
  BY <1>1, <1>2

----------------------------------------------------------------------------
(* A batch.                                                                *)
Sound == {m \in Merges : UniqueIds(m.blocks)}

Run(m, start, ops, actor) ==
    /\ m \in [0..Len(ops) -> Sound] /\ m[0] = start
    /\ \A n \in 1..Len(ops) : m[n] = MergeOp(m[n - 1], ops[n], actor)

(* A batch is a run of ops, one after the other. *)
LEMMA MergeAllRuns ==
  ASSUME NEW start \in Sound, NEW ops \in Seq(Ops), NEW actor \in {Me, Other}
  PROVE  \E m : Run(m, start, ops, actor) /\ MergeAll(start, ops, actor) = m[Len(ops)]
<1> DEFINE N == Len(ops)
           f == [n \in 1..N |-> [x \in Sound |-> MergeOp(x, ops[n], actor)]]
           Solves(h) == h = [n \in 0..N |-> IF n = 0 THEN start ELSE MergeOp(h[n - 1], ops[n], actor)]
<1>1. N \in Nat /\ \A n \in 1..N : ops[n] \in Ops
  BY LenProperties, ElementOfSeq
<1>2. ASSUME NEW m \in Sound, NEW op \in Ops PROVE MergeOp(m, op, actor) \in Sound
  BY MergeOpFacts DEF Sound, Taken
<1>3. f \in [1..N -> [Sound -> Sound]]
  BY <1>1, <1>2
<1>4. PICK g \in [0..N -> Sound] : g[0] = start /\ \A n \in 1..N : g[n] = f[n][g[n - 1]]
  <2>1. N \in Nat /\ start \in Sound
    BY <1>1
  <2> HIDE DEF f, N
  <2>2. StepsOf(N, Sound, start, f)
    BY <1>3, <2>1 DEF StepsOf
  <2>3. Stepwise(N, Sound, start, f)
    BY <2>2, Steps, Zenon
  <2> QED
    BY <2>3 DEF Stepwise
<1>5. Solves(g)
  <2>1. ASSUME NEW n \in 1..N PROVE g[n - 1] \in Sound /\ g[n] = MergeOp(g[n - 1], ops[n], actor)
    <3>1. n - 1 \in 0..N
      BY <1>1
    <3>2. g[n - 1] \in Sound
      BY <1>4, <3>1
    <3> QED
      BY <1>4, <3>2
  <2>2. \A n \in 0..N : g[n] = IF n = 0 THEN start ELSE MergeOp(g[n - 1], ops[n], actor)
    BY <1>1, <1>4, <2>1
  <2> HIDE DEF f
  <2> QED
    BY <1>4, <2>2
<1>6. MergeAll(start, ops, actor) = (CHOOSE h : Solves(h))[N]
  BY DEF MergeAll
<1> HIDE DEF Solves
<1>7. PICK m : Solves(m) /\ MergeAll(start, ops, actor) = m[N]
  BY <1>5, <1>6
<1>8. /\ m = [n \in 0..N |-> m[n]] /\ m[0] = start
      /\ \A n \in 1..N : m[n] = MergeOp(m[n - 1], ops[n], actor)
  <2>1. 0 \in 0..N /\ \A n \in 1..N : n \in 0..N /\ n # 0
    BY <1>1
  <2> HIDE DEF N
  <2> QED
    BY <1>7, <2>1 DEF Solves
<1>9. \A n \in 0..N : m[n] \in Sound
  <2> DEFINE T == {n \in 0..N : m[n] \in Sound}
  <2>1. 0 \in T
    BY <1>1, <1>8
  <2>2. ASSUME NEW n \in 1..N, n - 1 \in T PROVE n \in T
    <3>1. n \in 0..N /\ ops[n] \in Ops /\ m[n] = MergeOp(m[n - 1], ops[n], actor)
      BY <1>1, <1>8
    <3> QED
      BY <1>2, <2>2, <3>1
  <2>3. T \in SUBSET Nat
    BY <1>1
  <2> HIDE DEF T
  <2>4. 0..N \subseteq T
    BY <1>1, <2>1, <2>2, <2>3, Upwards
  <2> QED
    BY <2>4 DEF T
<1>10. Run(m, start, ops, actor)
  BY <1>8, <1>9 DEF Run
<1> QED
  BY <1>7, <1>10

(* What holds of the merge at first and is kept by each op holds at its end. *)
LEMMA RunsUp ==
  ASSUME NEW ops \in Seq(Ops), NEW m, NEW T \in SUBSET Nat, 0 \in T,
         \A n \in 1..Len(ops) : n - 1 \in T => n \in T
  PROVE  Len(ops) \in T /\ \A n \in 1..Len(ops) : n \in T /\ n - 1 \in T
<1>1. Len(ops) \in Nat
  BY LenProperties
<1>2. 0..Len(ops) \subseteq T
  BY <1>1, Upwards
<1> QED
  BY <1>1, <1>2

LEMMA UndoneType ==
  ASSUME NEW s \in Seq(Blocks), NEW e \in Entries
  PROVE  Undone(s, e) \in Seq(Blocks)
<1> DEFINE place(bs) == IF e.after = None THEN 1
                        ELSE IF Has(bs, e.after) THEN Index(bs, e.after) + 1 ELSE Len(bs) + 1
<1>1. ASSUME NEW bs \in Seq(Blocks) PROVE place(bs) \in 1..(Len(bs) + 1)
  <2>1. Len(bs) \in Nat /\ (Has(bs, e.after) => Index(bs, e.after) \in 1..Len(bs))
    BY LenProperties, IndexFacts
  <2> QED
    BY <2>1
<1> DEFINE i == Index(s, e.id)
<1>2. i # 0 => i \in 1..Len(s) /\ s[i] \in Blocks
  BY IndexFacts, ElementOfSeq
<1>3. CASE e \in [kind : {"insert"}, block : Blocks, after : Places]
  <2>1. e.kind = "insert" /\ e.block \in Blocks
    BY <1>3
  <2>2. Undone(s, e) = InsertAt(s, place(s), e.block)
    BY <2>1 DEF Undone
  <2>3. place(s) \in 1..(Len(s) + 1)
    BY <1>1
  <2> HIDE DEF place
  <2> QED
    BY <2>1, <2>2, <2>3, InsertAtFacts
<1>4. CASE e \in [kind : {"delete"}, id : Int]
  <2>1. e.kind = "delete" /\ "id" \in DOMAIN e
    BY <1>4
  <2>2. Undone(s, e) = IF i = 0 THEN s ELSE RemoveAt(s, i)
    BY <2>1 DEF Undone
  <2> HIDE DEF i
  <2> QED
    BY <1>2, <2>2, RemoveAtFacts
<1>5. CASE e \in [kind : {"update"}, id : Int, block : Blocks]
  <2>1. e.kind = "update" /\ "id" \in DOMAIN e /\ e.block \in Blocks
    BY <1>5
  <2>2. Undone(s, e) = IF i = 0 THEN s ELSE ReplaceAt(s, i, e.block)
    BY <2>1 DEF Undone
  <2> HIDE DEF i
  <2> QED
    BY <1>2, <2>1, <2>2, ReplaceAtFacts
<1>6. CASE e \in [kind : {"move"}, id : Int, after : Places]
  <2>1. e.kind = "move" /\ "id" \in DOMAIN e
    BY <1>6
  <2>2. Undone(s, e) = IF i = 0 THEN s ELSE InsertAt(RemoveAt(s, i), place(RemoveAt(s, i)), s[i])
    BY <2>1 DEF Undone
  <2>3. i # 0 => RemoveAt(s, i) \in Seq(Blocks)
    BY <1>2, RemoveAtFacts
  <2>4. i # 0 => place(RemoveAt(s, i)) \in 1..(Len(RemoveAt(s, i)) + 1)
    BY <1>1, <2>3
  <2> HIDE DEF i, place
  <2>5. CASE i # 0
    <3> DEFINE r == RemoveAt(s, i)
               k == place(r)
    <3>1. r \in Seq(Blocks) /\ k \in 1..(Len(r) + 1) /\ s[i] \in Blocks
      BY <1>2, <2>3, <2>4, <2>5
    <3> HIDE DEF r, k
    <3>2. InsertAt(r, k, s[i]) \in Seq(Blocks)
      BY <3>1, InsertAtFacts
    <3> QED
      BY <2>2, <2>5, <3>2 DEF r, k
  <2> QED
    BY <2>2, <2>5
<1> QED
  BY <1>3, <1>4, <1>5, <1>6 DEF Entries

Undoing(u, s, entries) ==
    /\ u \in [0..Len(entries) -> Seq(Blocks)] /\ u[0] = s
    /\ \A n \in 1..Len(entries) : u[n] = Undone(u[n - 1], entries[n])

(* So is the undoing of its entries. *)
LEMMA UndoneAllRuns ==
  ASSUME NEW s \in Seq(Blocks), NEW entries \in Seq(Entries)
  PROVE  \E u : Undoing(u, s, entries) /\ UndoneAll(s, entries) = u[Len(entries)]
<1> DEFINE N == Len(entries)
           f == [n \in 1..N |-> [x \in Seq(Blocks) |-> Undone(x, entries[n])]]
           Solves(h) == h = [n \in 0..N |-> IF n = 0 THEN s ELSE Undone(h[n - 1], entries[n])]
<1>1. N \in Nat /\ \A n \in 1..N : entries[n] \in Entries
  BY LenProperties, ElementOfSeq
<1>2. f \in [1..N -> [Seq(Blocks) -> Seq(Blocks)]]
  BY <1>1, UndoneType
<1>3. PICK g \in [0..N -> Seq(Blocks)] : g[0] = s /\ \A n \in 1..N : g[n] = f[n][g[n - 1]]
  <2> HIDE DEF f, N
  <2>1. StepsOf(N, Seq(Blocks), s, f)
    BY <1>1, <1>2 DEF StepsOf
  <2>2. Stepwise(N, Seq(Blocks), s, f)
    BY <2>1, Steps, Zenon
  <2> QED
    BY <2>2 DEF Stepwise
<1>4. Solves(g)
  <2>1. ASSUME NEW n \in 1..N PROVE g[n] = Undone(g[n - 1], entries[n])
    <3>1. n - 1 \in 0..N
      BY <1>1
    <3>2. g[n - 1] \in Seq(Blocks)
      BY <1>3, <3>1
    <3> QED
      BY <1>3, <3>2
  <2>2. \A n \in 0..N : g[n] = IF n = 0 THEN s ELSE Undone(g[n - 1], entries[n])
    BY <1>1, <1>3, <2>1
  <2> HIDE DEF f
  <2> QED
    BY <1>3, <2>2
<1>5. UndoneAll(s, entries) = (CHOOSE h : Solves(h))[N]
  BY DEF UndoneAll
<1> HIDE DEF Solves
<1>6. PICK u : Solves(u) /\ UndoneAll(s, entries) = u[N]
  BY <1>4, <1>5
<1>7. /\ u = [n \in 0..N |-> u[n]] /\ u[0] = s
      /\ \A n \in 1..N : u[n] = Undone(u[n - 1], entries[n])
  <2>1. 0 \in 0..N /\ \A n \in 1..N : n \in 0..N /\ n # 0
    BY <1>1
  <2> HIDE DEF N
  <2> QED
    BY <1>6, <2>1 DEF Solves
<1>8. \A n \in 0..N : u[n] \in Seq(Blocks)
  <2> DEFINE T == {n \in 0..N : u[n] \in Seq(Blocks)}
  <2>1. 0 \in T
    BY <1>1, <1>7
  <2>2. ASSUME NEW n \in 1..N, n - 1 \in T PROVE n \in T
    <3>1. n \in 0..N /\ entries[n] \in Entries /\ u[n] = Undone(u[n - 1], entries[n])
      <4>1. n \in 0..N /\ entries[n] \in Entries
        BY <1>1
      <4>2. u[n] = Undone(u[n - 1], entries[n])
        BY <1>7, Zenon
      <4> QED
        BY <4>1, <4>2
    <3> QED
      BY <2>2, <3>1, UndoneType
  <2>3. T \in SUBSET Nat
    BY <1>1
  <2> HIDE DEF T
  <2>4. 0..N \subseteq T
    BY <1>1, <2>1, <2>2, <2>3, Upwards
  <2> QED
    BY <2>4 DEF T
<1>9. Undoing(u, s, entries)
  BY <1>7, <1>8 DEF Undoing
<1> QED
  BY <1>6, <1>9

LEMMA UndoneNone ==
  ASSUME NEW s \in Seq(Blocks)
  PROVE  UndoneAll(s, << >>) = s
<1>1. << >> \in Seq(Entries) /\ Len(<< >>) = 0
  OBVIOUS
<1>2. \E u : Undoing(u, s, << >>) /\ UndoneAll(s, << >>) = u[0]
  BY <1>1, UndoneAllRuns
<1> QED
  BY <1>2 DEF Undoing

(* To undo one entry more, undo it first. *)
LEMMA UndoneOneMore ==
  ASSUME NEW s \in Seq(Blocks), NEW e \in Entries, NEW rest \in Seq(Entries)
  PROVE  UndoneAll(s, <<e>> \o rest) = UndoneAll(Undone(s, e), rest)
<1> DEFINE all == <<e>> \o rest
           N == Len(rest)
<1>1. N \in Nat /\ Undone(s, e) \in Seq(Blocks)
  BY LenProperties, UndoneType
<1>2. <<e>> \in Seq(Entries) /\ Len(<<e>>) = 1 /\ <<e>>[1] = e
  OBVIOUS
<1>3. /\ all \in Seq(Entries) /\ Len(all) = Len(<<e>>) + Len(rest)
      /\ \A i \in 1..(Len(<<e>>) + Len(rest)) : all[i] = IF i <= Len(<<e>>) THEN <<e>>[i] ELSE rest[i - Len(<<e>>)]
  BY <1>2, ConcatProperties
<1> HIDE DEF all
<1>4. Len(all) = N + 1 /\ all[1] = e /\ \A n \in 1..N : all[n + 1] = rest[n]
  <2>1. Len(all) = N + 1 /\ \A i \in 1..(N + 1) : all[i] = IF i <= 1 THEN e ELSE rest[i - 1]
    BY <1>1, <1>2, <1>3
  <2>2. \A n \in 1..N : n + 1 \in 1..(N + 1) /\ ~(n + 1 <= 1) /\ (n + 1) - 1 = n
    BY <1>1
  <2>3. 1 \in 1..(N + 1)
    BY <1>1
  <2> HIDE DEF N
  <2> QED
    BY <2>1, <2>2, <2>3
<1>5. PICK u : Undoing(u, s, all) /\ UndoneAll(s, all) = u[N + 1]
  BY <1>3, <1>4, UndoneAllRuns
<1>6. PICK w : Undoing(w, Undone(s, e), rest) /\ UndoneAll(Undone(s, e), rest) = w[N]
  BY <1>1, UndoneAllRuns
<1> DEFINE T == {n \in 0..N : u[n + 1] = w[n]}
<1>7. 0 \in T
  <2>1. 1 \in 1..Len(all) /\ 1 - 1 = 0
    BY <1>1, <1>4
  <2>2. u[1] = Undone(u[0], all[1]) /\ u[0] = s /\ w[0] = Undone(s, e)
    BY <1>5, <1>6, <2>1 DEF Undoing
  <2> QED
    BY <1>1, <1>4, <2>2
<1>8. ASSUME NEW n \in 1..N, n - 1 \in T PROVE n \in T
  <2>1. n + 1 \in 1..Len(all) /\ (n + 1) - 1 = n /\ n \in 0..N /\ (n - 1) + 1 = n
    BY <1>1, <1>4
  <2>2. u[n + 1] = Undone(u[n], all[n + 1]) /\ w[n] = Undone(w[n - 1], rest[n])
    BY <1>5, <1>6, <2>1 DEF Undoing
  <2>3. u[n] = w[n - 1]
    BY <1>8, <2>1
  <2> QED
    BY <1>4, <2>1, <2>2, <2>3
<1>9. N \in T
  <2>1. T \in SUBSET Nat
    BY <1>1
  <2> HIDE DEF T
  <2>2. 0..N \subseteq T
    BY <1>1, <1>7, <1>8, <2>1, Upwards
  <2> QED
    BY <1>1, <2>2
<1> QED
  BY <1>5, <1>6, <1>9 DEF all

(* The entries of a batch undo it, and no text of it is lost unreported. *)
LEMMA MergeAllFacts ==
  ASSUME NEW start \in Sound, NEW ops \in Seq(Ops), NEW actor \in {Me, Other}, start.took = {}
  PROVE  LET m == MergeAll(start, ops, actor)
         IN /\ m \in Sound /\ m.recent = start.recent /\ m.lostBefore = start.lostBefore
            /\ m.took \cap start.recent = {}
            /\ m.applied \subseteq start.applied \cup OpIds(ops)
            /\ m.took = {} => m.blocks = start.blocks /\ m.inverse = start.inverse
            /\ UndoneAll(m.blocks, m.inverse) = UndoneAll(start.blocks, start.inverse)
<1>1. PICK m : Run(m, start, ops, actor) /\ MergeAll(start, ops, actor) = m[Len(ops)]
  BY MergeAllRuns
<1>2. Len(ops) \in Nat /\ DOMAIN ops = 1..Len(ops) /\ \A n \in 1..Len(ops) : ops[n] \in Ops
  BY LenProperties, ElementOfSeq
<1> DEFINE OK(x) == /\ x.recent = start.recent /\ x.lostBefore = start.lostBefore
                    /\ x.took \cap start.recent = {}
                    /\ x.applied \subseteq start.applied \cup OpIds(ops)
                    /\ x.took = {} => x.blocks = start.blocks /\ x.inverse = start.inverse
                    /\ UndoneAll(x.blocks, x.inverse) = UndoneAll(start.blocks, start.inverse)
           T == {n \in 0..Len(ops) : OK(m[n])}
<1>3. 0 \in T
  BY <1>1, <1>2 DEF Run
<1>4. ASSUME NEW n \in 1..Len(ops), n - 1 \in T PROVE n \in T
  <2> DEFINE x == m[n - 1]
             y == m[n]
             op == ops[n]
  <2>1. n \in 0..Len(ops) /\ n - 1 \in 0..Len(ops)
    BY <1>2
  <2>2. x \in Sound /\ y \in Sound /\ y = MergeOp(x, op, actor) /\ op \in Ops
    BY <1>1, <1>2, <2>1 DEF Run
  <2>3. OK(x)
    BY <1>4
  <2>4. op.op \in OpIds(ops)
    BY <1>2 DEF OpIds
  <2> HIDE DEF x, y, op
  <2>5. Taken(x, y, op) /\ (op.op \in x.recent => y.took = x.took)
    BY <2>2, MergeOpFacts DEF Sound
  <2>6. UndoneAll(y.blocks, y.inverse) = UndoneAll(x.blocks, x.inverse)
    <3>1. CASE y.blocks = x.blocks /\ y.inverse = x.inverse
      BY <3>1
    <3>2. ASSUME NEW e \in Entries, y.inverse = <<e>> \o x.inverse, Undone(y.blocks, e) = x.blocks
          PROVE UndoneAll(y.blocks, y.inverse) = UndoneAll(x.blocks, x.inverse)
      <4>1. y.blocks \in Seq(Blocks) /\ x.inverse \in Seq(Entries)
        BY <2>2 DEF Sound, Merges
      <4> QED
        BY <3>2, <4>1, UndoneOneMore
    <3> QED
      BY <2>5, <3>1, <3>2 DEF Taken
  <2>7. y.recent = start.recent /\ y.lostBefore = start.lostBefore /\ y.applied \subseteq start.applied \cup OpIds(ops)
    BY <2>3, <2>4, <2>5 DEF Taken
  <2>8. y.took \cap start.recent = {}
    BY <2>3, <2>5 DEF Taken
  <2>9. y.took = {} => y.blocks = start.blocks /\ y.inverse = start.inverse
    BY <2>3, <2>5 DEF Taken
  <2>10. OK(y)
    BY <2>3, <2>6, <2>7, <2>8, <2>9
  <2> QED
    BY <2>1, <2>10 DEF y
<1>5. OK(m[Len(ops)]) /\ m[Len(ops)] \in Sound
  <2>1. T \in SUBSET Nat
    BY <1>2
  <2> HIDE DEF T
  <2>2. Len(ops) \in T
    BY <1>3, <1>4, <2>1, RunsUp
  <2> QED
    BY <1>1, <1>2, <2>2 DEF T, Run
<1> QED
  BY <1>1, <1>5

(* An empty page gets a block, which is undone with the rest. *)
LEMMA FilledFacts ==
  ASSUME NEW m \in Sound, NEW filler \in Int, NEW actor \in {Me, Other}
  PROVE  LET f == Filled(m, filler, actor)
         IN /\ f \in Sound /\ f.blocks # << >> /\ (m.blocks # << >> => f = m)
            /\ f.recent = m.recent /\ f.lostBefore = m.lostBefore /\ f.applied = m.applied /\ f.took = m.took
            /\ f.rejected = m.rejected /\ f.overwrites = m.overwrites /\ f.lost = m.lost /\ f.lostOps = m.lostOps
            /\ UndoneAll(f.blocks, f.inverse) = UndoneAll(m.blocks, m.inverse)
            /\ Holds(m) \subseteq Holds(f) /\ m.seq <= f.seq
            /\ \/ f = m
               \/ f.seq = m.seq + 1 /\ ToSet(f.blocks) = {Stamped(filler, 0, m.seq + 1, actor)}
<1> DEFINE f == Filled(m, filler, actor)
           b == Stamped(filler, 0, m.seq + 1, actor)
           e == [kind |-> "delete", id |-> filler]
<1>1. m \in Merges /\ m.blocks \in Seq(Blocks) /\ m.seq \in Nat /\ m.inverse \in Seq(Entries)
  BY DEF Sound, Merges
<1>2. CASE m.blocks # << >>
  <2>1. f = m
    BY <1>2 DEF Filled
  <2>2. m.seq <= m.seq
    BY <1>1
  <2> QED
    BY <1>2, <2>1, <2>2
<1>3. CASE m.blocks = << >>
  <2>1. f = [m EXCEPT !.blocks = <<b>>, !.seq = @ + 1, !.inverse = <<e>> \o @]
    BY <1>3 DEF Filled
  <2>2. b \in Blocks /\ b.id = filler
    BY <1>1 DEF Stamped, Blocks
  <2>3. e \in Entries
    BY DEF Entries
  <2> HIDE DEF b, e, f
  <2>4. <<e>> \o m.inverse \in Seq(Entries)
    BY <1>1, <2>3, OneMore
  <2> DEFINE one == <<b>>
             more == <<e>> \o m.inverse
  <2>5. one \in Seq(Blocks) /\ one # << >> /\ DOMAIN one = {1} /\ one[1] = b /\ Len(one) = 1
    BY <2>2
  <2>6. UniqueIds(one) /\ ToSet(one) = {b}
    BY <2>5 DEF UniqueIds, ToSet
  <2>0. f = [m EXCEPT !.blocks = one, !.seq = m.seq + 1, !.inverse = more]
    BY <2>1
  <2> HIDE DEF one, more
  <2>7. /\ f.blocks = one /\ f.seq = m.seq + 1 /\ f.inverse = more
        /\ f.recent = m.recent /\ f.lostBefore = m.lostBefore /\ f.applied = m.applied /\ f.took = m.took
        /\ f.rejected = m.rejected /\ f.overwrites = m.overwrites /\ f.lost = m.lost /\ f.lostOps = m.lostOps
        /\ f \in Merges
    <3>1. more \in Seq(Entries) /\ m.seq + 1 \in Nat
      BY <1>1, <2>4 DEF more
    <3> QED
      BY <1>1, <2>0, <2>5, <3>1 DEF Merges
  <2>8. Undone(one, e) = << >>
    <3>1. 1 \in 1..Len(one)
      BY <2>5
    <3>2. Index(one, b.id) = 1
      BY <2>5, <2>6, <3>1, IndexIs
    <3>3. Undone(one, e) = RemoveAt(one, 1)
      BY <2>2, <3>2 DEF Undone, e
    <3>4. RemoveAt(one, 1) \in Seq(Blocks) /\ Len(RemoveAt(one, 1)) = Len(one) - 1
      BY <2>5, <3>1, RemoveAtFacts
    <3> QED
      BY <2>5, <3>3, <3>4, EmptySeq
  <2>9. UndoneAll(f.blocks, f.inverse) = UndoneAll(m.blocks, m.inverse)
    <3>1. UndoneAll(one, more) = UndoneAll(Undone(one, e), m.inverse)
      BY <1>1, <2>3, <2>5, UndoneOneMore DEF more
    <3> QED
      BY <1>3, <2>7, <2>8, <3>1
  <2>10. Holds(m) \subseteq Holds(f)
    <3>1. Saved(m.inverse) \subseteq Saved(f.inverse)
      BY <1>1, <2>3, <2>7, SavedMore DEF more
    <3>2. TextsOf(m.blocks) = {}
      BY <1>3 DEF TextsOf
    <3> QED
      BY <2>7, <3>1, <3>2 DEF Holds
  <2>11. m.seq <= f.seq
    BY <1>1, <2>7
  <2> QED
    BY <1>3, <2>5, <2>6, <2>7, <2>9, <2>10, <2>11 DEF Sound, f, b
<1> QED
  BY <1>2, <1>3

Documents == [blocks : Seq(Blocks), tombs : Seq(Tombs), seq : Nat, version : Nat,
              recent : SUBSET Names, recentLost : SUBSET Names]
DocumentOK(d) == d \in Documents /\ UniqueIds(d.blocks) /\ d.blocks # << >>

Starting(d) == [blocks |-> d.blocks, tombs |-> d.tombs, seq |-> d.seq,
                recent |-> d.recent, lostBefore |-> d.recentLost,
                applied |-> {}, took |-> {}, rejected |-> {}, overwrites |-> {},
                lost |-> {}, lostOps |-> {}, inverse |-> << >>]
Merged(d, ops, actor) == Filled(MergeAll(Starting(d), ops, actor), 0 - d.version, actor)

LEMMA StartingFacts ==
  ASSUME NEW d, DocumentOK(d)
  PROVE  Starting(d) \in Sound
<1>1. << >> \in Seq(Entries) /\ d \in Documents /\ UniqueIds(d.blocks)
  BY DEF DocumentOK
<1>2. /\ d.blocks \in Seq(Blocks) /\ d.tombs \in Seq(Tombs) /\ d.seq \in Nat
      /\ d.recent \in SUBSET Names /\ d.recentLost \in SUBSET Names
  BY <1>1 DEF Documents
<1>3. Starting(d) \in Merges
  BY <1>1, <1>2 DEF Merges, Starting
<1>4. UniqueIds(Starting(d).blocks)
  BY <1>1 DEF Starting
<1> QED
  BY <1>3, <1>4 DEF Sound

LEMMA MergedFacts ==
  ASSUME NEW d, DocumentOK(d), NEW ops \in Seq(Ops), NEW actor \in {Me, Other}
  PROVE  LET m == Merged(d, ops, actor)
         IN /\ m \in Sound /\ m.blocks # << >> /\ m.recent = d.recent
            /\ m.took \cap d.recent = {} /\ m.applied \subseteq OpIds(ops)
            /\ m.took = {} => m.blocks = d.blocks
            /\ UndoneAll(m.blocks, m.inverse) = d.blocks
<1> DEFINE start == Starting(d)
           m0 == MergeAll(start, ops, actor)
           filler == 0 - d.version
           m == Filled(m0, filler, actor)
<1>1. /\ d.blocks \in Seq(Blocks) /\ d.blocks # << >> /\ filler \in Int
  BY DEF DocumentOK, Documents
<1>2. /\ start \in Sound /\ start.took = {} /\ start.applied = {} /\ start.recent = d.recent
      /\ start.blocks = d.blocks /\ start.inverse = << >>
  BY StartingFacts DEF Starting
<1> HIDE DEF start, filler
<1>3. /\ m0 \in Sound /\ m0.recent = start.recent
      /\ m0.took \cap start.recent = {}
      /\ m0.applied \subseteq start.applied \cup OpIds(ops)
      /\ m0.took = {} => m0.blocks = start.blocks /\ m0.inverse = start.inverse
      /\ UndoneAll(m0.blocks, m0.inverse) = UndoneAll(start.blocks, start.inverse)
  BY <1>2, MergeAllFacts
<1> HIDE DEF m0
<1>4. /\ m \in Sound /\ m.blocks # << >> /\ (m0.blocks # << >> => m = m0)
      /\ m.recent = m0.recent /\ m.applied = m0.applied /\ m.took = m0.took
      /\ UndoneAll(m.blocks, m.inverse) = UndoneAll(m0.blocks, m0.inverse)
  BY <1>1, <1>3, FilledFacts
<1>5. UndoneAll(start.blocks, start.inverse) = d.blocks
  BY <1>1, <1>2, UndoneNone
<1> HIDE DEF m
<1>6. Merged(d, ops, actor) = m
  BY DEF Merged, m, m0, start, filler
<1> QED
  BY <1>1, <1>2, <1>3, <1>4, <1>5, <1>6

(* A batch leaves a page that is well-formed and remembers its ids (mergeOps). *)
LEMMA MergeOpsFacts ==
  ASSUME NEW d, DocumentOK(d), NEW ops \in Seq(Ops), NEW actor \in {Me, Other}
  PROVE  LET m == Merged(d, ops, actor)
             r == MergeOps(d, ops, actor)
         IN /\ DocumentOK(r.document)
            /\ r.bumped = (m.took # {} \/ m.lost # {})
            /\ r.document.recent = d.recent \cup (m.applied \ {None})
            /\ ~r.bumped => /\ r.document.blocks = d.blocks /\ r.document.version = d.version
                            /\ r.document.seq = d.seq /\ r.document.recentLost = d.recentLost
            /\ r.bumped => /\ r.document.blocks = m.blocks /\ r.document.version = d.version + 1
                           /\ r.document.seq = m.seq /\ r.document.recentLost = d.recentLost \cup m.lostOps
            /\ r.applied = m.applied /\ r.took = m.took /\ r.rejected = m.rejected
            /\ r.overwrites = m.overwrites /\ r.lost = m.lost /\ r.inverse = m.inverse
<1> DEFINE m == Merged(d, ops, actor)
           r == MergeOps(d, ops, actor)
           bumped == m.took # {} \/ m.lost # {}
           tombs == SubSeq(m.tombs, 1, IF Len(m.tombs) < MaxTombstones THEN Len(m.tombs) ELSE MaxTombstones)
           window == d.recent \cup (m.applied \ {None})
           old == [d EXCEPT !.recent = window]
           new == [blocks |-> m.blocks, seq |-> m.seq, version |-> d.version + 1, recent |-> window,
                   tombs |-> tombs, recentLost |-> d.recentLost \cup m.lostOps]
<1>1. r = [document |-> IF ~bumped THEN old ELSE new,
           bumped |-> bumped, applied |-> m.applied, took |-> m.took, rejected |-> m.rejected,
           overwrites |-> m.overwrites, lost |-> m.lost, inverse |-> m.inverse]
  BY DEF MergeOps, Merged, Starting, Window
<1>2. m \in Sound /\ m.blocks # << >>
  BY MergedFacts
<1> HIDE DEF m
<1>3. /\ m.tombs \in Seq(Tombs) /\ m.blocks \in Seq(Blocks) /\ m.seq \in Nat /\ m.applied \in SUBSET Names
      /\ m.lostOps \in SUBSET Names /\ UniqueIds(m.blocks)
  BY <1>2 DEF Sound, Merges
<1>4. d \in Documents /\ UniqueIds(d.blocks) /\ d.blocks # << >>
  BY DEF DocumentOK
<1>5. d.version \in Nat /\ d.recentLost \in SUBSET Names /\ window \in SUBSET Names
  BY <1>3, <1>4 DEF Documents
<1>6. tombs \in Seq(Tombs)
  <2> DEFINE n == IF Len(m.tombs) < MaxTombstones THEN Len(m.tombs) ELSE MaxTombstones
  <2>1. Len(m.tombs) \in Nat /\ MaxTombstones \in Nat
    BY <1>3, LenProperties, WikiAssumption
  <2>2. n \in 0..Len(m.tombs)
    BY <2>1
  <2> HIDE DEF n
  <2>3. \A i \in 1..n : m.tombs[i] \in Tombs
    <3>1. \A i \in 1..n : i \in 1..Len(m.tombs)
      BY <2>1, <2>2
    <3> QED
      BY <1>3, <3>1, ElementOfSeq
  <2>4. SubSeq(m.tombs, 1, n) \in Seq(Tombs)
    BY <1>3, <2>1, <2>2, <2>3, SubSeqProperties
  <2> QED
    BY <2>4 DEF n
<1> HIDE DEF tombs, window
<1>7. old.recent = window /\ old.blocks = d.blocks /\ old.version = d.version /\ old.seq = d.seq
      /\ old.recentLost = d.recentLost /\ old \in Documents
  BY <1>4, <1>5 DEF Documents
<1>8. new \in Documents
  BY <1>3, <1>5, <1>6 DEF Documents
<1>9. DocumentOK(old) /\ DocumentOK(new)
  <2> HIDE DEF old
  <2> QED
    BY <1>2, <1>3, <1>4, <1>7, <1>8 DEF DocumentOK
<1>10. bumped \in BOOLEAN
  OBVIOUS
<1>11. /\ new.blocks = m.blocks /\ new.version = d.version + 1 /\ new.recent = window
       /\ new.seq = m.seq /\ new.recentLost = d.recentLost \cup m.lostOps
  OBVIOUS
<1> HIDE DEF old, new, bumped, r
<1>12. /\ r.document = (IF ~bumped THEN old ELSE new) /\ r.bumped = bumped /\ r.applied = m.applied
       /\ r.took = m.took /\ r.rejected = m.rejected
       /\ r.overwrites = m.overwrites /\ r.lost = m.lost /\ r.inverse = m.inverse
  BY <1>1
<1>13. bumped = (m.took # {} \/ m.lost # {})
  BY DEF bumped
<1> QED
  BY <1>7, <1>9, <1>10, <1>11, <1>12, <1>13 DEF m, r, window

----------------------------------------------------------------------------
(* What is picked of a sequence, and what makes one page of another.       *)
LEMMA PickedType ==
  ASSUME NEW S, NEW s \in Seq(S), NEW places
  PROVE  Picked(s, places) \in Seq(S)
<1> DEFINE N == Len(s)
           Next1(x, n) == IF n \in places THEN Append(x, s[n]) ELSE x
           f == [n \in 1..N |-> [x \in Seq(S) |-> Next1(x, n)]]
           Solves(h) == h = [n \in 0..N |-> IF n = 0 THEN << >> ELSE IF n \in places THEN Append(h[n - 1], s[n]) ELSE h[n - 1]]
<1>1. N \in Nat /\ \A n \in 1..N : s[n] \in S
  BY LenProperties, ElementOfSeq
<1>2. ASSUME NEW x \in Seq(S), NEW n \in 1..N PROVE Next1(x, n) \in Seq(S)
  BY <1>1, AppendProperties
<1>3. f \in [1..N -> [Seq(S) -> Seq(S)]]
  <2> HIDE DEF Next1
  <2> QED
    BY <1>2
<1>4. PICK g \in [0..N -> Seq(S)] : g[0] = << >> /\ \A n \in 1..N : g[n] = f[n][g[n - 1]]
  <2> HIDE DEF f, N
  <2>0. << >> \in Seq(S)
    OBVIOUS
  <2>1. StepsOf(N, Seq(S), << >>, f)
    BY <1>1, <1>3, <2>0 DEF StepsOf
  <2>2. Stepwise(N, Seq(S), << >>, f)
    BY <2>1, Steps, Zenon
  <2> QED
    BY <2>2 DEF Stepwise
<1>5. Solves(g)
  <2>1. ASSUME NEW n \in 1..N PROVE g[n] = Next1(g[n - 1], n)
    <3>1. n - 1 \in 0..N
      BY <1>1
    <3>2. g[n - 1] \in Seq(S)
      BY <1>4, <3>1
    <3> HIDE DEF Next1
    <3> QED
      BY <1>4, <3>2
  <2>2. \A n \in 0..N : g[n] = IF n = 0 THEN << >> ELSE IF n \in places THEN Append(g[n - 1], s[n]) ELSE g[n - 1]
    <3> TAKE n \in 0..N
    <3>1. CASE n = 0
      BY <1>4, <3>1
    <3>2. CASE n # 0
      <4>1. n \in 1..N
        BY <1>1, <3>2
      <4> QED
        BY <2>1, <3>2, <4>1
    <3> QED
      BY <3>1, <3>2
  <2> HIDE DEF f
  <2> QED
    BY <1>4, <2>2
<1>6. Picked(s, places) = (CHOOSE h : Solves(h))[N]
  BY DEF Picked
<1> HIDE DEF Solves
<1>7. PICK p : Solves(p) /\ Picked(s, places) = p[N]
  BY <1>5, <1>6
<1>8. p[0] = << >> /\ \A n \in 1..N : p[n] = Next1(p[n - 1], n)
  <2>1. 0 \in 0..N /\ \A n \in 1..N : n \in 0..N /\ n # 0
    BY <1>1
  <2> HIDE DEF N
  <2> QED
    BY <1>7, <2>1 DEF Solves
<1> HIDE DEF Next1
<1> DEFINE T == {n \in 0..N : p[n] \in Seq(S)}
<1>9. 0 \in T
  <2>1. p[0] \in Seq(S)
    <3>1. p[0] = << >> /\ << >> \in Seq(S)
      BY <1>8
    <3> QED
      BY <3>1, Zenon
  <2> QED
    BY <1>1, <2>1
<1>10. ASSUME NEW n \in 1..N, n - 1 \in T PROVE n \in T
  <2>1. p[n] = Next1(p[n - 1], n) /\ p[n - 1] \in Seq(S)
    BY <1>8, <1>10
  <2> QED
    BY <1>1, <1>2, <2>1
<1>11. T \in SUBSET Nat
  BY <1>1
<1> HIDE DEF T
<1>12. N \in T
  <2>1. 0..N \subseteq T
    BY <1>1, <1>9, <1>10, <1>11, Upwards
  <2> QED
    BY <1>1, <2>1
<1> QED
  BY <1>7, <1>12 DEF T

(* A restore is made of ops of the server's own, which insert what the      *)
(* version had (diffToOps).                                                 *)
OwnOps(target) == {op \in Ops : op.op = None /\ (op.kind = "insert" => Has(target, op.id))}

LEMMA DiffToOpsType ==
  ASSUME NEW current \in Seq(Blocks), NEW target \in Seq(Blocks)
  PROVE  DiffToOps(current, target) \in Seq(OwnOps(target))
<1> DEFINE op(kind, b, after) == [op |-> None, kind |-> kind, id |-> b.id, after |-> after,
                               text |-> IF kind \in {"insert", "update"} THEN b.text ELSE None,
                               base |-> IF Has(current, b.id) THEN current[Index(current, b.id)].seq ELSE 0]
           new(b) == ~Has(current, b.id)
           rewritten(b) == ~new(b) /\ current[Index(current, b.id)].text # b.text
           gone == Picked(current, {i \in DOMAIN current : ~Has(target, current[i].id)})
           each == [i \in DOMAIN target |-> IF new(target[i]) THEN op("insert", target[i], IdBefore(target, i))
                                            ELSE op("update", target[i], None)]
           written == Picked(each, {i \in DOMAIN target : new(target[i]) \/ rewritten(target[i])})
           left == [i \in DOMAIN gone |-> op("delete", gone[i], None)]
           right == IF NeedsMoves(current, target)
                    THEN [i \in DOMAIN target |-> op("move", target[i], IdBefore(target, i))] ELSE << >>
<1>1. DiffToOps(current, target) = left \o written \o right
  BY DEF DiffToOps
<1>2. ASSUME NEW kind \in {"insert", "update", "delete", "move"}, NEW b \in Blocks, NEW after \in Places,
             kind = "insert" => Has(target, b.id)
      PROVE  op(kind, b, after) \in OwnOps(target)
  <2>1. (IF Has(current, b.id) THEN current[Index(current, b.id)].seq ELSE 0) \in Nat
    <3>1. Has(current, b.id) => current[Index(current, b.id)] \in Blocks
      BY IndexFacts, ElementOfSeq
    <3> QED
      BY <3>1 DEF Blocks
  <2>2. b.id \in Int /\ b.text \in Nat /\ None \in Names /\ after \in Int \cup {None}
    BY DEF Blocks, Names, Places
  <2>3. op(kind, b, after) \in Ops
    BY <2>1, <2>2 DEF Ops
  <2>4. op(kind, b, after).op = None /\ op(kind, b, after).kind = kind /\ op(kind, b, after).id = b.id
    OBVIOUS
  <2> HIDE DEF op
  <2> QED
    BY <1>2, <2>3, <2>4 DEF OwnOps
<1> HIDE DEF op
<1>3. DOMAIN target = 1..Len(target) /\ Len(target) \in Nat /\ None \in Places
  BY LenProperties DEF Places
<1>4. \A i \in DOMAIN target : target[i] \in Blocks /\ IdBefore(target, i) \in Places /\ Has(target, target[i].id)
  BY <1>3, BlockBefore, EditingAssumption DEF Has
<1>5. left \in Seq(OwnOps(target))
  <2>1. gone \in Seq(Blocks)
    BY PickedType
  <2> HIDE DEF gone
  <2>2. DOMAIN gone = 1..Len(gone) /\ Len(gone) \in Nat /\ \A i \in 1..Len(gone) : gone[i] \in Blocks
    BY <2>1, LenProperties, ElementOfSeq
  <2>3. left \in [1..Len(gone) -> OwnOps(target)]
    BY <1>2, <1>3, <2>2
  <2> QED
    BY <2>2, <2>3
<1>6. written \in Seq(OwnOps(target))
  <2>1. each \in [1..Len(target) -> OwnOps(target)]
    BY <1>2, <1>3, <1>4
  <2> HIDE DEF each
  <2>2. each \in Seq(OwnOps(target))
    BY <1>3, <2>1
  <2> QED
    BY <2>2, PickedType
<1>7. right \in Seq(OwnOps(target))
  <2>1. [i \in DOMAIN target |-> op("move", target[i], IdBefore(target, i))] \in [1..Len(target) -> OwnOps(target)]
    BY <1>2, <1>3, <1>4
  <2>2. [i \in DOMAIN target |-> op("move", target[i], IdBefore(target, i))] \in Seq(OwnOps(target))
    BY <1>3, <2>1
  <2> QED
    BY <2>2
<1> HIDE DEF left, written, right
<1>8. left \o written \in Seq(OwnOps(target))
  BY <1>5, <1>6, ConcatProperties
<1>9. (left \o written) \o right \in Seq(OwnOps(target))
  BY <1>7, <1>8, ConcatProperties
<1> QED
  BY <1>1, <1>9

----------------------------------------------------------------------------
(* The queue.                                                              *)
LEMMA PushedFacts ==
  ASSUME NEW q \in Seq(Ops), NEW op \in Ops
  PROVE  /\ Pushed(q, op) \in Seq(Ops) /\ Pushed(q, op) # << >>
         /\ q # << >> => Last(q) \in Ops /\ Len(q) \in Nat \ {0} /\ Last(q) = q[Len(q)]
         /\ q # << >> /\ Folds(Last(q), op) =>
               /\ Len(Pushed(q, op)) = Len(q) /\ Fold(Last(q), op) \in Ops
               /\ \A i \in 1..Len(q) : Pushed(q, op)[i] = IF i = Len(q) THEN Fold(Last(q), op) ELSE q[i]
         /\ ~(q # << >> /\ Folds(Last(q), op)) =>
               /\ Len(Pushed(q, op)) = Len(q) + 1
               /\ \A i \in 1..(Len(q) + 1) : Pushed(q, op)[i] = IF i = Len(q) + 1 THEN op ELSE q[i]
<1>0. Len(q) \in Nat /\ \A i \in 1..Len(q) : q[i] \in Ops
  BY LenProperties, ElementOfSeq
<1>1. ASSUME q # << >> PROVE Last(q) \in Ops /\ Len(q) \in Nat \ {0} /\ Last(q) = q[Len(q)]
  <2>1. Len(q) # 0
    BY <1>1, EmptySeq
  <2> QED
    BY <1>0, <2>1 DEF Last
<1>2. CASE q # << >> /\ Folds(Last(q), op)
  <2> DEFINE front == Front(q)
             last == Fold(Last(q), op)
             p == Pushed(q, op)
  <2>1. p = Append(front, last)
    BY <1>2 DEF Pushed
  <2>2. last \in Ops
    <3>1. Last(q).kind \in {"insert", "update"} /\ op.kind = "update" /\ op.text \in Nat /\ op.op \in Names
      BY <1>2 DEF Folds, Ops
    <3>2. Last(q) \in Ops
      BY <1>1, <1>2
    <3> QED
      BY <3>1, <3>2 DEF Fold, Ops
  <2>3. front \in Seq(Ops) /\ Len(front) = Len(q) - 1 /\ \A i \in 1..(Len(q) - 1) : front[i] = q[i]
    <3>1. Front(q) = SubSeq(q, 1, Len(q) - 1)
      BY DEF Front
    <3>2. \A i \in 1..(Len(q) - 1) : q[i] \in Ops
      BY <1>0
    <3>3. Len(q) - 1 \in 0..Len(q) /\ 1 \in Int /\ Len(q) - 1 \in Int
      BY <1>0, <1>1, <1>2
    <3>4. PICK k : k = Len(q) - 1
      OBVIOUS
    <3>5. /\ SubSeq(q, 1, k) \in Seq(Ops) /\ Len(SubSeq(q, 1, k)) = (IF 1 <= k THEN k - 1 + 1 ELSE 0)
          /\ \A i \in 1..(k - 1 + 1) : SubSeq(q, 1, k)[i] = q[1 + i - 1]
      BY <3>2, <3>3, <3>4, SubSeqProperties
    <3>6. k \in Nat
      BY <1>0, <1>1, <1>2, <3>4
    <3>7. Len(SubSeq(q, 1, k)) = k /\ \A i \in 1..k : SubSeq(q, 1, k)[i] = q[i]
      BY <3>5, <3>6
    <3> QED
      BY <3>1, <3>4, <3>5, <3>7
  <2> HIDE DEF front, last, p
  <2>4. /\ p \in Seq(Ops) /\ Len(p) = Len(front) + 1
        /\ \A i \in 1..(Len(front) + 1) : p[i] = IF i = Len(front) + 1 THEN last ELSE front[i]
    <3>1. /\ Append(front, last) \in Seq(Ops) /\ Len(Append(front, last)) = Len(front) + 1
          /\ \A i \in 1..Len(front) : Append(front, last)[i] = front[i]
          /\ Append(front, last)[Len(front) + 1] = last
      BY <2>2, <2>3, AppendProperties
    <3>2. Len(front) \in Nat
      BY <2>3, LenProperties
    <3> QED
      BY <2>1, <3>1, <3>2
  <2>5. Len(p) = Len(q) /\ \A i \in 1..Len(q) : p[i] = IF i = Len(q) THEN last ELSE q[i]
    BY <1>0, <1>1, <1>2, <2>3, <2>4
  <2>6. p # << >>
    BY <1>1, <1>2, <2>5
  <2> QED
    BY <1>1, <1>2, <2>2, <2>4, <2>5, <2>6 DEF p, last
<1>3. CASE ~(q # << >> /\ Folds(Last(q), op))
  <2> DEFINE p == Pushed(q, op)
  <2>1. p = Append(q, op)
    BY <1>3 DEF Pushed
  <2> HIDE DEF p
  <2>2. /\ Append(q, op) \in Seq(Ops) /\ Len(Append(q, op)) = Len(q) + 1
        /\ \A i \in 1..Len(q) : Append(q, op)[i] = q[i]
        /\ Append(q, op)[Len(q) + 1] = op
    BY AppendProperties
  <2>3. p \in Seq(Ops) /\ Len(p) = Len(q) + 1 /\ \A i \in 1..(Len(q) + 1) : p[i] = IF i = Len(q) + 1 THEN op ELSE q[i]
    BY <1>0, <2>1, <2>2
  <2>4. p # << >>
    BY <1>0, <2>3
  <2> QED
    BY <1>1, <1>3, <2>3, <2>4 DEF p
<1> QED
  BY <1>2, <1>3

Coalescing(q, ops) ==
    /\ q \in [0..Len(ops) -> Seq(Ops)] /\ q[0] = << >>
    /\ \A n \in 1..Len(ops) : q[n] = Pushed(q[n - 1], ops[n])

LEMMA CoalesceRuns ==
  ASSUME NEW ops \in Seq(Ops)
  PROVE  \E q : Coalescing(q, ops) /\ CoalesceOps(ops) = q[Len(ops)]
<1> DEFINE N == Len(ops)
           f == [n \in 1..N |-> [x \in Seq(Ops) |-> Pushed(x, ops[n])]]
           Solves(h) == h = [n \in 0..N |-> IF n = 0 THEN << >> ELSE Pushed(h[n - 1], ops[n])]
<1>1. N \in Nat /\ \A n \in 1..N : ops[n] \in Ops
  BY LenProperties, ElementOfSeq
<1>2. f \in [1..N -> [Seq(Ops) -> Seq(Ops)]]
  BY <1>1, PushedFacts
<1>3. PICK g \in [0..N -> Seq(Ops)] : g[0] = << >> /\ \A n \in 1..N : g[n] = f[n][g[n - 1]]
  <2> HIDE DEF f, N
  <2>0. << >> \in Seq(Ops)
    OBVIOUS
  <2>1. StepsOf(N, Seq(Ops), << >>, f)
    BY <1>1, <1>2, <2>0 DEF StepsOf
  <2>2. Stepwise(N, Seq(Ops), << >>, f)
    BY <2>1, Steps, Zenon
  <2> QED
    BY <2>2 DEF Stepwise
<1>4. Solves(g)
  <2>1. ASSUME NEW n \in 1..N PROVE g[n] = Pushed(g[n - 1], ops[n])
    <3>1. n - 1 \in 0..N
      BY <1>1
    <3>2. g[n - 1] \in Seq(Ops)
      BY <1>3, <3>1
    <3> QED
      BY <1>3, <3>2
  <2>2. \A n \in 0..N : g[n] = IF n = 0 THEN << >> ELSE Pushed(g[n - 1], ops[n])
    BY <1>1, <1>3, <2>1
  <2> HIDE DEF f
  <2> QED
    BY <1>3, <2>2
<1>5. CoalesceOps(ops) = (CHOOSE h : Solves(h))[N]
  BY DEF CoalesceOps
<1> HIDE DEF Solves
<1>6. PICK q : Solves(q) /\ CoalesceOps(ops) = q[N]
  BY <1>4, <1>5
<1>7. /\ q = [n \in 0..N |-> q[n]] /\ q[0] = << >>
      /\ \A n \in 1..N : q[n] = Pushed(q[n - 1], ops[n])
  <2>1. 0 \in 0..N /\ \A n \in 1..N : n \in 0..N /\ n # 0
    BY <1>1
  <2> HIDE DEF N
  <2> QED
    BY <1>6, <2>1 DEF Solves
<1>8. \A n \in 0..N : q[n] \in Seq(Ops)
  <2> DEFINE T == {n \in 0..N : q[n] \in Seq(Ops)}
  <2>1. 0 \in T
    <3>1. q[0] \in Seq(Ops)
      <4>1. q[0] = << >> /\ << >> \in Seq(Ops)
        BY <1>7
      <4> QED
        BY <4>1, Zenon
    <3> QED
      BY <1>1, <3>1
  <2>2. ASSUME NEW n \in 1..N, n - 1 \in T PROVE n \in T
    <3>1. n \in 0..N /\ ops[n] \in Ops
      BY <1>1
    <3>2. q[n] = Pushed(q[n - 1], ops[n])
      BY <1>7, Zenon
    <3> QED
      BY <2>2, <3>1, <3>2, PushedFacts
  <2>3. T \in SUBSET Nat
    BY <1>1
  <2> HIDE DEF T
  <2>4. 0..N \subseteq T
    BY <1>1, <2>1, <2>2, <2>3, Upwards
  <2> QED
    BY <2>4 DEF T
<1>9. Coalescing(q, ops)
  BY <1>7, <1>8 DEF Coalescing
<1> QED
  BY <1>6, <1>9

LEMMA CoalesceType ==
  ASSUME NEW ops \in Seq(Ops)
  PROVE  CoalesceOps(ops) \in Seq(Ops)
<1>1. PICK q : Coalescing(q, ops) /\ CoalesceOps(ops) = q[Len(ops)]
  BY CoalesceRuns
<1> QED
  BY <1>1, LenProperties DEF Coalescing

(* Taking over the own seqs leaves ops (withOwnBaseSeq). *)
LEMMA BasedFacts ==
  ASSUME NEW ops \in Seq(Ops), \A id \in DOMAIN own : own[id] \in Nat
  PROVE  /\ Based(ops) \in Seq(Ops) /\ Len(Based(ops)) = Len(ops)
         /\ \A i \in 1..Len(ops) : \E base \in Nat : Based(ops)[i] = [ops[i] EXCEPT !.base = base]
<1>1. Len(ops) \in Nat /\ DOMAIN ops = 1..Len(ops) /\ \A i \in 1..Len(ops) : ops[i] \in Ops
  BY LenProperties, ElementOfSeq
<1> DEFINE b(i) == IF ops[i].kind = "update" /\ ops[i].id \in DOMAIN own /\ own[ops[i].id] > ops[i].base
                   THEN own[ops[i].id] ELSE ops[i].base
<1>2. \A i \in 1..Len(ops) : b(i) \in Nat /\ [ops[i] EXCEPT !.base = b(i)] \in Ops
  <2> TAKE i \in 1..Len(ops)
  <2>1. ops[i] \in Ops /\ ops[i].base \in Nat
    BY <1>1 DEF Ops
  <2>2. b(i) \in Nat
    BY <2>1
  <2> HIDE DEF b
  <2> QED
    BY <2>1, <2>2 DEF Ops
<1>3. \A i \in 1..Len(ops) : Based(ops)[i] = [ops[i] EXCEPT !.base = b(i)]
  <2> TAKE i \in 1..Len(ops)
  <2>1. ops[i] \in Ops /\ ops[i] = [ops[i] EXCEPT !.base = ops[i].base]
    BY <1>1 DEF Ops
  <2> QED
    BY <1>1, <2>1 DEF Based
<1> HIDE DEF b
<1>4. Based(ops) \in [1..Len(ops) -> Ops]
  <2>1. Based(ops) = [i \in 1..Len(ops) |-> Based(ops)[i]]
    BY <1>1 DEF Based
  <2> QED
    BY <1>2, <1>3, <2>1
<1>5. Based(ops) \in Seq(Ops)
  BY <1>1, <1>4
<1>6. Len(Based(ops)) = Len(ops)
  BY <1>1, <1>4, <1>5, LenProperties
<1> QED
  BY <1>2, <1>3, <1>5, <1>6

----------------------------------------------------------------------------
(* The history.                                                            *)
LEMMA RowsAbove ==
  ASSUME NEW rows, NEW V \in Nat, NEW v \in Nat, v <= V,
         \A r \in rows : r.version \in Nat /\ r.version <= V,
         \A r, s \in rows : r.version = s.version => r = s,
         \A w \in (v + 1)..V : \E r \in rows : r.version = w
  PROVE  Cardinality({s \in rows : s.version > v}) = V - v
<1> DEFINE Y == {s \in rows : s.version > v}
           n == V - v
           f == [k \in 1..n |-> RowOf(rows, v + k)]
<1>1. n \in Nat
  OBVIOUS
<1>2. ASSUME NEW k \in 1..n PROVE RowOf(rows, v + k) \in Y /\ RowOf(rows, v + k).version = v + k
  <2>1. v + k \in (v + 1)..V
    OBVIOUS
  <2>2. \E r \in rows : r.version = v + k
    BY <2>1
  <2>3. RowOf(rows, v + k) \in rows /\ RowOf(rows, v + k).version = v + k
    BY <2>2 DEF RowOf
  <2> QED
    BY <2>3
<1>3. f \in [1..n -> Y]
  BY <1>2
<1>4. \A a, b \in DOMAIN f : f[a] = f[b] => a = b
  BY <1>2
<1>5. ASSUME NEW t \in Y PROVE \E k \in 1..n : f[k] = t
  <2>1. t.version - v \in 1..n /\ v + (t.version - v) = t.version
    OBVIOUS
  <2>2. RowOf(rows, t.version).version = t.version /\ RowOf(rows, t.version) \in rows
    BY <1>2, <2>1
  <2>3. RowOf(rows, t.version) = t
    BY <2>2
  <2> QED
    BY <2>1, <2>3
<1> HIDE DEF f, Y, n
<1>6. f \in Bijection(1..n, Y)
  BY <1>3, <1>4, <1>5 DEF Bijection, Injection, Surjection, IsInjective
<1>7. ExistsBijection(1..n, Y)
  BY <1>6 DEF ExistsBijection
<1>8. Cardinality(Y) = n
  BY <1>1, <1>7, FS_CountingElements
<1> QED
  BY <1>8 DEF Y, n

KeptUpTo(V) == {v \in 1..V : v + MaxRevisions > V}
Contiguous(rows, V) ==
    /\ \A r \in rows : r.version \in KeptUpTo(V)
    /\ \A r, s \in rows : r.version = s.version => r = s
    /\ \A v \in KeptUpTo(V) : \E r \in rows : r.version = v

(* Pruning keeps a history without gaps (pruneRevisions). *)
LEMMA WithRevisionFacts ==
  ASSUME NEW rows, NEW V \in Nat, Contiguous(rows, V), NEW row, row.version = V + 1
  PROVE  Contiguous(WithRevision(rows, row), V + 1) /\ WithRevision(rows, row) \subseteq rows \cup {row}
<1> DEFINE all == rows \cup {row}
           new == WithRevision(rows, row)
<1>0. MaxRevisions \in Nat \ {0}
  BY WikiAssumption
<1>1. /\ \A r \in all : r.version \in Nat /\ r.version <= V + 1
      /\ \A r, s \in all : r.version = s.version => r = s
  BY DEF Contiguous, KeptUpTo
<1>2. ASSUME NEW r \in all PROVE Cardinality({s \in all : s.version > r.version}) = V + 1 - r.version
  <2>1. r.version \in Nat /\ r.version <= V + 1
    BY <1>1
  <2>2. \A w \in (r.version + 1)..(V + 1) : \E s \in all : s.version = w
    <3> TAKE w \in (r.version + 1)..(V + 1)
    <3>1. CASE w = V + 1
      BY <3>1
    <3>2. CASE w # V + 1
      <4>1. r \in rows /\ r.version + MaxRevisions > V /\ r.version >= 1
        BY <3>2, <2>1 DEF Contiguous, KeptUpTo
      <4>2. w \in KeptUpTo(V)
        BY <1>0, <2>1, <3>2, <4>1 DEF KeptUpTo
      <4> QED
        BY <4>2 DEF Contiguous
    <3> QED
      BY <3>1, <3>2
  <2> HIDE DEF all
  <2> QED
    BY <1>1, <2>1, <2>2, RowsAbove
<1>3. new = {r \in all : Cardinality({s \in all : s.version > r.version}) < MaxRevisions}
  BY DEF WithRevision
<1>4. new = {r \in all : V + 1 - r.version < MaxRevisions}
  BY <1>2, <1>3
<1> HIDE DEF new
<1>5. \A r \in new : r.version \in KeptUpTo(V + 1)
  <2>1. \A r \in all : r.version \in 1..(V + 1)
    BY DEF Contiguous, KeptUpTo
  <2> QED
    BY <1>0, <1>4, <2>1 DEF KeptUpTo
<1>6. ASSUME NEW v \in KeptUpTo(V + 1) PROVE \E r \in new : r.version = v
  <2>1. v \in 1..(V + 1) /\ v + MaxRevisions > V + 1
    BY DEF KeptUpTo
  <2>2. CASE v = V + 1
    BY <1>0, <1>4, <2>2
  <2>3. CASE v # V + 1
    <3>1. v \in KeptUpTo(V)
      BY <1>0, <2>1, <2>3 DEF KeptUpTo
    <3>2. PICK r \in rows : r.version = v
      BY <3>1 DEF Contiguous
    <3>3. V + 1 - r.version < MaxRevisions
      BY <1>0, <2>1, <3>2
    <3> QED
      BY <1>4, <3>2, <3>3
  <2> QED
    BY <2>2, <2>3
<1>7. new \subseteq all
  BY <1>4
<1>8. Contiguous(new, V + 1)
  BY <1>1, <1>5, <1>6, <1>7 DEF Contiguous
<1> QED
  BY <1>7, <1>8 DEF new

(* A row of the history says how its version is undone.                    *)
RowTrue(r) ==
    /\ r.snapshot # << >> => r.snapshot = past[r.version]
    /\ r.version > 1 => UndoneAll(past[r.version], r.inverse) = past[r.version - 1]

HistoryInv ==
    /\ past \in Seq(Seq(Blocks)) /\ Len(past) = document.version /\ document.version \in Nat \ {0}
    /\ past[document.version] = document.blocks
    /\ Contiguous(revisions, document.version)
    /\ \A r \in revisions : RowTrue(r)

(* Undoing row after row leads to the version it stops at. *)
LEMMA BackFromFacts ==
  ASSUME HistoryInv, NEW from \in 1..document.version, NEW v \in 1..from, v..from \subseteq KeptUpTo(document.version)
  PROVE  BackFrom(past[from], from, v, revisions) = past[v]
<1> DEFINE N == from - v
           step(x, back) == UndoneAll(x, RowOf(revisions, from - back + 1).inverse)
           Solves(h) == h = [back \in 0..N |-> IF back = 0 THEN past[from] ELSE step(h[back - 1], back)]
           g == [back \in 0..N |-> past[from - back]]
<1>1. N \in Nat /\ document.version \in Nat
  BY DEF HistoryInv
<1>2. ASSUME NEW back \in 1..N PROVE step(past[from - (back - 1)], back) = past[from - back]
  <2> DEFINE w == from - back + 1
  <2>1. w \in v..from /\ w > 1 /\ from - (back - 1) = w /\ from - back = w - 1
    BY <1>1
  <2> HIDE DEF w
  <2>2. \E r \in revisions : r.version = w
    BY <2>1 DEF HistoryInv, Contiguous
  <2>3. RowOf(revisions, w) \in revisions /\ RowOf(revisions, w).version = w
    BY <2>2 DEF RowOf
  <2>4. UndoneAll(past[w], RowOf(revisions, w).inverse) = past[w - 1]
    BY <2>1, <2>3 DEF HistoryInv, RowTrue
  <2> QED
    BY <2>1, <2>4 DEF w
<1>3. BackFrom(past[from], from, v, revisions) = (CHOOSE h : Solves(h))[N]
  BY DEF BackFrom
<1> HIDE DEF step
<1>4. Solves(g)
  <2>1. ASSUME NEW back \in 0..N PROVE g[back] = IF back = 0 THEN past[from] ELSE step(g[back - 1], back)
    <3>1. CASE back = 0
      <4>1. from - 0 = from /\ 0 \in 0..N
        BY <1>1
      <4> QED
        BY <3>1, <4>1
    <3>2. CASE back # 0
      <4>1. back \in 1..N /\ back - 1 \in 0..N
        BY <1>1, <3>2
      <4>2. g[back - 1] = past[from - (back - 1)] /\ g[back] = past[from - back]
        BY <4>1
      <4> QED
        BY <1>2, <3>2, <4>1, <4>2
    <3> QED
      BY <3>1, <3>2
  <2>2. g = [back \in 0..N |-> g[back]]
    OBVIOUS
  <2> HIDE DEF g
  <2> QED
    BY <2>1, <2>2
<1> HIDE DEF Solves
<1>5. PICK at : Solves(at) /\ BackFrom(past[from], from, v, revisions) = at[N]
  BY <1>3, <1>4
<1>6. at[0] = past[from] /\ \A back \in 1..N : at[back] = step(at[back - 1], back)
  <2>1. 0 \in 0..N /\ \A back \in 1..N : back \in 0..N /\ back # 0
    BY <1>1
  <2> HIDE DEF N
  <2> QED
    BY <1>5, <2>1 DEF Solves
<1> DEFINE T == {back \in 0..N : at[back] = past[from - back]}
<1>7. 0 \in T
  <2>1. from - 0 = from
    OBVIOUS
  <2> QED
    BY <1>1, <1>6, <2>1
<1>8. ASSUME NEW back \in 1..N, back - 1 \in T PROVE back \in T
  <2>1. at[back - 1] = past[from - (back - 1)] /\ back \in 0..N
    BY <1>1, <1>8
  <2>2. at[back] = step(at[back - 1], back)
    BY <1>6
  <2> QED
    BY <1>2, <2>1, <2>2
<1>9. T \in SUBSET Nat
  BY <1>1
<1> HIDE DEF T
<1>10. 0..N \subseteq T
  BY <1>1, <1>7, <1>8, <1>9, Upwards
<1>11. N \in T /\ from - N = v
  BY <1>1, <1>10
<1> QED
  BY <1>5, <1>11 DEF T

(* What is rebuilt is the version that was (reconstructBlocks). *)
LEMMA ReconstructFacts ==
  ASSUME HistoryInv, NEW v \in 1..document.version
  PROVE  LET rebuilt == Reconstruct(document, revisions, v)
         IN /\ rebuilt # None => rebuilt = past[v]
            /\ rebuilt = None => v + MaxRevisions <= document.version
<1> DEFINE kept0 == {r.version : r \in revisions}
           whole == {r.version : r \in {x \in revisions : x.snapshot # << >> /\ x.version >= v}}
           from == IF whole = {} THEN document.version ELSE CHOOSE w \in whole : \A z \in whole : w <= z
           blocks == IF whole = {} THEN document.blocks ELSE RowOf(revisions, from).snapshot
<1>1. Reconstruct(document, revisions, v) =
        IF ~(v..from \subseteq kept0) THEN None ELSE BackFrom(blocks, from, v, revisions)
  BY DEF Reconstruct
<1>2. kept0 = KeptUpTo(document.version) /\ document.version \in Nat
  BY DEF HistoryInv, Contiguous
<1>3. from \in v..document.version /\ blocks = past[from]
  <2>1. CASE whole = {}
    <3>1. from = document.version /\ blocks = document.blocks
      BY <2>1
    <3> HIDE DEF from, blocks, whole
    <3> QED
      BY <1>2, <3>1 DEF HistoryInv
  <2>2. CASE whole # {}
    <3>1. whole \in SUBSET Nat /\ \A w \in whole : w \in v..document.version
      BY <1>2 DEF HistoryInv, Contiguous, KeptUpTo
    <3>2. \E w \in whole : \A z \in whole : w <= z
      <4> HIDE DEF whole
      <4>1. PICK w \in whole : \A z \in whole : ~(z < w)
        BY <2>2, <3>1, LeastOf
      <4> QED
        BY <3>1, <4>1
    <3>3. from \in whole
      BY <2>2, <3>2
    <3>4. PICK r \in revisions : r.version = from /\ r.snapshot # << >>
      <4> HIDE DEF from
      <4> QED
        BY <3>3
    <3>5. RowOf(revisions, from) \in revisions /\ RowOf(revisions, from).version = from
      BY <3>4 DEF RowOf
    <3>6. RowOf(revisions, from) = r
      <4>1. \A x, y \in revisions : x.version = y.version => x = y
        BY DEF HistoryInv, Contiguous
      <4> HIDE DEF from
      <4> QED
        BY <3>4, <3>5, <4>1
    <3>7. r.snapshot = past[from]
      BY <3>4 DEF HistoryInv, RowTrue
    <3>8. from \in v..document.version
      BY <3>1, <3>3
    <3> QED
      BY <2>2, <3>6, <3>7, <3>8
  <2> QED
    BY <2>1, <2>2
<1> HIDE DEF kept0, from, blocks
<1>4. CASE v..from \subseteq kept0
  <2>1. from \in 1..document.version /\ v \in 1..from
    BY <1>2, <1>3
  <2>2. Reconstruct(document, revisions, v) = past[v]
    BY <1>1, <1>2, <1>3, <1>4, <2>1, BackFromFacts
  <2>3. past[v] # None
    BY EditingAssumption, ElementOfSeq DEF HistoryInv
  <2> QED
    BY <2>2, <2>3
<1>5. CASE ~(v..from \subseteq kept0)
  <2>1. PICK w \in v..from : w \notin KeptUpTo(document.version)
    BY <1>2, <1>5
  <2>2. MaxRevisions \in Nat
    BY WikiAssumption
  <2>3. v + MaxRevisions <= document.version
    BY <1>2, <1>3, <2>1, <2>2 DEF KeptUpTo
  <2>4. Reconstruct(document, revisions, v) = None
    BY <1>1, <1>5
  <2> QED
    BY <2>3, <2>4
<1> QED
  BY <1>4, <1>5

----------------------------------------------------------------------------
(* The server.                                                             *)
ServerInv ==
    /\ DocumentOK(document) /\ HistoryInv
    /\ done \ {None} \subseteq document.recent /\ again = {}

(* Storing a batch or a restore keeps the history true. *)
LEMMA StoreKeeps ==
  ASSUME ServerInv, NEW ops \in Seq(Ops), NEW actor \in {Me, Other}, NEW restored,
         Store(MergeOps(document, ops, actor), restored)
  PROVE  ServerInv'
<1> DEFINE r == MergeOps(document, ops, actor)
           m == Merged(document, ops, actor)
           V == document.version
<1>1. /\ DocumentOK(document) /\ HistoryInv /\ V \in Nat
  BY DEF ServerInv, DocumentOK, Documents
<1>2. /\ m \in Sound /\ m.took \cap document.recent = {}
      /\ UndoneAll(m.blocks, m.inverse) = document.blocks
  BY <1>1, MergedFacts
<1>3. /\ DocumentOK(r.document)
      /\ r.document.recent = document.recent \cup (m.applied \ {None})
      /\ ~r.bumped => r.document.blocks = document.blocks /\ r.document.version = V
      /\ r.bumped => r.document.blocks = m.blocks /\ r.document.version = V + 1
      /\ r.applied = m.applied /\ r.took = m.took /\ r.inverse = m.inverse
  BY <1>1, MergeOpsFacts
<1> HIDE DEF r, m
<1>4. /\ document' = r.document
      /\ revisions' = IF r.bumped THEN WithRevision(revisions, Revision(r, restored)) ELSE revisions
      /\ past' = IF r.bumped THEN Append(past, r.document.blocks) ELSE past
      /\ done' = done \cup r.applied
      /\ again' = again \cup ((r.took \cap done) \ {None})
  BY DEF Store, r
<1>5. DocumentOK(document)'
  BY <1>3, <1>4 DEF DocumentOK
<1>6. done' \ {None} \subseteq document'.recent /\ again' = {}
  BY <1>2, <1>3, <1>4 DEF ServerInv
<1>7. HistoryInv'
  <2>1. CASE ~r.bumped
    <3>1. past' = past /\ revisions' = revisions /\ document'.version = V /\ document'.blocks = document.blocks
      BY <1>3, <1>4, <2>1
    <3>2. \A x \in revisions : RowTrue(x)' <=> RowTrue(x)
      BY <3>1 DEF RowTrue
    <3> QED
      BY <1>1, <3>1, <3>2 DEF HistoryInv
  <2>2. CASE r.bumped
    <3>0. PICK row, page : row = Revision(r, restored) /\ page = r.document.blocks
      OBVIOUS
    <3>1. /\ document'.version = V + 1 /\ document'.blocks = page /\ page \in Seq(Blocks)
          /\ past' = Append(past, page) /\ revisions' = WithRevision(revisions, row)
          /\ UndoneAll(page, r.inverse) = document.blocks
      BY <1>2, <1>3, <1>4, <2>2, <3>0 DEF DocumentOK, Documents
    <3>2. row.version = V + 1 /\ row.inverse = r.inverse /\ (row.snapshot # << >> => row.snapshot = page)
      BY <1>3, <2>2, <3>0 DEF Revision
    <3>3. /\ past \in Seq(Seq(Blocks)) /\ Len(past) = V /\ past[V] = document.blocks /\ V \in Nat \ {0}
          /\ Contiguous(revisions, V) /\ \A x \in revisions : RowTrue(x)
      BY <1>1 DEF HistoryInv
    <3>4. /\ past' \in Seq(Seq(Blocks)) /\ Len(past') = V + 1 /\ past'[V + 1] = page
          /\ \A v \in 1..V : past'[v] = past[v]
      BY <3>1, <3>3, AppendProperties
    <3>5. Contiguous(revisions', V + 1) /\ revisions' \subseteq revisions \cup {row}
      BY <3>1, <3>2, <3>3, WithRevisionFacts
    <3>6. ASSUME NEW x \in revisions PROVE RowTrue(x)'
      <4>1. x.version \in 1..V /\ (x.version > 1 => x.version - 1 \in 1..V) /\ RowTrue(x)
        BY <3>3 DEF Contiguous, KeptUpTo
      <4> QED
        BY <3>4, <4>1 DEF RowTrue
    <3>7. RowTrue(row)'
      <4>1. V \in 1..V /\ (V + 1) - 1 = V
        BY <3>3
      <4>2. past'[V] = document.blocks /\ UndoneAll(past'[V + 1], row.inverse) = past'[V]
        BY <3>1, <3>2, <3>3, <3>4, <4>1
      <4> QED
        BY <3>2, <3>4, <4>1, <4>2 DEF RowTrue
    <3> HIDE DEF V
    <3>8. document'.version = V + 1 /\ V + 1 \in Nat \ {0} /\ document'.blocks = page
      BY <3>1, <3>3
    <3> QED
      BY <3>4, <3>5, <3>6, <3>7, <3>8 DEF HistoryInv
  <2> QED
    BY <2>1, <2>2
<1> QED
  BY <1>5, <1>6, <1>7 DEF ServerInv

LEMMA ServerStays ==
  ASSUME ServerInv, UNCHANGED <<document, revisions, past, done, again>>
  PROVE  ServerInv'
<1>1. HistoryInv'
  BY DEF ServerInv, HistoryInv, RowTrue
<1> QED
  BY <1>1 DEF ServerInv, DocumentOK

ClientTypes ==
    /\ queue \in Seq(Ops) /\ (flight = None \/ flight \in Requests)
    /\ view \in Seq([id : Int, seq : Nat]) /\ (\A id \in DOMAIN own : own[id] \in Nat)
    /\ orphans \in SUBSET Seq(Ops) /\ edits \in Nat /\ others \in Nat

WikiInv == ServerInv /\ ClientTypes /\ NothingStrands

LEMMA OpType ==
  ASSUME NEW kind \in {"insert", "update", "delete", "move"}, NEW n \in Nat, NEW id \in Int,
         NEW base \in Nat, NEW after \in Places
  PROVE  Op(kind, n, id, base, after) \in Ops /\ Op(kind, n, id, base, after).op = n
  BY DEF Op, Ops, Names, Places

LEMMA SeenType ==
  ASSUME NEW blocks \in Seq(Blocks)
  PROVE  Seen(blocks) \in Seq([id : Int, seq : Nat])
<1>1. Len(blocks) \in Nat /\ DOMAIN blocks = 1..Len(blocks) /\ \A i \in 1..Len(blocks) : blocks[i] \in Blocks
  BY LenProperties, ElementOfSeq
<1>2. Seen(blocks) \in [1..Len(blocks) -> [id : Int, seq : Nat]]
  BY <1>1 DEF Seen, Blocks
<1>3. PICK Row : Row = [id : Int, seq : Nat]
  OBVIOUS
<1>4. Seen(blocks) \in [1..Len(blocks) -> Row]
  BY <1>2, <1>3
<1>5. Seen(blocks) \in Seq(Row)
  BY <1>1, <1>4
<1> QED
  BY <1>3, <1>5

(* A new page keeps the invariant. *)
LEMMA InitWiki == Init => WikiInv
<1> SUFFICES ASSUME Init PROVE WikiInv
  OBVIOUS
<1> DEFINE b == Stamped(1, 1, 1, Other)
           first == <<b>>
<1>1. b \in Blocks /\ b.id = 1
  BY DEF Stamped, Blocks
<1> HIDE DEF b
<1>2. first \in Seq(Blocks) /\ first # << >> /\ Len(first) = 1 /\ first[1] = b /\ DOMAIN first = {1}
  BY <1>1
<1>3. << >> \in Seq(Tombs) /\ << >> \in Seq(Ops)
  OBVIOUS
<1> HIDE DEF first
<1>4. /\ document = [blocks |-> first, tombs |-> << >>, seq |-> 1, version |-> 1, recent |-> {}, recentLost |-> {}]
      /\ revisions = {[version |-> 1, inverse |-> << >>, overwrites |-> {}, lost |-> {}, snapshot |-> first]}
      /\ past = <<first>> /\ done = {} /\ again = {} /\ view = Seen(first)
  BY DEF Init, first, b
<1>5. DocumentOK(document)
  <2>1. UniqueIds(first)
    BY <1>2 DEF UniqueIds
  <2> QED
    BY <1>2, <1>3, <1>4, <2>1 DEF DocumentOK, Documents
<1>6. HistoryInv
  <2>1. past \in Seq(Seq(Blocks)) /\ Len(past) = 1 /\ past[1] = first
    BY <1>2, <1>4
  <2>2. KeptUpTo(1) = {1}
    BY WikiAssumption DEF KeptUpTo
  <2> QED
    BY <1>4, <2>1, <2>2 DEF HistoryInv, Contiguous, RowTrue
<1>7. view \in Seq([id : Int, seq : Nat])
  BY <1>2, <1>4, SeenType
<1> QED
  BY <1>3, <1>4, <1>5, <1>6, <1>7 DEF Init, WikiInv, ServerInv, ClientTypes, NothingStrands

----------------------------------------------------------------------------
(* The browser.                                                            *)
LEMMA BatchType ==
  ASSUME ClientTypes
  PROVE  Batch \in Seq(Ops) /\ [ops |-> Batch, answer |-> None] \in Requests
<1>1. CoalesceOps(queue) \in Seq(Ops)
  BY CoalesceType DEF ClientTypes
<1>2. Batch \in Seq(Ops)
  BY <1>1, BasedFacts DEF ClientTypes, Batch
<1> QED
  BY <1>2 DEF Requests

LEMMA MergedTypes ==
  ASSUME NEW m \in Sound
  PROVE  /\ m.applied \in SUBSET Names /\ m.rejected \in SUBSET [op : Names, dropped : BOOLEAN]
         /\ m.overwrites \in SUBSET Blocks
  BY DEF Sound, Merges

LEMMA FlightFacts ==
  ASSUME ClientTypes, flight # None
  PROVE  flight \in Requests /\ flight.ops \in Seq(Ops) /\ (flight.answer # None => flight.answer \in Answers)
  BY DEF ClientTypes, Requests

LEMMA SendsFacts ==
  ASSUME ClientTypes, Sends
  PROVE  flight' \in Requests /\ flight' # None
  BY BatchType, EditingAssumption DEF Sends

(* The answer is put beside the request. *)
LEMMA ServeFlight ==
  ASSUME WikiInv, Serve
  PROVE  /\ flight # None /\ flight.ops \in Seq(Ops)
         /\ flight' \in Requests /\ flight' # None /\ flight'.ops = flight.ops /\ flight'.answer \in Answers
         /\ flight'.answer.rejected = MergeOps(document, flight.ops, Me).rejected
<1>1. flight \in Requests /\ flight.ops \in Seq(Ops) /\ flight # None
  BY FlightFacts DEF Serve, WikiInv
<1> DEFINE r == MergeOps(document, flight.ops, Me)
           a == [blocks |-> r.document.blocks, applied |-> r.applied, rejected |-> r.rejected, overwrites |-> r.overwrites]
<1>2. a \in Answers
  <2> DEFINE m == Merged(document, flight.ops, Me)
  <2>1. DocumentOK(document)
    BY DEF WikiInv, ServerInv
  <2>2. m \in Sound /\ DocumentOK(r.document) /\ r.applied = m.applied /\ r.rejected = m.rejected /\ r.overwrites = m.overwrites
    BY <1>1, <2>1, MergedFacts, MergeOpsFacts
  <2>3. r.document.blocks \in Seq(Blocks)
    BY <2>2 DEF DocumentOK, Documents
  <2> HIDE DEF m, r
  <2> QED
    BY <2>2, <2>3, MergedTypes DEF Answers
<1>3. flight' = [flight EXCEPT !.answer = a]
  BY DEF Serve
<1>4. a.rejected = r.rejected
  OBVIOUS
<1>6. a \in Answers
  BY <1>2
<1> HIDE DEF a, r
<1>5. flight' \in Requests /\ flight'.ops = flight.ops /\ flight'.answer = a
  BY <1>1, <1>2, <1>3 DEF Requests
<1> QED
  BY <1>1, <1>4, <1>5, <1>6, EditingAssumption DEF r

LEMMA ServeKeeps == ASSUME WikiInv, Serve PROVE WikiInv'
<1>1. flight.ops \in Seq(Ops) /\ flight' \in Requests /\ flight' # None
  BY ServeFlight
<1>2. ServerInv'
  BY <1>1, StoreKeeps DEF Serve, WikiInv
<1>3. ClientTypes' /\ NothingStrands'
  BY <1>1 DEF ClientTypes, Serve, WikiInv, counters, NothingStrands
<1> QED
  BY <1>2, <1>3 DEF WikiInv

LEMMA ServeOrphanKeeps == ASSUME WikiInv, NEW ops, ServeOrphan(ops) PROVE WikiInv'
<1>1. ops \in Seq(Ops)
  BY DEF ServeOrphan, WikiInv, ClientTypes
<1>2. ServerInv'
  BY <1>1, StoreKeeps DEF ServeOrphan, WikiInv
<1>3. ClientTypes' /\ NothingStrands'
  BY DEF ServeOrphan, WikiInv, ClientTypes, NothingStrands, browser, counters
<1> QED
  BY <1>2, <1>3 DEF WikiInv

LEMMA OtherEditsKeeps == ASSUME WikiInv, NEW op \in Ops, OtherEdits(op) PROVE WikiInv'
<1>1. <<op>> \in Seq(Ops)
  OBVIOUS
<1>2. ServerInv'
  BY <1>1, StoreKeeps DEF OtherEdits, WikiInv
<1>3. ClientTypes' /\ NothingStrands'
  BY DEF OtherEdits, WikiInv, ClientTypes, NothingStrands, browser
<1> QED
  BY <1>2, <1>3 DEF WikiInv

LEMMA RestoreOps ==
  ASSUME WikiInv, NEW version \in 1..(document.version - 1), RestoreTo(version)
  PROVE  LET target == past[version]
             ops == DiffToOps(document.blocks, target)
         IN /\ ops \in Seq(Ops) /\ ops \in Seq(OwnOps(target)) /\ Store(MergeOps(document, ops, Other), TRUE)
            /\ version \in 1..Len(past)
<1> DEFINE target == Reconstruct(document, revisions, version)
<1>1. target # None /\ Store(MergeOps(document, DiffToOps(document.blocks, target), Other), TRUE)
  BY DEF RestoreTo
<1>2. target \in Seq(Blocks) /\ target = past[version] /\ version \in 1..Len(past)
  <2>1. HistoryInv /\ version \in 1..document.version /\ version \in 1..Len(past)
    BY DEF WikiInv, ServerInv, HistoryInv
  <2>2. target = past[version]
    BY <1>1, <2>1, ReconstructFacts
  <2> HIDE DEF target
  <2> QED
    BY <2>1, <2>2, ElementOfSeq DEF HistoryInv
<1> HIDE DEF target
<1>3. DiffToOps(document.blocks, target) \in Seq(OwnOps(target))
  BY <1>2, DiffToOpsType DEF WikiInv, ServerInv, DocumentOK, Documents
<1>4. DiffToOps(document.blocks, target) \in Seq(Ops)
  <2>1. OwnOps(target) \subseteq Ops
    BY DEF OwnOps
  <2> QED
    BY <1>3, <2>1
<1> QED
  BY <1>1, <1>2, <1>3, <1>4, Zenon

LEMMA RestoreToKeeps ==
  ASSUME WikiInv, NEW version \in 1..(document.version - 1), RestoreTo(version)
  PROVE  WikiInv'
<1>1. ServerInv'
  BY RestoreOps, StoreKeeps DEF WikiInv
<1>2. ClientTypes' /\ NothingStrands'
  BY DEF RestoreTo, WikiInv, ClientTypes, NothingStrands, browser
<1> QED
  BY <1>1, <1>2 DEF WikiInv

LEMMA PushKeeps ==
  ASSUME WikiInv, NEW op \in Ops, NEW structural \in BOOLEAN, Push(op, structural),
         view' \in Seq([id : Int, seq : Nat])
  PROVE  WikiInv'
<1>1. ServerInv'
  BY ServerStays DEF WikiInv, Push, server
<1>2. queue' \in Seq(Ops)
  <2> DEFINE left == IF structural /\ Flushes THEN << >> ELSE queue
  <2>1. left \in Seq(Ops)
    BY DEF WikiInv, ClientTypes
  <2> HIDE DEF left
  <2>2. Append(left, op) \in Seq(Ops)
    BY <2>1, AppendProperties
  <2>3. queue' = CoalesceOps(Append(left, op))
    BY DEF Push, left
  <2> QED
    BY <2>2, <2>3, CoalesceType
<1>3. flight' = None \/ flight' \in Requests
  BY SendsFacts DEF Push, WikiInv, ClientTypes
<1>4. edits' \in Nat /\ others' \in Nat /\ own' = own /\ orphans' = orphans /\ timer' = TRUE
  BY DEF Push, WikiInv, ClientTypes
<1>5. ClientTypes' /\ NothingStrands'
  BY <1>2, <1>3, <1>4 DEF WikiInv, ClientTypes, NothingStrands
<1> QED
  BY <1>1, <1>5 DEF WikiInv

LEMMA ViewFacts ==
  ASSUME ClientTypes, NEW i \in DOMAIN view
  PROVE  i \in 1..Len(view) /\ view[i] \in [id : Int, seq : Nat] /\ view[i].id \in Int /\ view[i].seq \in Nat
<1>1. view \in Seq([id : Int, seq : Nat])
  BY DEF ClientTypes
<1>2. i \in 1..Len(view)
  BY <1>1, LenProperties
<1>3. view[i] \in [id : Int, seq : Nat]
  BY <1>1, <1>2, ElementOfSeq
<1> QED
  BY <1>2, <1>3

LEMMA NumberType == ClientTypes => Number \in Nat /\ None \in Places
  BY DEF ClientTypes, Number, Places

LEMMA TypesKeeps == ASSUME WikiInv, NEW i \in DOMAIN view, Types(i) PROVE WikiInv'
<1>1. Op("update", Number, view[i].id, view[i].seq, None) \in Ops
  BY ViewFacts, NumberType, OpType DEF WikiInv
<1>2. view' \in Seq([id : Int, seq : Nat])
  BY DEF Types, WikiInv, ClientTypes
<1> QED
  BY <1>1, <1>2, PushKeeps DEF Types

LEMMA AddsKeeps == ASSUME WikiInv, NEW i \in 0..Len(view), Adds(i) PROVE WikiInv'
<1>1. Number \in Nat /\ None \in Places /\ view \in Seq([id : Int, seq : Nat])
  BY NumberType DEF WikiInv, ClientTypes
<1>2. (IF i = 0 THEN None ELSE view[i].id) \in Places
  <2>1. i # 0 => i \in DOMAIN view
    BY <1>1, LenProperties
  <2> QED
    BY <1>1, <2>1, ViewFacts DEF WikiInv, Places
<1>3. Op("insert", Number, Number, 0, IF i = 0 THEN None ELSE view[i].id) \in Ops
  <2>1. PICK after, n : after = (IF i = 0 THEN None ELSE view[i].id) /\ n = Number
    OBVIOUS
  <2>2. after \in Places /\ n \in Nat /\ n \in Int
    BY <1>1, <1>2, <2>1
  <2>3. Op("insert", n, n, 0, after) \in Ops
    BY <2>2, OpType
  <2> QED
    BY <2>1, <2>3
<1>4. view' \in Seq([id : Int, seq : Nat])
  <2>1. i + 1 \in 1..(Len(view) + 1) /\ [id |-> Number, seq |-> 0] \in [id : Int, seq : Nat]
    BY <1>1, LenProperties
  <2> QED
    BY <1>1, <2>1, InsertAtFacts DEF Adds
<1> QED
  BY <1>3, <1>4, PushKeeps DEF Adds

LEMMA DeletesKeeps == ASSUME WikiInv, NEW i \in DOMAIN view, Deletes(i) PROVE WikiInv'
<1>1. Op("delete", Number, view[i].id, 0, None) \in Ops
  BY ViewFacts, NumberType, OpType DEF WikiInv
<1>2. view' \in Seq([id : Int, seq : Nat])
  BY ViewFacts, RemoveAtFacts DEF Deletes, WikiInv, ClientTypes
<1> QED
  BY <1>1, <1>2, PushKeeps DEF Deletes

LEMMA MovesKeeps == ASSUME WikiInv, NEW i \in DOMAIN view, NEW to \in 0..Len(view), Moves(i, to) PROVE WikiInv'
<1>1. Number \in Nat /\ None \in Places /\ view \in Seq([id : Int, seq : Nat]) /\ Len(view) \in Nat
  BY NumberType, LenProperties DEF WikiInv, ClientTypes
<1>2. i \in 1..Len(view) /\ view[i] \in [id : Int, seq : Nat] /\ view[i].id \in Int
  BY ViewFacts DEF WikiInv
<1>3. (IF to = 0 THEN None ELSE view[to].id) \in Places
  <2>1. to # 0 => to \in DOMAIN view
    BY <1>1, LenProperties
  <2> QED
    BY <1>1, <2>1, ViewFacts DEF WikiInv, Places
<1>4. Op("move", Number, view[i].id, 0, IF to = 0 THEN None ELSE view[to].id) \in Ops
  BY <1>1, <1>2, <1>3, OpType
<1>5. view' \in Seq([id : Int, seq : Nat])
  <2> DEFINE rest == RemoveAt(view, i)
             k == IF to < i THEN to + 1 ELSE to
  <2>1. rest \in Seq([id : Int, seq : Nat]) /\ Len(rest) = Len(view) - 1
    BY <1>1, <1>2, RemoveAtFacts
  <2>2. k \in 1..(Len(rest) + 1)
    BY <1>1, <1>2, <2>1
  <2>3. view' = InsertAt(rest, k, view[i])
    BY DEF Moves
  <2> HIDE DEF rest, k
  <2> QED
    BY <1>2, <2>1, <2>2, <2>3, InsertAtFacts
<1> QED
  BY <1>4, <1>5, PushKeeps DEF Moves

LEMMA TimerFiresKeeps == ASSUME WikiInv, TimerFires PROVE WikiInv'
<1>1. ServerInv'
  BY ServerStays DEF WikiInv, TimerFires, server
<1>2. << >> \in Seq(Ops)
  OBVIOUS
<1>5. ClientTypes' /\ NothingStrands'
  <2>1. CASE Flushes
    <3>1. flight' \in Requests /\ queue' = << >>
      BY <2>1, SendsFacts DEF TimerFires, WikiInv
    <3> QED
      BY <1>2, <3>1 DEF TimerFires, WikiInv, ClientTypes, NothingStrands, counters
  <2>2. CASE ~Flushes
    BY <2>2 DEF TimerFires, WikiInv, ClientTypes, NothingStrands, counters, Flushes
  <2> QED
    BY <2>1, <2>2
<1> QED
  BY <1>1, <1>5 DEF WikiInv

LEMMA ReceiveKeeps == ASSUME WikiInv, Receive PROVE WikiInv'
<1>1. ServerInv'
  BY ServerStays DEF WikiInv, Receive, server
<1> DEFINE a == flight.answer
           alive == {a.blocks[i].id : i \in DOMAIN a.blocks}
           mine == {id \in alive : /\ a.blocks[Index(a.blocks, id)].by = Me
                                   /\ \E i \in DOMAIN flight.ops : flight.ops[i].id = id /\ flight.ops[i].op \in a.applied}
<1>2. a \in Answers /\ a.blocks \in Seq(Blocks)
  BY FlightFacts DEF Receive, WikiInv, Answers
<1> HIDE DEF a
<1>3. \A id \in alive : a.blocks[Index(a.blocks, id)] \in Blocks
  <2> TAKE id \in alive
  <2>1. Has(a.blocks, id)
    BY DEF Has
  <2> QED
    BY <1>2, <2>1, IndexFacts, ElementOfSeq
<1>4. own' = [id \in mine \cup (DOMAIN own \cap alive) |->
                IF id \in mine THEN a.blocks[Index(a.blocks, id)].seq ELSE own[id]]
  BY DEF Receive, a
<1>5. mine \subseteq alive
  OBVIOUS
<1> HIDE DEF mine, alive
<1>6. \A id \in DOMAIN own' : own'[id] \in Nat
  BY <1>3, <1>4, <1>5 DEF WikiInv, ClientTypes, Blocks
<1>7. view' \in Seq([id : Int, seq : Nat])
  <2>1. view' = Seen(a.blocks)
    BY DEF Receive, a
  <2> QED
    BY <1>2, <2>1, SeenType
<1>8. ClientTypes' /\ NothingStrands'
  BY <1>6, <1>7 DEF Receive, WikiInv, ClientTypes, NothingStrands, Rescheduled, counters
<1> QED
  BY <1>1, <1>8 DEF WikiInv

LEMMA FetchFailsKeeps == ASSUME WikiInv, FetchFails PROVE WikiInv'
<1>1. ServerInv'
  BY ServerStays DEF WikiInv, FetchFails, server
<1>2. flight.ops \in Seq(Ops) /\ queue \in Seq(Ops)
  BY FlightFacts DEF FetchFails, WikiInv, ClientTypes
<1>3. queue' \in Seq(Ops)
  BY <1>2, ConcatProperties DEF FetchFails
<1>4. orphans' \in SUBSET Seq(Ops)
  BY <1>2 DEF FetchFails, WikiInv, ClientTypes
<1>5. ClientTypes' /\ NothingStrands'
  BY <1>3, <1>4 DEF FetchFails, WikiInv, ClientTypes, NothingStrands
<1> QED
  BY <1>1, <1>5 DEF WikiInv

LEMMA HidesKeeps == ASSUME WikiInv, Hides PROVE WikiInv'
<1>1. ServerInv'
  BY ServerStays DEF WikiInv, Hides, server
<1>2. orphans' \in SUBSET Seq(Ops)
  BY BatchType DEF Hides, WikiInv, ClientTypes
<1>3. ClientTypes' /\ NothingStrands'
  BY <1>2 DEF Hides, WikiInv, ClientTypes, NothingStrands, browser
<1> QED
  BY <1>1, <1>3 DEF WikiInv

LEMMA PressesKeeps == ASSUME WikiInv, Presses PROVE WikiInv'
<1>1. ServerInv'
  BY ServerStays DEF WikiInv, Presses, server
<1>2. << >> \in Seq(Ops)
  OBVIOUS
<1>3. flight' \in Requests
  BY SendsFacts DEF Presses, WikiInv
<1>4. ClientTypes' /\ NothingStrands'
  BY <1>2, <1>3 DEF Presses, WikiInv, ClientTypes, NothingStrands, counters
<1> QED
  BY <1>1, <1>4 DEF WikiInv

LEMMA ReloadsKeeps == ASSUME WikiInv, Reloads PROVE WikiInv'
<1>1. ServerInv'
  BY ServerStays DEF WikiInv, Reloads, server, history
<1>2. view' \in Seq([id : Int, seq : Nat])
  BY SeenType DEF Reloads, WikiInv, ServerInv, DocumentOK, Documents
<1>3. ClientTypes' /\ NothingStrands'
  BY <1>2 DEF Reloads, WikiInv, ClientTypes, NothingStrands, counters
<1> QED
  BY <1>1, <1>3 DEF WikiInv

LEMMA RefusedKeeps == ASSUME WikiInv, Refused PROVE WikiInv'
<1>1. ServerInv'
  BY ServerStays DEF WikiInv, Refused, server
<1>2. ClientTypes' /\ NothingStrands'
  BY DEF Refused, WikiInv, ClientTypes, NothingStrands
<1> QED
  BY <1>1, <1>2 DEF WikiInv

(* What an edit of somebody else may be. *)
LEMMA OtherOps ==
  ASSUME WikiInv, NEW id \in {b.id : b \in ToSet(past[1]) \cup ToSet(document.blocks)}, NEW base \in {0, document.seq}
  PROVE  /\ Op("update", Number, id, base, None) \in Ops /\ Op("delete", Number, id, 0, None) \in Ops
         /\ Op("insert", Number, Number, 0, id) \in Ops
<1>1. past[1] \in Seq(Blocks) /\ document.blocks \in Seq(Blocks) /\ document.seq \in Nat
  <2>1. past \in Seq(Seq(Blocks)) /\ 1 \in 1..Len(past)
    BY DEF WikiInv, ServerInv, HistoryInv
  <2> QED
    BY <2>1, ElementOfSeq DEF WikiInv, ServerInv, DocumentOK, Documents
<1>2. ToSet(past[1]) \subseteq Blocks /\ ToSet(document.blocks) \subseteq Blocks
  BY <1>1, ElementOfSeq, LenProperties DEF ToSet
<1>3. id \in Int /\ id \in Places /\ base \in Nat
  BY <1>1, <1>2 DEF Blocks, Places
<1>4. Number \in Nat /\ None \in Places /\ 0 \in Nat /\ Number \in Int
  BY NumberType DEF WikiInv
<1> QED
  BY <1>3, <1>4, OpType

(* Every step keeps the invariant. *)
LEMMA NextWiki == ASSUME WikiInv, [Next]_vars PROVE WikiInv'
<1>1. CASE Serve
  BY <1>1, ServeKeeps
<1>2. CASE TimerFires
  BY <1>2, TimerFiresKeeps
<1>3. CASE Receive
  BY <1>3, ReceiveKeeps
<1>4. CASE FetchFails
  BY <1>4, FetchFailsKeeps
<1>5. CASE Refused
  BY <1>5, RefusedKeeps
<1>6. CASE Hides
  BY <1>6, HidesKeeps
<1>7. CASE Presses
  BY <1>7, PressesKeeps
<1>8. CASE Reloads
  BY <1>8, ReloadsKeeps
<1>9. ASSUME NEW ops \in orphans, ServeOrphan(ops) PROVE WikiInv'
  BY <1>9, ServeOrphanKeeps
<1>10. ASSUME NEW i \in DOMAIN view, Types(i) \/ Deletes(i) \/ \E to \in 0..Len(view) : Moves(i, to) PROVE WikiInv'
  BY <1>10, TypesKeeps, DeletesKeeps, MovesKeeps
<1>11. ASSUME NEW i \in 0..Len(view), Adds(i) PROVE WikiInv'
  BY <1>11, AddsKeeps
<1>12. ASSUME NEW id \in {b.id : b \in ToSet(past[1]) \cup ToSet(document.blocks)}, NEW base \in {0, document.seq},
              \/ OtherEdits(Op("update", Number, id, base, None))
              \/ base = 0 /\ OtherEdits(Op("delete", Number, id, 0, None))
              \/ base = 0 /\ OtherEdits(Op("insert", Number, Number, 0, id))
       PROVE  WikiInv'
  BY <1>12, OtherOps, OtherEditsKeeps
<1>13. ASSUME NEW version \in 1..(document.version - 1), RestoreTo(version) PROVE WikiInv'
  BY <1>13, RestoreToKeeps
<1>14. CASE UNCHANGED vars
  <2>1. ServerInv'
    BY <1>14, ServerStays DEF WikiInv, vars, server, history
  <2> QED
    BY <1>14, <2>1 DEF WikiInv, ClientTypes, NothingStrands, vars, browser, counters
<1> QED
  BY <1>1, <1>2, <1>3, <1>4, <1>5, <1>6, <1>7, <1>8, <1>9, <1>10, <1>11, <1>12, <1>13, <1>14 DEF Next

(* The page, its history and its window of ids, the types of what is in the *)
(* browser and on the way, and that nothing strands, hold in every state.   *)
THEOREM WikiInductive == Spec => []WikiInv
<1>1. Init => WikiInv
  BY InitWiki
<1>2. WikiInv /\ [Next]_vars => WikiInv'
  BY NextWiki
<1> QED
  BY <1>1, <1>2, PTL DEF Spec

(* The history is true (wiki-revisions.mjs): every version that is kept is  *)
(* rebuilt as it was.                                                       *)
THEOREM HistoryAlwaysTrue == Spec => []HistoryIsTrue
<1>1. ASSUME WikiInv PROVE HistoryIsTrue
  <2>1. HistoryInv
    BY <1>1 DEF WikiInv, ServerInv
  <2>2. ASSUME NEW v \in 1..document.version
        PROVE  LET rebuilt == Reconstruct(document, revisions, v)
               IN (rebuilt # None => rebuilt = past[v]) /\ (rebuilt = None => v + MaxRevisions <= document.version)
    BY <2>1, ReconstructFacts
  <2> QED
    BY <2>2, Zenon DEF HistoryIsTrue
<1> QED
  BY <1>1, WikiInductive, PTL

(* An op that was answered as applied changes the document no more          *)
(* (mergeOps, the window of op ids), however often it arrives.              *)
THEOREM AlwaysAppliedOnce == Spec => []AppliedOnce
<1>1. WikiInv => AppliedOnce
  BY DEF WikiInv, ServerInv, AppliedOnce
<1> QED
  BY <1>1, WikiInductive, PTL

(* What was typed does not lie about in the queue (wikiOps.ts).             *)
THEOREM NothingEverStrands == Spec => []NothingStrands
<1>1. WikiInv => NothingStrands
  BY DEF WikiInv
<1> QED
  BY <1>1, WikiInductive, PTL

----------------------------------------------------------------------------
(* The texts of a batch.                                                   *)
(* What a batch does with the texts of its ops: each is held, was known, or *)
(* is reported as given up; and what is newly known is held.                *)
LEMMA BatchTexts ==
  ASSUME NEW d, DocumentOK(d), NEW ops \in Seq(Ops), NEW actor \in {Me, Other}
  PROVE  LET m == Merged(d, ops, actor)
         IN /\ \A op \in ToSet(ops) : op.text # None =>
                  \/ op.text \in Holds(m) \/ op.op \in d.recent \cup d.recentLost
                  \/ [op |-> op.op, dropped |-> TRUE] \in m.rejected
            /\ \A id \in m.applied \cup m.lostOps : \E op \in ToSet(ops) :
                  op.op = id /\ (op.text = None \/ op.text \in Holds(m) \/ id \in d.recent)
<1> DEFINE start == Starting(d)
           filler == 0 - d.version
           last == MergeAll(start, ops, actor)
           m == Filled(last, filler, actor)
           known == d.recent \cup d.recentLost
<1>1. /\ start \in Sound /\ start.recent = d.recent /\ start.lostBefore = d.recentLost
      /\ start.applied = {} /\ start.lostOps = {} /\ filler \in Int
  BY StartingFacts DEF Starting, DocumentOK, Documents
<1> HIDE DEF start, filler
<1>2. PICK run : Run(run, start, ops, actor) /\ last = run[Len(ops)]
  BY <1>1, MergeAllRuns
<1>3. Len(ops) \in Nat /\ DOMAIN ops = 1..Len(ops) /\ \A n \in 1..Len(ops) : ops[n] \in Ops
  BY LenProperties, ElementOfSeq
<1> DEFINE Fate(x, op) == op.text # None =>
                 \/ op.text \in Holds(x) \/ op.op \in known
                 \/ [op |-> op.op, dropped |-> TRUE] \in x.rejected
           From(x, id, n) == \E k \in 1..n : ops[k].op = id /\ (ops[k].text = None \/ ops[k].text \in Holds(x) \/ id \in d.recent)
           OK(x, n) == /\ x.recent = d.recent /\ x.lostBefore = d.recentLost
                       /\ \A k \in 1..n : Fate(x, ops[k])
                       /\ \A id \in x.applied \cup x.lostOps : From(x, id, n)
           T == {n \in 0..Len(ops) : OK(run[n], n)}
<1>4. 0 \in T
  BY <1>1, <1>2, <1>3 DEF Run
<1>5. ASSUME NEW n \in 1..Len(ops), n - 1 \in T PROVE n \in T
  <2> DEFINE x == run[n - 1]
             y == run[n]
             op == ops[n]
  <2>1. n \in 0..Len(ops) /\ n - 1 \in 0..Len(ops)
    BY <1>3
  <2>2. x \in Sound /\ y = MergeOp(x, op, actor) /\ op \in Ops
    BY <1>2, <1>3, <2>1 DEF Run
  <2>3. OK(x, n - 1)
    BY <1>5
  <2> HIDE DEF x, y
  <2>4. Taken(x, y, op) /\ Given(x, y, op)
    BY <2>2, MergeOpFacts DEF Sound
  <2>5. /\ y.recent = d.recent /\ y.lostBefore = d.recentLost
        /\ Holds(x) \subseteq Holds(y) /\ x.rejected \subseteq y.rejected
        /\ y.applied \cup y.lostOps \subseteq x.applied \cup x.lostOps \cup {op.op}
    BY <2>3, <2>4 DEF Taken, Given
  <2>6. ASSUME NEW k \in 1..n PROVE Fate(y, ops[k])
    <3>1. CASE k = n
      BY <2>3, <2>4, <3>1 DEF Given
    <3>2. CASE k # n
      <4>1. k \in 1..(n - 1)
        BY <1>3, <3>2
      <4>2. Fate(x, ops[k])
        BY <2>3, <4>1
      <4> QED
        BY <2>5, <4>2
    <3> QED
      BY <3>1, <3>2
  <2>7. ASSUME NEW id \in y.applied \cup y.lostOps PROVE From(y, id, n)
    <3>1. CASE id \in x.applied \cup x.lostOps
      <4>1. PICK k \in 1..(n - 1) : ops[k].op = id /\ (ops[k].text = None \/ ops[k].text \in Holds(x) \/ id \in d.recent)
        BY <2>3, <3>1
      <4>2. k \in 1..n
        BY <1>3
      <4> QED
        BY <2>5, <4>1, <4>2
    <3>2. CASE id \notin x.applied \cup x.lostOps
      <4>1. id = op.op /\ ~(y.lostOps = x.lostOps /\ y.applied = x.applied) /\ n \in 1..n
        BY <1>3, <2>5, <3>2
      <4>2. op.text = None \/ op.text \in Holds(y) \/ op.op \in d.recent
        BY <2>3, <2>4, <4>1 DEF Given
      <4> QED
        BY <4>1, <4>2
    <3> QED
      BY <3>1, <3>2
  <2> HIDE DEF Fate, From
  <2>8. OK(y, n)
    BY <2>5, <2>6, <2>7
  <2> QED
    BY <2>1, <2>8 DEF y
<1>6. OK(last, Len(ops)) /\ last \in Sound
  <2>1. T \in SUBSET Nat
    BY <1>3
  <2> HIDE DEF T, last
  <2>2. Len(ops) \in T
    BY <1>4, <1>5, <2>1, RunsUp
  <2> QED
    BY <1>2, <1>3, <2>2 DEF T, Run
<1> HIDE DEF last
<1>7. Holds(last) \subseteq Holds(m) /\ m.rejected = last.rejected /\ m.applied = last.applied /\ m.lostOps = last.lostOps
  BY <1>1, <1>6, FilledFacts
<1>8. Merged(d, ops, actor) = m
  BY DEF Merged, m, last, start, filler
<1> HIDE DEF m
<1>9. \A op \in ToSet(ops) : \E k \in 1..Len(ops) : op = ops[k]
  BY <1>3 DEF ToSet
<1>10. \A k \in 1..Len(ops) : ops[k] \in ToSet(ops)
  BY <1>3 DEF ToSet
<1>11. ASSUME NEW op \in ToSet(ops), op.text # None
       PROVE  op.text \in Holds(m) \/ op.op \in known \/ [op |-> op.op, dropped |-> TRUE] \in m.rejected
  BY <1>6, <1>7, <1>9, <1>11
<1>12. ASSUME NEW id \in m.applied \cup m.lostOps
       PROVE  \E op \in ToSet(ops) : op.op = id /\ (op.text = None \/ op.text \in Holds(m) \/ id \in d.recent)
  BY <1>6, <1>7, <1>10
<1> QED
  BY <1>8, <1>11, <1>12

Known == document.recent \cup document.recentLost

(* Storing a batch keeps what was kept; what is newly known was in it.      *)
LEMMA StoreTexts ==
  ASSUME DocumentOK(document), NEW ops \in Seq(Ops), NEW actor \in {Me, Other}, NEW restored,
         Store(MergeOps(document, ops, actor), restored)
  PROVE  /\ kept \subseteq kept' /\ Known \subseteq Known'
         /\ \A op \in ToSet(ops) : op.text # None =>
               \/ op.text \in kept' \/ op.op \in Known
               \/ [op |-> op.op, dropped |-> TRUE] \in MergeOps(document, ops, actor).rejected
         /\ \A id \in Known' \ Known : \E op \in ToSet(ops) :
               op.op = id /\ (op.text = None \/ op.text \in kept')
<1> DEFINE m == Merged(document, ops, actor)
           r == MergeOps(document, ops, actor)
           d == document
<1>1. /\ r.bumped = (m.took # {} \/ m.lost # {})
      /\ r.document.recent = d.recent \cup (m.applied \ {None})
      /\ ~r.bumped => r.document.blocks = d.blocks /\ r.document.recentLost = d.recentLost
      /\ r.bumped => r.document.blocks = m.blocks /\ r.document.recentLost = d.recentLost \cup m.lostOps
      /\ r.rejected = m.rejected /\ r.lost = m.lost /\ r.inverse = m.inverse
  BY MergeOpsFacts, SMTT(60)
<1>2. m.took = {} => m.blocks = d.blocks
  BY MergedFacts
<1>3. /\ \A op \in ToSet(ops) : op.text # None =>
                  \/ op.text \in Holds(m) \/ op.op \in Known
                  \/ [op |-> op.op, dropped |-> TRUE] \in m.rejected
      /\ \A id \in m.applied \cup m.lostOps : \E op \in ToSet(ops) :
                  op.op = id /\ (op.text = None \/ op.text \in Holds(m) \/ id \in d.recent)
  BY BatchTexts DEF Known
<1> HIDE DEF m, r
<1>4. r.document.blocks = m.blocks
  BY <1>1, <1>2
<1>5. /\ document' = r.document
      /\ kept' = kept \cup TextsOf(r.document.blocks) \cup r.lost
                    \cup {b.text : b \in r.overwrites}
                    \cup {e.block.text : e \in {x \in ToSet(r.inverse) : "block" \in DOMAIN x}}
  BY DEF Store, r
<1>6. Holds(m) \subseteq kept' /\ kept \subseteq kept'
  BY <1>1, <1>4, <1>5 DEF Holds, Saved
<1>7. Known \subseteq Known' /\ Known' \ Known \subseteq (m.applied \cup m.lostOps) \ d.recent
  BY <1>1, <1>5 DEF Known
<1> HIDE DEF d
<1> QED
  BY <1>1, <1>3, <1>6, <1>7 DEF r

----------------------------------------------------------------------------
(* What is folded in a queue.                                              *)
(* Folding.  No op of a flat list folds into the one before it.             *)
Flat(ops) == \A i \in 2..Len(ops) : ~Folds(ops[i - 1], ops[i])
Distinct(ops) == \A i, j \in 1..Len(ops) : ops[i].op = ops[j].op => i = j

LEMMA FoldFacts ==
  ASSUME NEW last \in Ops, NEW op \in Ops, Folds(last, op)
  PROVE  LET f == Fold(last, op) IN
         /\ f \in Ops /\ f.kind = last.kind /\ f.id = last.id /\ f.id = op.id /\ f.text = op.text
         /\ f.op = IF last.kind = "insert" THEN last.op ELSE op.op
<1>1. last.kind \in {"insert", "update"} /\ op.kind = "update" /\ op.text \in Nat /\ op.op \in Names /\ last.id = op.id
  BY DEF Folds, Ops
<1> QED
  BY <1>1 DEF Fold, Ops

LEMMA Numbered ==
  ASSUME NEW ops \in Seq(Ops)
  PROVE  /\ Len(ops) \in Nat /\ DOMAIN ops = 1..Len(ops)
         /\ ToSet(ops) = {ops[i] : i \in 1..Len(ops)} /\ OpIds(ops) = {ops[i].op : i \in 1..Len(ops)}
         /\ ToSet(ops) \subseteq Ops /\ \A i \in 1..Len(ops) : ops[i] \in Ops
  BY LenProperties, ElementOfSeq DEF ToSet, OpIds

(* An op more in a queue: it is last, or folded into the last (coalesceOps). *)
LEMMA PushedOps ==
  ASSUME NEW q \in Seq(Ops), NEW op \in Ops
  PROVE  LET p == Pushed(q, op) IN
         /\ \A c \in ToSet(p) : \/ c \in ToSet(q) \cup {op}
                                \/ q # << >> /\ Folds(Last(q), op) /\ c = Fold(Last(q), op)
         /\ OpIds(p) \subseteq OpIds(q) \cup {op.op}
         /\ Last(p).id = op.id /\ (Last(p) = op \/ op.kind = "update")
<1> DEFINE p == Pushed(q, op)
           f == Fold(Last(q), op)
<1>1. /\ p \in Seq(Ops) /\ p # << >> /\ Last(p) = p[Len(p)] /\ Len(p) \in Nat \ {0}
      /\ q # << >> => Last(q) \in Ops /\ Len(q) \in Nat \ {0} /\ Last(q) = q[Len(q)]
  BY PushedFacts
<1>2. CASE q # << >> /\ Folds(Last(q), op)
  <2>1. /\ Len(p) = Len(q) /\ \A i \in 1..Len(q) : p[i] = IF i = Len(q) THEN f ELSE q[i]
    BY <1>2, PushedFacts
  <2>2. f.id = op.id /\ op.kind = "update" /\ (f.op = op.op \/ f.op = q[Len(q)].op)
    BY <1>1, <1>2, FoldFacts DEF Folds
  <2> HIDE DEF p, f
  <2>3. ToSet(p) \subseteq ToSet(q) \cup {f}
    BY <1>1, <2>1, Numbered
  <2>4. OpIds(p) \subseteq OpIds(q) \cup {op.op}
    BY <1>1, <1>2, <2>1, <2>2, Numbered
  <2>5. Last(p) = f
    BY <1>1, <1>2, <2>1
  <2> QED
    BY <1>2, <2>2, <2>3, <2>4, <2>5 DEF p, f
<1>3. CASE ~(q # << >> /\ Folds(Last(q), op))
  <2>1. Len(p) = Len(q) + 1 /\ \A i \in 1..(Len(q) + 1) : p[i] = IF i = Len(q) + 1 THEN op ELSE q[i]
    BY <1>3, PushedFacts
  <2> HIDE DEF p
  <2>2. Len(q) \in Nat
    BY LenProperties
  <2>3. ToSet(p) \subseteq ToSet(q) \cup {op} /\ OpIds(p) \subseteq OpIds(q) \cup {op.op}
    BY <1>1, <2>1, <2>2, Numbered
  <2>4. Last(p) = op
    BY <1>1, <2>1, <2>2
  <2> QED
    BY <2>3, <2>4 DEF p
<1> QED
  BY <1>2, <1>3

LEMMA PushedDistinct ==
  ASSUME NEW q \in Seq(Ops), NEW op \in Ops, Distinct(q), op.op \notin OpIds(q)
  PROVE  Distinct(Pushed(q, op))
<1> DEFINE p == Pushed(q, op)
           f == Fold(Last(q), op)
<1>1. /\ p \in Seq(Ops) /\ Len(q) \in Nat
      /\ q # << >> => Last(q) \in Ops /\ Len(q) \in Nat \ {0} /\ Last(q) = q[Len(q)]
  BY PushedFacts, LenProperties
<1>2. \A i \in 1..Len(q) : q[i].op # op.op
  BY Numbered
<1>3. CASE q # << >> /\ Folds(Last(q), op)
  <2>1. /\ Len(p) = Len(q) /\ \A i \in 1..Len(q) : p[i] = IF i = Len(q) THEN f ELSE q[i]
    BY <1>3, PushedFacts
  <2>2. f.op = op.op \/ f.op = q[Len(q)].op
    BY <1>1, <1>3, FoldFacts
  <2> HIDE DEF p, f
  <2> QED
    BY <1>1, <1>2, <1>3, <2>1, <2>2 DEF Distinct, p
<1>4. CASE ~(q # << >> /\ Folds(Last(q), op))
  <2>1. Len(p) = Len(q) + 1 /\ \A i \in 1..(Len(q) + 1) : p[i] = IF i = Len(q) + 1 THEN op ELSE q[i]
    BY <1>4, PushedFacts
  <2> HIDE DEF p
  <2> QED
    BY <1>1, <1>2, <2>1 DEF Distinct, p
<1> QED
  BY <1>3, <1>4

LEMMA PushedFlat ==
  ASSUME NEW q \in Seq(Ops), NEW op \in Ops, Flat(q)
  PROVE  Flat(Pushed(q, op))
<1> DEFINE p == Pushed(q, op)
           f == Fold(Last(q), op)
<1>1. /\ p \in Seq(Ops) /\ Len(q) \in Nat
      /\ q # << >> => Last(q) \in Ops /\ Len(q) \in Nat \ {0} /\ Last(q) = q[Len(q)]
  BY PushedFacts, LenProperties
<1>3. CASE q # << >> /\ Folds(Last(q), op)
  <2>1. /\ Len(p) = Len(q) /\ \A i \in 1..Len(q) : p[i] = IF i = Len(q) THEN f ELSE q[i]
    BY <1>3, PushedFacts
  <2>2. f.kind = q[Len(q)].kind /\ f.id = q[Len(q)].id
    BY <1>1, <1>3, FoldFacts
  <2> HIDE DEF p, f
  <2>3. ASSUME NEW i \in 2..Len(p) PROVE ~Folds(p[i - 1], p[i])
    <3>1. i \in 2..Len(q) /\ i - 1 \in 1..Len(q) /\ i \in 1..Len(q) /\ i - 1 # Len(q)
      BY <1>1, <2>1
    <3>2. p[i - 1] = q[i - 1] /\ p[i].kind = q[i].kind /\ p[i].id = q[i].id
      BY <2>1, <2>2, <3>1
    <3>3. ~Folds(q[i - 1], q[i])
      BY <3>1 DEF Flat
    <3> QED
      BY <3>2, <3>3 DEF Folds
  <2> QED
    BY <2>3 DEF Flat, p
<1>4. CASE ~(q # << >> /\ Folds(Last(q), op))
  <2>1. Len(p) = Len(q) + 1 /\ \A i \in 1..(Len(q) + 1) : p[i] = IF i = Len(q) + 1 THEN op ELSE q[i]
    BY <1>4, PushedFacts
  <2> HIDE DEF p
  <2>2. ASSUME NEW i \in 2..Len(p) PROVE ~Folds(p[i - 1], p[i])
    <3>1. CASE i = Len(q) + 1
      <4>1. q # << >> /\ Len(q) \in 1..Len(q) + 1
        BY <1>1, <3>1
      <4>2. p[i] = op /\ p[i - 1] = Last(q)
        BY <1>1, <2>1, <3>1, <4>1
      <4> QED
        BY <1>4, <4>1, <4>2
    <3>2. CASE i # Len(q) + 1
      <4>1. i \in 2..Len(q) /\ i - 1 \in 1..Len(q) /\ p[i] = q[i] /\ p[i - 1] = q[i - 1]
        BY <1>1, <2>1, <3>2
      <4> QED
        BY <4>1 DEF Flat
    <3> QED
      BY <3>1, <3>2
  <2> QED
    BY <2>2 DEF Flat, p
<1> QED
  BY <1>3, <1>4

(* What holds of the empty queue and is kept by each op holds of the queue. *)
LEMMA Coalesced ==
  ASSUME NEW ops \in Seq(Ops), NEW q, Coalescing(q, ops)
  PROVE  /\ Flat(q[Len(ops)]) /\ OpIds(q[Len(ops)]) \subseteq OpIds(ops)
         /\ Distinct(ops) => Distinct(q[Len(ops)])
<1>1. Len(ops) \in Nat /\ OpIds(ops) = {ops[i].op : i \in 1..Len(ops)} /\ \A i \in 1..Len(ops) : ops[i] \in Ops
  BY Numbered
<1> DEFINE upto(n) == {ops[i].op : i \in 1..n}
           OK(x, n) == Flat(x) /\ OpIds(x) \subseteq upto(n) /\ (Distinct(ops) => Distinct(x))
           T == {n \in 0..Len(ops) : OK(q[n], n)}
<1>2. 0 \in T
  BY <1>1 DEF Coalescing, Flat, OpIds, Distinct
<1>3. ASSUME NEW n \in 1..Len(ops), n - 1 \in T PROVE n \in T
  <2> DEFINE x == q[n - 1]
             y == q[n]
             op == ops[n]
  <2>1. n \in 0..Len(ops) /\ n - 1 \in 0..Len(ops)
    BY <1>1
  <2>2. x \in Seq(Ops) /\ y = Pushed(x, op) /\ op \in Ops
    BY <1>1, <2>1 DEF Coalescing
  <2>3. OK(x, n - 1)
    BY <1>3
  <2>4. upto(n) = upto(n - 1) \cup {op.op}
    BY <1>1, <2>1
  <2>5. Distinct(ops) => op.op \notin upto(n - 1)
    BY <1>1, <2>1 DEF Distinct
  <2> HIDE DEF x, y, upto, op
  <2>6. Flat(y) /\ OpIds(y) \subseteq OpIds(x) \cup {op.op}
    BY <2>2, <2>3, PushedFlat, PushedOps
  <2>7. Distinct(ops) => Distinct(y)
    BY <2>2, <2>3, <2>5, PushedDistinct
  <2>8. OK(y, n)
    BY <2>3, <2>4, <2>6, <2>7
  <2> QED
    BY <2>1, <2>8 DEF y
<1>4. OK(q[Len(ops)], Len(ops))
  <2>1. T \in SUBSET Nat
    BY <1>1
  <2> HIDE DEF T
  <2>2. Len(ops) \in T
    BY <1>2, <1>3, <2>1, RunsUp
  <2> QED
    BY <2>2 DEF T
<1> QED
  BY <1>1, <1>4

LEMMA CoalesceFacts ==
  ASSUME NEW ops \in Seq(Ops)
  PROVE  LET c == CoalesceOps(ops) IN
         /\ c \in Seq(Ops) /\ Flat(c) /\ OpIds(c) \subseteq OpIds(ops) /\ (Distinct(ops) => Distinct(c))
<1>1. PICK q : Coalescing(q, ops) /\ CoalesceOps(ops) = q[Len(ops)]
  BY CoalesceRuns
<1> QED
  BY <1>1, Coalesced, CoalesceType


(* Where two lists are the same at first, so are their queues. *)
LEMMA RunsAgree ==
  ASSUME NEW ops \in Seq(Ops), NEW more \in Seq(Ops), Len(ops) <= Len(more),
         \A i \in 1..Len(ops) : more[i] = ops[i],
         NEW q, Coalescing(q, ops), NEW r, Coalescing(r, more)
  PROVE  r[Len(ops)] = q[Len(ops)]
<1>1. Len(ops) \in Nat /\ Len(more) \in Nat
  BY LenProperties
<1> DEFINE T == {n \in 0..Len(ops) : r[n] = q[n]}
<1>2. 0 \in T /\ T \in SUBSET Nat
  BY <1>1 DEF Coalescing
<1>3. ASSUME NEW n \in 1..Len(ops), n - 1 \in T PROVE n \in T
  <2>1. n \in 0..Len(ops) /\ n \in 1..Len(more) /\ more[n] = ops[n] /\ r[n - 1] = q[n - 1]
    BY <1>1, <1>3
  <2> QED
    BY <2>1 DEF Coalescing
<1> HIDE DEF T
<1>4. Len(ops) \in T
  BY <1>2, <1>3, RunsUp
<1> QED
  BY <1>4 DEF T

(* A flat list is its own queue. *)
LEMMA FlatStays ==
  ASSUME NEW ops \in Seq(Ops), Flat(ops)
  PROVE  CoalesceOps(ops) = ops
<1>1. PICK q : Coalescing(q, ops) /\ CoalesceOps(ops) = q[Len(ops)]
  BY CoalesceRuns
<1>2. Len(ops) \in Nat /\ \A i \in 1..Len(ops) : ops[i] \in Ops
  BY Numbered
<1> DEFINE Same(x, n) == Len(x) = n /\ \A i \in 1..n : x[i] = ops[i]
           T == {n \in 0..Len(ops) : Same(q[n], n)}
<1>3. 0 \in T
  BY <1>1, <1>2 DEF Coalescing
<1>4. ASSUME NEW n \in 1..Len(ops), n - 1 \in T PROVE n \in T
  <2> DEFINE x == q[n - 1]
             y == q[n]
             op == ops[n]
  <2>1. n \in 0..Len(ops) /\ n - 1 \in 0..Len(ops)
    BY <1>2
  <2>2. x \in Seq(Ops) /\ y = Pushed(x, op) /\ op \in Ops
    BY <1>1, <1>2, <2>1 DEF Coalescing
  <2>3. Len(x) = n - 1 /\ \A i \in 1..(n - 1) : x[i] = ops[i]
    BY <1>4
  <2> HIDE DEF x, y
  <2>4. ~(x # << >> /\ Folds(Last(x), op))
    <3>1. ASSUME x # << >> PROVE ~Folds(Last(x), op)
      <4>1. Last(x) = x[Len(x)] /\ Len(x) \in Nat \ {0}
        BY <2>2, <3>1, PushedFacts
      <4>2. n \in 2..Len(ops) /\ Last(x) = ops[n - 1]
        BY <2>1, <2>3, <4>1
      <4> QED
        BY <4>2 DEF Flat
    <3> QED
      BY <3>1
  <2>5. Len(y) = Len(x) + 1 /\ \A i \in 1..(Len(x) + 1) : y[i] = IF i = Len(x) + 1 THEN op ELSE x[i]
    BY <2>2, <2>4, PushedFacts
  <2>6. Same(y, n)
    BY <1>2, <2>3, <2>5
  <2> QED
    BY <2>1, <2>6 DEF y
<1>5. Same(q[Len(ops)], Len(ops))
  <2>1. T \in SUBSET Nat
    BY <1>2
  <2> HIDE DEF T
  <2>2. Len(ops) \in T
    BY <1>3, <1>4, <2>1, RunsUp
  <2> QED
    BY <2>2 DEF T
<1>6. q[Len(ops)] \in Seq(Ops)
  BY <1>1, CoalesceType
<1>7. q[Len(ops)] = ops
  BY <1>5, <1>6, SeqEqual
<1> QED
  BY <1>1, <1>7

(* The queue of one op more. *)
LEMMA CoalesceAppend ==
  ASSUME NEW ops \in Seq(Ops), NEW op \in Ops
  PROVE  CoalesceOps(Append(ops, op)) = Pushed(CoalesceOps(ops), op)
<1> DEFINE more == Append(ops, op)
<1>1. /\ more \in Seq(Ops) /\ Len(more) = Len(ops) + 1 /\ more[Len(ops) + 1] = op
      /\ \A i \in 1..Len(ops) : more[i] = ops[i]
  BY AppendProperties
<1>2. Len(ops) \in Nat
  BY LenProperties
<1>3. PICK q : Coalescing(q, ops) /\ CoalesceOps(ops) = q[Len(ops)]
  BY CoalesceRuns
<1> HIDE DEF more
<1>4. PICK r : Coalescing(r, more) /\ CoalesceOps(more) = r[Len(more)]
  BY <1>1, CoalesceRuns
<1>5. r[Len(ops)] = q[Len(ops)]
  BY <1>1, <1>2, <1>3, <1>4, RunsAgree
<1>6. r[Len(ops) + 1] = Pushed(r[Len(ops)], op)
  <2>1. Len(ops) + 1 \in 1..Len(more) /\ (Len(ops) + 1) - 1 = Len(ops)
    BY <1>1, <1>2
  <2> QED
    BY <1>1, <1>4, <2>1 DEF Coalescing
<1> QED
  BY <1>1, <1>3, <1>4, <1>5, <1>6 DEF more

(* Two flat lists one after the other: all that folds is the first op of    *)
(* the second into the last of the first.                                   *)
Seam(front, rest, c) ==
    front # << >> /\ rest # << >> /\ Folds(Last(front), rest[1]) /\ c = Fold(Last(front), rest[1])

LEMMA CoalesceJoined ==
  ASSUME NEW front \in Seq(Ops), NEW rest \in Seq(Ops), Flat(front), Flat(rest)
  PROVE  \A c \in ToSet(CoalesceOps(front \o rest)) : c \in ToSet(front) \cup ToSet(rest) \/ Seam(front, rest, c)
<1> DEFINE ops == front \o rest
           F == Len(front)
           R == Len(rest)
<1>1. /\ ops \in Seq(Ops) /\ Len(ops) = F + R
      /\ \A i \in 1..F : ops[i] = front[i]
      /\ \A i \in (F + 1)..(F + R) : ops[i] = rest[i - F]
  BY ConcatProperties, LenProperties
<1>2. F \in Nat /\ R \in Nat /\ \A i \in 1..R : rest[i] \in Ops /\ rest[i] \in ToSet(rest)
  BY Numbered
<1>3. PICK r : Coalescing(r, ops) /\ CoalesceOps(ops) = r[F + R]
  BY <1>1, CoalesceRuns
<1>4. r[F] = front
  <2>1. PICK q : Coalescing(q, front) /\ CoalesceOps(front) = q[F]
    BY CoalesceRuns
  <2>2. F <= Len(ops)
    BY <1>1, <1>2
  <2> HIDE DEF ops
  <2>3. r[F] = q[F]
    BY <1>1, <1>3, <2>1, <2>2, RunsAgree
  <2> QED
    BY <2>1, <2>3, FlatStays
<1> HIDE DEF ops
<1> DEFINE OK(x, n) == /\ \A c \in ToSet(x) : c \in ToSet(front) \cup ToSet(rest) \/ Seam(front, rest, c)
                       /\ n = 0 => x = front
                       /\ n > 0 => Last(x).id = rest[n].id /\ (Last(x) = rest[n] \/ rest[n].kind = "update")
           T == {n \in 0..R : OK(r[F + n], n)}
<1>5. 0 \in T
  BY <1>2, <1>4
<1>6. ASSUME NEW n \in 1..R, n - 1 \in T PROVE n \in T
  <2> DEFINE x == r[F + (n - 1)]
             y == r[F + n]
             op == rest[n]
  <2>1. F + n \in 1..Len(ops) /\ F + (n - 1) \in 0..Len(ops) /\ (F + n) - 1 = F + (n - 1) /\ ops[F + n] = op /\ n \in 0..R
    <3>1. F + n \in (F + 1)..(F + R) /\ (F + n) - F = n
      BY <1>2
    <3>2. ops[F + n] = rest[n]
      BY <1>1, <3>1
    <3> QED
      BY <1>1, <1>2, <3>2
  <2>2. x \in Seq(Ops) /\ y = Pushed(x, op) /\ op \in Ops /\ op \in ToSet(rest)
    BY <1>1, <1>2, <1>3, <2>1 DEF Coalescing
  <2>3. OK(x, n - 1)
    BY <1>6
  <2> HIDE DEF x, y
  <2>4. /\ \A c \in ToSet(y) : c \in ToSet(x) \cup {op} \/ (x # << >> /\ Folds(Last(x), op) /\ c = Fold(Last(x), op))
        /\ Last(y).id = op.id /\ (Last(y) = op \/ op.kind = "update")
    BY <2>2, PushedOps
  <2>5. ASSUME x # << >>, Folds(Last(x), op) PROVE Seam(front, rest, Fold(Last(x), op))
    <3>1. CASE n = 1
      <4>1. x = front /\ rest # << >>
        BY <1>2, <2>3, <3>1
      <4> QED
        BY <2>5, <3>1, <4>1 DEF Seam
    <3>2. CASE n # 1
      <4>1. n \in 2..R /\ n - 1 > 0
        BY <1>2, <3>2
      <4>2. Folds(rest[n - 1], op)
        BY <2>3, <2>5, <4>1 DEF Folds
      <4> QED
        BY <4>1, <4>2 DEF Flat
    <3> QED
      BY <3>1, <3>2
  <2>6. OK(y, n)
    BY <1>2, <2>2, <2>3, <2>4, <2>5
  <2> QED
    BY <2>1, <2>6 DEF y
<1>7. OK(r[F + R], R)
  <2>1. T \in SUBSET Nat
    BY <1>2
  <2> HIDE DEF T
  <2>2. R \in T
    BY <1>5, <1>6, <2>1, RunsUp
  <2> QED
    BY <2>2 DEF T
<1> QED
  BY <1>3, <1>7 DEF ops

LEMMA DistinctJoined ==
  ASSUME NEW front \in Seq(Ops), NEW rest \in Seq(Ops), Distinct(front), Distinct(rest),
         OpIds(front) \cap OpIds(rest) = {}
  PROVE  Distinct(front \o rest)
<1> DEFINE ops == front \o rest
           F == Len(front)
           R == Len(rest)
<1>1. /\ ops \in Seq(Ops) /\ Len(ops) = F + R
      /\ \A i \in 1..F : ops[i] = front[i]
      /\ \A i \in (F + 1)..(F + R) : ops[i] = rest[i - F]
  BY ConcatProperties, LenProperties
<1>2. /\ F \in Nat /\ R \in Nat
      /\ \A i \in 1..F : front[i].op \in OpIds(front)
      /\ \A i \in 1..R : rest[i].op \in OpIds(rest)
  BY Numbered
<1> HIDE DEF ops
<1>3. ASSUME NEW i \in 1..Len(ops), NEW j \in 1..Len(ops), ops[i].op = ops[j].op PROVE i = j
  <2>1. /\ i \in 1..F \/ (i \in (F + 1)..(F + R) /\ i - F \in 1..R)
        /\ j \in 1..F \/ (j \in (F + 1)..(F + R) /\ j - F \in 1..R)
    BY <1>1, <1>2
  <2>2. CASE i \in 1..F /\ j \in 1..F
    BY <1>1, <1>3, <2>2 DEF Distinct
  <2>3. CASE i \in (F + 1)..(F + R) /\ i - F \in 1..R /\ j \in (F + 1)..(F + R) /\ j - F \in 1..R
    <3>1. i - F = j - F
      BY <1>1, <1>3, <2>3 DEF Distinct
    <3> QED
      BY <1>2, <2>3, <3>1
  <2>4. CASE i \in 1..F /\ j \in (F + 1)..(F + R) /\ j - F \in 1..R
    BY <1>1, <1>2, <1>3, <2>4
  <2>5. CASE j \in 1..F /\ i \in (F + 1)..(F + R) /\ i - F \in 1..R
    BY <1>1, <1>2, <1>3, <2>5
  <2> QED
    BY <2>1, <2>2, <2>3, <2>4, <2>5
<1> QED
  BY <1>3 DEF Distinct, ops

(* What is sent is the queue, apart from the bases (withOwnBaseSeq). *)
LEMMA BatchFacts ==
  ASSUME ClientTypes
  PROVE  LET queued == CoalesceOps(queue) IN
         /\ Batch \in Seq(Ops) /\ Flat(Batch) /\ OpIds(Batch) = OpIds(queued)
         /\ \A op \in ToSet(Batch) : \E o \in ToSet(queued) : o.op = op.op /\ o.text = op.text
         /\ Distinct(queued) => Distinct(Batch)
<1> DEFINE queued == CoalesceOps(queue)
<1>1. queued \in Seq(Ops) /\ Flat(queued)
  BY CoalesceFacts DEF ClientTypes
<1> HIDE DEF queued
<1>2. /\ Based(queued) \in Seq(Ops) /\ Len(Based(queued)) = Len(queued)
      /\ \A i \in 1..Len(queued) : \E base \in Nat : Based(queued)[i] = [queued[i] EXCEPT !.base = base]
  BY <1>1, BasedFacts DEF ClientTypes
<1>3. Batch = Based(queued)
  BY DEF Batch, queued
<1>4. Len(queued) \in Nat /\ \A i \in 1..Len(queued) : queued[i] \in Ops
  BY <1>1, Numbered
<1>5. \A i \in 1..Len(queued) : /\ Batch[i].op = queued[i].op /\ Batch[i].text = queued[i].text
                               /\ Batch[i].kind = queued[i].kind /\ Batch[i].id = queued[i].id
  <2> TAKE i \in 1..Len(queued)
  <2>1. PICK base \in Nat : Batch[i] = [queued[i] EXCEPT !.base = base]
    BY <1>2, <1>3
  <2>2. queued[i] \in Ops
    BY <1>4
  <2> QED
    BY <2>1, <2>2 DEF Ops
<1>6. Batch \in Seq(Ops) /\ Len(Batch) = Len(queued)
  BY <1>2, <1>3
<1>7. Flat(Batch)
  <2>1. ASSUME NEW i \in 2..Len(queued) PROVE ~Folds(Batch[i - 1], Batch[i])
    <3>1. i \in 1..Len(queued) /\ i - 1 \in 1..Len(queued) /\ ~Folds(queued[i - 1], queued[i])
      BY <1>1, <1>4 DEF Flat
    <3> QED
      BY <1>5, <3>1 DEF Folds
  <2> QED
    BY <1>6, <2>1 DEF Flat
<1>8. OpIds(Batch) = OpIds(queued) /\ \A op \in ToSet(Batch) : \E o \in ToSet(queued) : o.op = op.op /\ o.text = op.text
  <2>1. /\ OpIds(Batch) = {Batch[i].op : i \in 1..Len(queued)} /\ OpIds(queued) = {queued[i].op : i \in 1..Len(queued)}
        /\ ToSet(Batch) = {Batch[i] : i \in 1..Len(queued)} /\ ToSet(queued) = {queued[i] : i \in 1..Len(queued)}
    BY <1>1, <1>6, Numbered
  <2>2. OpIds(Batch) = OpIds(queued)
    BY <1>5, <2>1
  <2>3. \A i \in 1..Len(queued) : queued[i] \in ToSet(queued)
    BY <2>1
  <2>4. \A op \in ToSet(Batch) : \E i \in 1..Len(queued) : op = Batch[i]
    BY <2>1
  <2> QED
    BY <1>5, <2>2, <2>3, <2>4
<1>9. Distinct(queued) => Distinct(Batch)
  BY <1>5, <1>6 DEF Distinct
<1> QED
  BY <1>6, <1>7, <1>8, <1>9 DEF queued

----------------------------------------------------------------------------
(* What the person is told is safe.                                        *)
(* Every op that is queued or under way has an id of its own; when the      *)
(* server knows that id, the text of the op is safe; and when a request     *)
(* nobody waits for carries it, then with this text, or with one that       *)
(* something was laid over.                                                 *)
Queued == CoalesceOps(queue)
Held == ToSet(Queued) \cup (IF flight = None THEN {} ELSE ToSet(flight.ops))
Safe(text) == text = None \/ text \in kept \cup laidOver

Accounted(op) ==
    /\ op.op \in Nat /\ op.op < Number
    /\ op.op \in Known => op.op \in sent /\ Safe(op.text)
    /\ \A ops \in orphans : \A o \in ToSet(ops) : o.op = op.op => op.text \in laidOver \cup {o.text}

FlightOK == flight # None =>
    /\ Flat(queue) /\ Flat(flight.ops) /\ Distinct(flight.ops) /\ OpIds(flight.ops) \cap OpIds(queue) = {}
    /\ OpIds(flight.ops) \subseteq sent
    /\ flight.answer # None => \A op \in ToSet(flight.ops) :
          Safe(op.text) \/ [op |-> op.op, dropped |-> TRUE] \in flight.answer.rejected

NumbersOK ==
    /\ \A n \in Known : n # None => n < Number
    /\ \A ops \in orphans : \A o \in ToSet(ops) : o.op \in sent /\ o.op \in Nat /\ o.op < Number

KeptInv ==
    /\ AnsweredIsKept /\ NumbersOK /\ FlightOK /\ Distinct(Queued)
    /\ \A op \in Held : Accounted(op)

LEMMA StaysAccounted ==
  ASSUME NEW op, Accounted(op), kept \subseteq kept', laidOver \subseteq laidOver', sent \subseteq sent',
         Number \in Nat, Number' \in Nat, Number <= Number',
         op.op \in Known' => op.op \in Known \/ (op.op \in sent' /\ Safe(op.text)'),
         \A ops \in orphans' : ops \in orphans \/ \A o \in ToSet(ops) : o.op = op.op => op.text \in laidOver' \cup {o.text}
  PROVE  Accounted(op)'
<1>1. op.op \in Nat /\ op.op < Number'
  <2>1. op.op \in Nat /\ op.op < Number
    BY DEF Accounted
  <2> QED
    BY <2>1
<1>2. op.op \in Known' => op.op \in sent' /\ Safe(op.text)'
  BY DEF Accounted, Safe
<1>3. \A ops \in orphans' : \A o \in ToSet(ops) : o.op = op.op => op.text \in laidOver' \cup {o.text}
  BY DEF Accounted
<1> QED
  BY <1>1, <1>2, <1>3 DEF Accounted

(* A batch is stored. *)
LEMMA StoreKept ==
  ASSUME WikiInv, KeptInv, NEW ops \in Seq(Ops), NEW actor \in {Me, Other}, NEW restored,
         Store(MergeOps(document, ops, actor), restored),
         UNCHANGED <<queue, sent, laidOver, answered>>, orphans' \subseteq orphans, Held' = Held,
         Number' \in Nat, Number <= Number',
         \A o \in ToSet(ops) : o.op # None => o.op < Number',
         \A op \in Held : \A o \in ToSet(ops) : o.op = op.op =>
            op.op \in sent /\ op.text \in laidOver \cup {o.text}
  PROVE  AnsweredIsKept' /\ NumbersOK' /\ Distinct(Queued)' /\ \A op \in Held' : Accounted(op)'
<1>1. /\ kept \subseteq kept' /\ Known \subseteq Known'
      /\ \A id \in Known' \ Known : \E op \in ToSet(ops) : op.op = id /\ (op.text = None \/ op.text \in kept')
  BY StoreTexts DEF WikiInv, ServerInv
<1>2. Number \in Nat
  BY NumberType DEF WikiInv
<1>3. AnsweredIsKept'
  BY <1>1 DEF KeptInv, AnsweredIsKept
<1>4. Distinct(Queued)'
  BY DEF KeptInv, Queued
<1>5. NumbersOK'
  <2>1. ASSUME NEW n \in Known', n # None PROVE n < Number'
    <3>1. CASE n \in Known
      <4>1. n \in Nat /\ n < Number
        BY <2>1, <3>1 DEF KeptInv, NumbersOK, Known, WikiInv, ServerInv, DocumentOK, Documents, Names
      <4> QED
        BY <1>2, <4>1
    <3>2. CASE n \notin Known
      BY <1>1, <2>1, <3>2
    <3> QED
      BY <3>1, <3>2
  <2>2. \A p \in orphans' : \A o \in ToSet(p) : o.op \in sent' /\ o.op \in Nat /\ o.op < Number'
    <3>1. \A p \in orphans' : \A o \in ToSet(p) : o.op \in sent /\ o.op \in Nat /\ o.op < Number
      BY DEF KeptInv, NumbersOK
    <3> QED
      BY <1>2, <3>1
  <2> QED
    BY <2>1, <2>2 DEF NumbersOK
<1>6. ASSUME NEW op \in Held PROVE Accounted(op)'
  <2>1. op.op \in Known' => op.op \in Known \/ (op.op \in sent' /\ Safe(op.text)')
    <3>1. ASSUME op.op \in Known', op.op \notin Known PROVE op.op \in sent' /\ Safe(op.text)'
      <4>1. PICK o \in ToSet(ops) : o.op = op.op /\ (o.text = None \/ o.text \in kept')
        BY <1>1, <3>1
      <4>2. op.op \in sent /\ op.text \in laidOver \cup {o.text}
        BY <4>1
      <4> QED
        BY <4>1, <4>2 DEF Safe
    <3> QED
      BY <3>1
  <2>2. Accounted(op)
    BY DEF KeptInv
  <2> QED
    BY <1>1, <1>2, <2>1, <2>2, StaysAccounted
<1> QED
  BY <1>3, <1>4, <1>5, <1>6

LEMMA FlightHeld ==
  ASSUME WikiInv, KeptInv, flight # None
  PROVE  /\ flight.ops \in Seq(Ops) /\ ToSet(flight.ops) \subseteq Ops
         /\ \A op \in ToSet(flight.ops) : op \in Held /\ op.op \in sent /\ op.op \in OpIds(flight.ops)
         /\ \A op, o \in ToSet(flight.ops) : op.op = o.op => op = o
         /\ \A op \in ToSet(Queued) : op \in Held /\ op \in Ops /\ op.op \in OpIds(queue)
<1>1. flight.ops \in Seq(Ops) /\ queue \in Seq(Ops)
  BY FlightFacts DEF WikiInv, ClientTypes
<1>2. /\ ToSet(flight.ops) = {flight.ops[i] : i \in 1..Len(flight.ops)} /\ ToSet(flight.ops) \subseteq Ops
      /\ OpIds(flight.ops) = {flight.ops[i].op : i \in 1..Len(flight.ops)}
  BY <1>1, Numbered
<1>3. Queued \in Seq(Ops) /\ OpIds(Queued) \subseteq OpIds(queue)
  BY <1>1, CoalesceFacts DEF Queued
<1>4. /\ ToSet(Queued) = {Queued[i] : i \in 1..Len(Queued)} /\ ToSet(Queued) \subseteq Ops
      /\ OpIds(Queued) = {Queued[i].op : i \in 1..Len(Queued)}
  BY <1>3, Numbered
<1>5. \A op \in ToSet(Queued) : op \in Held /\ op \in Ops /\ op.op \in OpIds(queue)
  BY <1>3, <1>4 DEF Held
<1>6. \A op \in ToSet(flight.ops) : op \in Held /\ op.op \in sent /\ op.op \in OpIds(flight.ops)
  BY <1>2 DEF Held, KeptInv, FlightOK
<1>7. \A op, o \in ToSet(flight.ops) : op.op = o.op => op = o
  BY <1>2 DEF KeptInv, FlightOK, Distinct
<1> QED
  BY <1>1, <1>2, <1>5, <1>6, <1>7

LEMMA ServeKept == ASSUME WikiInv, KeptInv, Serve PROVE KeptInv'
<1> DEFINE r == MergeOps(document, flight.ops, Me)
<1>1. /\ flight # None /\ flight.ops \in Seq(Ops) /\ flight' # None /\ flight'.ops = flight.ops
      /\ flight'.answer.rejected = r.rejected
  BY ServeFlight
<1>2. Store(r, FALSE) /\ UNCHANGED <<queue, orphans, counters, answered, sent, laidOver>>
  BY DEF Serve
<1>3. /\ ToSet(flight.ops) \subseteq Ops
      /\ \A op \in ToSet(flight.ops) : op \in Held /\ op.op \in sent /\ op.op \in OpIds(flight.ops)
      /\ \A op, o \in ToSet(flight.ops) : op.op = o.op => op = o
      /\ \A op \in ToSet(Queued) : op \in Held /\ op \in Ops /\ op.op \in OpIds(queue)
  BY <1>1, FlightHeld
<1>4. Number' = Number /\ Number \in Nat
  BY <1>2, NumberType DEF Number, counters, WikiInv
<1>5. Held' = Held
  BY <1>1, <1>2 DEF Held, Queued
<1>6. \A o \in ToSet(flight.ops) : o.op # None => o.op < Number'
  BY <1>3, <1>4 DEF KeptInv, Accounted
<1>7. ASSUME NEW op \in Held, NEW o \in ToSet(flight.ops), o.op = op.op
      PROVE  op.op \in sent /\ op.text \in laidOver \cup {o.text}
  <2>1. CASE op \in ToSet(flight.ops)
    BY <1>3, <1>7, <2>1
  <2>2. CASE op \in ToSet(Queued)
    BY <1>1, <1>3, <1>7, <2>2 DEF KeptInv, FlightOK
  <2> QED
    BY <1>1, <2>1, <2>2 DEF Held
<1>8. AnsweredIsKept' /\ NumbersOK' /\ Distinct(Queued)' /\ \A op \in Held' : Accounted(op)'
  <2>1. Number' \in Nat /\ Number <= Number' /\ orphans' \subseteq orphans
    BY <1>2, <1>4
  <2>2. UNCHANGED <<queue, sent, laidOver, answered>>
    BY <1>2
  <2>3. PICK restored : restored = FALSE
    OBVIOUS
  <2>4. Store(MergeOps(document, flight.ops, Me), restored)
    BY <1>2, <2>3, Zenon DEF r
  <2> QED
    BY <1>1, <1>5, <1>6, <1>7, <2>1, <2>2, <2>4, StoreKept
<1>9. ASSUME NEW op \in ToSet(flight.ops)
      PROVE  Safe(op.text)' \/ [op |-> op.op, dropped |-> TRUE] \in r.rejected
  <2>1. /\ kept \subseteq kept'
        /\ op.text # None => op.text \in kept' \/ op.op \in Known \/ [op |-> op.op, dropped |-> TRUE] \in r.rejected
    BY <1>1, <1>2, StoreTexts DEF WikiInv, ServerInv
  <2>2. op.op \in Known => Safe(op.text)
    BY <1>3 DEF KeptInv, Accounted
  <2> QED
    BY <1>2, <2>1, <2>2 DEF Safe
<1>10. FlightOK'
  BY <1>1, <1>2, <1>9 DEF KeptInv, FlightOK
<1> QED
  BY <1>8, <1>10 DEF KeptInv

LEMMA FlightStays ==
  ASSUME FlightOK, UNCHANGED <<queue, flight, sent, laidOver>>, kept \subseteq kept'
  PROVE  FlightOK'
  BY DEF FlightOK, Safe

LEMMA ServeOrphanKept == ASSUME WikiInv, KeptInv, NEW ops, ServeOrphan(ops) PROVE KeptInv'
<1>1. /\ ops \in orphans /\ orphans' = orphans \ {ops} /\ Store(MergeOps(document, ops, Me), FALSE)
      /\ UNCHANGED <<queue, flight, counters, answered, sent, laidOver>>
  BY DEF ServeOrphan, browser
<1>2. ops \in Seq(Ops)
  BY <1>1 DEF WikiInv, ClientTypes
<1>3. Number' = Number /\ Number \in Nat /\ Held' = Held
  BY <1>1, NumberType DEF Number, counters, WikiInv, Held, Queued
<1>4. \A o \in ToSet(ops) : o.op \in sent /\ o.op < Number'
  BY <1>1, <1>3 DEF KeptInv, NumbersOK
<1>5. \A op \in Held : \A o \in ToSet(ops) : o.op = op.op => op.text \in laidOver \cup {o.text}
  BY <1>1 DEF KeptInv, Accounted
<1>6. AnsweredIsKept' /\ NumbersOK' /\ Distinct(Queued)' /\ \A op \in Held' : Accounted(op)'
  <2>1. Number' \in Nat /\ Number <= Number' /\ orphans' \subseteq orphans
    BY <1>1, <1>3
  <2>2. UNCHANGED <<queue, sent, laidOver, answered>>
    BY <1>1
  <2>3. PICK restored : restored = FALSE
    OBVIOUS
  <2>4. Store(MergeOps(document, ops, Me), restored)
    BY <1>1, <2>3, Zenon
  <2>5. \A op \in Held : \A o \in ToSet(ops) : o.op = op.op => op.op \in sent /\ op.text \in laidOver \cup {o.text}
    BY <1>4, <1>5
  <2>6. \A o \in ToSet(ops) : o.op # None => o.op < Number'
    BY <1>4
  <2> QED
    BY <1>2, <1>3, <2>1, <2>2, <2>4, <2>5, <2>6, StoreKept
<1>7. kept \subseteq kept'
  BY <1>1, <1>2, StoreTexts DEF WikiInv, ServerInv
<1> QED
  BY <1>1, <1>6, <1>7, FlightStays DEF KeptInv

(* The ops of others have ids that are in no queue. *)
LEMMA ForeignKept ==
  ASSUME WikiInv, KeptInv, NEW ops \in Seq(Ops), NEW restored, Store(MergeOps(document, ops, Other), restored),
         \A o \in ToSet(ops) : o.op \in {None, Number},
         UNCHANGED <<browser, orphans, edits, answered, sent, laidOver>>, others' = others + 1
  PROVE  KeptInv'
<1>1. Number \in Nat /\ Number' = Number + 1
  BY NumberType DEF Number, WikiInv, ClientTypes
<1>2. Held' = Held /\ UNCHANGED <<queue, flight>>
  BY DEF Held, Queued, browser
<1>3. \A o \in ToSet(ops) : o.op # None => o.op < Number'
  BY <1>1
<1>4. \A op \in Held : \A o \in ToSet(ops) : o.op # op.op
  <2>1. \A op \in Held : op.op \in Nat /\ op.op < Number
    BY DEF KeptInv, Accounted
  <2> QED
    BY <1>1, <2>1, EditingAssumption
<1>5. AnsweredIsKept' /\ NumbersOK' /\ Distinct(Queued)' /\ \A op \in Held' : Accounted(op)'
  BY <1>1, <1>2, <1>3, <1>4, StoreKept
<1>6. kept \subseteq kept'
  BY StoreTexts DEF WikiInv, ServerInv
<1> QED
  BY <1>2, <1>5, <1>6, FlightStays DEF KeptInv

LEMMA OtherEditsKept ==
  ASSUME WikiInv, KeptInv, NEW op \in Ops, op.op = Number, OtherEdits(op)
  PROVE  KeptInv'
<1>1. <<op>> \in Seq(Ops) /\ ToSet(<<op>>) = {op}
  BY DEF ToSet
<1> QED
  BY <1>1, ForeignKept DEF OtherEdits

LEMMA RestoreToKept ==
  ASSUME WikiInv, KeptInv, NEW version \in 1..(document.version - 1), RestoreTo(version)
  PROVE  KeptInv'
<1> DEFINE ops == DiffToOps(document.blocks, past[version])
<1>1. ops \in Seq(Ops) /\ ops \in Seq(OwnOps(past[version])) /\ Store(MergeOps(document, ops, Other), TRUE)
  BY RestoreOps
<1> HIDE DEF ops
<1>2. \A o \in ToSet(ops) : o.op = None
  BY <1>1, LenProperties, ElementOfSeq DEF ToSet, OwnOps
<1>3. UNCHANGED <<browser, orphans, edits, answered, sent, laidOver>> /\ others' = others + 1
  BY DEF RestoreTo
<1> QED
  BY <1>1, <1>2, <1>3, ForeignKept

(* What of a queue is safe is safe of what is sent of it. *)
LEMMA BatchAccounted ==
  ASSUME WikiInv, KeptInv
  PROVE  /\ Batch \in Seq(Ops) /\ Flat(Batch) /\ Distinct(Batch)
         /\ \A op \in ToSet(Batch) : op \in Ops /\ Accounted(op) /\ op.op \in OpIds(Batch)
         /\ \A op, o \in ToSet(Batch) : op.op = o.op => op = o
         /\ \A op \in ToSet(Queued) : \A o \in ToSet(Batch) : o.op = op.op => o.text = op.text
         /\ Queued \in Seq(Ops) /\ Flat(Queued) /\ OpIds(Queued) \subseteq OpIds(queue)
         /\ \A op \in ToSet(Queued) : op \in Ops /\ Accounted(op)
         /\ OpIds(Queued) = {op.op : op \in ToSet(Queued)} /\ OpIds(Batch) = OpIds(Queued)
<1>1. ClientTypes /\ queue \in Seq(Ops)
  BY DEF WikiInv, ClientTypes
<1>2. Queued \in Seq(Ops) /\ Flat(Queued) /\ OpIds(Queued) \subseteq OpIds(queue) /\ Distinct(Queued)
  BY <1>1, CoalesceFacts DEF Queued, KeptInv
<1>3. /\ Batch \in Seq(Ops) /\ Flat(Batch) /\ OpIds(Batch) = OpIds(Queued) /\ Distinct(Batch)
      /\ \A op \in ToSet(Batch) : \E o \in ToSet(Queued) : o.op = op.op /\ o.text = op.text
  BY <1>1, <1>2, BatchFacts DEF Queued
<1>4. /\ ToSet(Queued) = {Queued[i] : i \in 1..Len(Queued)} /\ ToSet(Queued) \subseteq Ops
      /\ OpIds(Queued) = {Queued[i].op : i \in 1..Len(Queued)}
  BY <1>2, Numbered
<1>5. /\ ToSet(Batch) = {Batch[i] : i \in 1..Len(Batch)} /\ ToSet(Batch) \subseteq Ops
      /\ OpIds(Batch) = {Batch[i].op : i \in 1..Len(Batch)}
  BY <1>3, Numbered
<1>6. \A op \in ToSet(Queued) : op \in Ops /\ Accounted(op)
  BY <1>4 DEF KeptInv, Held
<1>7. \A op, o \in ToSet(Queued) : op.op = o.op => op = o
  BY <1>2, <1>4 DEF Distinct
<1>8. \A op, o \in ToSet(Batch) : op.op = o.op => op = o
  BY <1>3, <1>5 DEF Distinct
<1>9. ASSUME NEW op \in ToSet(Batch) PROVE op \in Ops /\ Accounted(op) /\ op.op \in OpIds(Batch)
  <2>1. PICK o \in ToSet(Queued) : o.op = op.op /\ o.text = op.text
    BY <1>3
  <2>2. Accounted(o)
    BY <1>6
  <2>3. Accounted(op)
    BY <2>1, <2>2 DEF Accounted
  <2> QED
    BY <1>5, <2>3
<1>10. ASSUME NEW op \in ToSet(Queued), NEW o \in ToSet(Batch), o.op = op.op PROVE o.text = op.text
  <2>1. PICK c \in ToSet(Queued) : c.op = o.op /\ c.text = o.text
    BY <1>3
  <2> QED
    BY <1>7, <1>10, <2>1
<1>11. OpIds(Queued) = {op.op : op \in ToSet(Queued)}
  BY <1>4
<1> QED
  BY <1>2, <1>3, <1>6, <1>8, <1>9, <1>10, <1>11

LEMMA NoOps == /\ << >> \in Seq(Ops) /\ Flat(<< >>) /\ Distinct(<< >>) /\ CoalesceOps(<< >>) = << >>
               /\ ToSet(<< >>) = {} /\ OpIds(<< >>) = {}
<1>1. << >> \in Seq(Ops) /\ Flat(<< >>) /\ Distinct(<< >>)
  BY DEF Flat, Distinct
<1>2. CoalesceOps(<< >>) = << >>
  BY <1>1, FlatStays
<1>3. ToSet(<< >>) = {} /\ OpIds(<< >>) = {}
  BY DEF ToSet, OpIds
<1> QED
  BY <1>1, <1>2, <1>3

(* The queue is sent. *)
LEMMA SendsKept ==
  ASSUME WikiInv, KeptInv, Flushes, Sends, queue' = << >>,
         UNCHANGED <<document, kept, answered, orphans, edits, others, laidOver>>
  PROVE  KeptInv'
<1>1. flight' # None /\ flight'.ops = Batch /\ flight'.answer = None /\ sent' = sent \cup OpIds(Batch)
  BY SendsFacts DEF Sends, WikiInv
<1>2. /\ Batch \in Seq(Ops) /\ Flat(Batch) /\ Distinct(Batch)
      /\ \A op \in ToSet(Batch) : Accounted(op) /\ op.op \in OpIds(Batch)
  BY BatchAccounted
<1>3. Number' = Number /\ Number \in Nat /\ Known' = Known
  BY NumberType DEF Number, WikiInv, Known
<1>4. Queued' = << >> /\ ToSet(<< >>) = {} /\ OpIds(<< >>) = {} /\ Flat(<< >>) /\ Distinct(<< >>)
  BY NoOps DEF Queued
<1>5. Held' = ToSet(Batch)
  BY <1>1, <1>4 DEF Held
<1>6. \A op \in ToSet(Batch) : Accounted(op)'
  <2> TAKE op \in ToSet(Batch)
  <2> QED
    BY <1>1, <1>2, <1>3, StaysAccounted
<1>7. FlightOK'
  BY <1>1, <1>2, <1>4 DEF FlightOK
<1>8. NumbersOK' /\ AnsweredIsKept'
  BY <1>1, <1>3 DEF NumbersOK, KeptInv, AnsweredIsKept
<1> QED
  BY <1>4, <1>5, <1>6, <1>7, <1>8 DEF KeptInv

(* Nothing the promise is about is touched. *)
LEMMA Unmoved ==
  ASSUME KeptInv, UNCHANGED <<document, queue, flight, orphans, edits, others, kept, answered, sent, laidOver>>
  PROVE  KeptInv'
<1>1. Held' = Held /\ Queued' = Queued /\ Known' = Known /\ Number' = Number
  BY DEF Held, Queued, Known, Number
<1>2. \A op : Accounted(op)' = Accounted(op)
  BY <1>1 DEF Accounted, Safe
<1>3. FlightOK' /\ NumbersOK' /\ AnsweredIsKept'
  BY <1>1 DEF KeptInv, FlightOK, NumbersOK, AnsweredIsKept, Safe
<1> QED
  BY <1>1, <1>2, <1>3 DEF KeptInv

LEMMA TimerFiresKept == ASSUME WikiInv, KeptInv, TimerFires PROVE KeptInv'
<1>1. CASE Flushes
  BY <1>1, SendsKept DEF TimerFires, server, counters
<1>2. CASE ~Flushes
  BY <1>2, Unmoved DEF TimerFires, server, counters
<1> QED
  BY <1>1, <1>2

LEMMA PressesKept == ASSUME WikiInv, KeptInv, Presses PROVE KeptInv'
  BY SendsKept DEF Presses, server, counters

LEMMA LaidOverFacts ==
  ASSUME NEW front, NEW rest \in Seq(Ops)
  PROVE  /\ laidOver \subseteq LaidOver(front, rest)
         /\ front # << >> /\ Last(front).kind = "insert" /\ Last(front).op \in sent /\ rest # << >> /\ Folds(Last(front), rest[1])
            => rest[1].text \in LaidOver(front, rest)
<1>1. laidOver \subseteq LaidOver(front, rest)
  BY DEF LaidOver
<1>2. ASSUME front # << >>, Last(front).kind = "insert", Last(front).op \in sent, rest # << >>, Folds(Last(front), rest[1])
      PROVE  rest[1].text \in LaidOver(front, rest)
  <2>1. 1 \in DOMAIN rest /\ \A j \in 1..1 : Folds(Last(front), rest[j])
    BY <1>2, LenProperties, EmptySeq
  <2> QED
    BY <1>2, <2>1 DEF LaidOver
<1> QED
  BY <1>1, <1>2

(* An edit is pushed.  Its op is new; where it is folded into an insert     *)
(* that was sent, its text is laid over that of the insert.                 *)
LEMMA PushedAccounted ==
  ASSUME WikiInv, KeptInv, NEW op \in Ops, op.op = Number, NEW q \in Seq(Ops), \A c \in ToSet(q) : Accounted(c),
         UNCHANGED <<document, kept, orphans, others>>, edits' = edits + 1, sent \subseteq sent',
         laidOver' = LaidOver(q, <<op>>)
  PROVE  /\ \A c \in ToSet(Pushed(q, op)) : Accounted(c)'
         /\ \A c : Accounted(c) => Accounted(c)'
<1>1. Number \in Nat /\ Number' = Number + 1 /\ Known' = Known
  BY NumberType DEF Number, Known, WikiInv, ClientTypes
<1>2. <<op>> \in Seq(Ops) /\ <<op>> # << >> /\ <<op>>[1] = op
  OBVIOUS
<1>3. /\ laidOver \subseteq laidOver'
      /\ q # << >> /\ Last(q).kind = "insert" /\ Last(q).op \in sent /\ Folds(Last(q), op) => op.text \in laidOver'
  BY <1>2, LaidOverFacts
<1>4. ASSUME NEW c, Accounted(c) PROVE Accounted(c)'
  BY <1>1, <1>3, <1>4, StaysAccounted
<1>5. ASSUME NEW c, c.op = Number PROVE Accounted(c)'
  <2>1. Number \notin Known
    <3>1. Number # None
      BY <1>1, EditingAssumption
    <3> QED
      BY <1>1, <3>1 DEF KeptInv, NumbersOK
  <2>2. \A ops \in orphans : \A o \in ToSet(ops) : o.op # Number
    BY <1>1 DEF KeptInv, NumbersOK
  <2> QED
    BY <1>1, <1>5, <2>1, <2>2 DEF Accounted
<1>6. ASSUME q # << >>, Folds(Last(q), op) PROVE Accounted(Fold(Last(q), op))'
  <2> DEFINE l == Last(q)
             f == Fold(l, op)
  <2>1. l \in Ops /\ Accounted(l)
    <3>1. l \in Ops /\ Len(q) \in Nat \ {0} /\ l = q[Len(q)]
      BY <1>6, PushedFacts
    <3>2. l \in ToSet(q)
      BY <3>1, Numbered
    <3> QED
      BY <3>1, <3>2
  <2>2. f.text = op.text /\ f.op = IF l.kind = "insert" THEN l.op ELSE op.op
    BY <1>6, <2>1, FoldFacts
  <2> HIDE DEF l, f
  <2>3. CASE l.kind # "insert"
    BY <1>5, <2>2, <2>3 DEF f, l
  <2>4. CASE l.kind = "insert"
    <3>1. f.op = l.op /\ (l.op \in sent => op.text \in laidOver')
      BY <1>3, <1>6, <2>2, <2>4 DEF l
    <3>2. f.op \in Nat /\ f.op < Number'
      <4>1. l.op \in Nat /\ l.op < Number
        BY <2>1 DEF Accounted
      <4> QED
        BY <1>1, <3>1, <4>1
    <3>3. f.op \in Known' => f.op \in sent' /\ Safe(f.text)'
      BY <1>1, <2>1, <2>2, <3>1 DEF Accounted, Safe
    <3>4. \A ops \in orphans : \A o \in ToSet(ops) : o.op = f.op => f.text \in laidOver'
      BY <2>2, <3>1 DEF KeptInv, NumbersOK
    <3>5. Accounted(f)'
      BY <3>2, <3>3, <3>4 DEF Accounted
    <3> QED
      BY <3>5 DEF f, l
  <2> QED
    BY <2>3, <2>4
<1>7. ASSUME NEW c \in ToSet(Pushed(q, op)) PROVE Accounted(c)'
  <2>1. c \in ToSet(q) \/ c = op \/ (q # << >> /\ Folds(Last(q), op) /\ c = Fold(Last(q), op))
    BY PushedOps
  <2> QED
    BY <1>4, <1>5, <1>6, <2>1
<1> QED
  BY <1>4, <1>7

LEMMA PushKept ==
  ASSUME WikiInv, KeptInv, NEW op \in Ops, op.op = Number, NEW structural \in BOOLEAN, Push(op, structural)
  PROVE  KeptInv'
<1> DEFINE sends == structural /\ Flushes
           left == IF sends THEN << >> ELSE queue
           q == CoalesceOps(left)
           p == Pushed(q, op)
<1>1. /\ queue' = CoalesceOps(Append(left, op)) /\ laidOver' = LaidOver(q, <<op>>) /\ edits' = edits + 1
      /\ UNCHANGED <<document, kept, orphans, others, answered>>
      /\ IF sends THEN Sends ELSE UNCHANGED <<flight, sent>>
  BY DEF Push, server
<1>2. /\ Batch \in Seq(Ops) /\ Flat(Batch) /\ Distinct(Batch)
      /\ \A c \in ToSet(Batch) : Accounted(c) /\ c.op \in OpIds(Batch)
      /\ Queued \in Seq(Ops) /\ Flat(Queued) /\ OpIds(Queued) \subseteq OpIds(queue)
      /\ \A c \in ToSet(Queued) : Accounted(c)
      /\ OpIds(Queued) = {c.op : c \in ToSet(Queued)} /\ OpIds(Batch) = OpIds(Queued)
  BY BatchAccounted
<1>3. /\ left \in Seq(Ops) /\ q \in Seq(Ops) /\ Flat(q) /\ Distinct(q) /\ (q = Queued \/ (sends /\ q = << >>))
      /\ ~sends => q = Queued
  <2>1. CASE sends
    BY <2>1, NoOps
  <2>2. CASE ~sends
    BY <1>2, <2>2 DEF Queued, KeptInv, WikiInv, ClientTypes
  <2> QED
    BY <2>1, <2>2
<1>4. (\A c \in ToSet(q) : Accounted(c)) /\ OpIds(q) \subseteq OpIds(Queued)
  BY <1>2, <1>3, NoOps
<1>5. queue' = p
  BY <1>1, <1>3, CoalesceAppend
<1> HIDE DEF q, left, sends
<1>6. Number \in Nat /\ Number' = Number + 1 /\ Known' = Known
  BY <1>1, NumberType DEF Number, Known, WikiInv, ClientTypes
<1>7. \A n \in OpIds(Queued) : n \in Nat /\ n < Number
  BY <1>2 DEF Accounted
<1>8. Number \notin OpIds(q)
  BY <1>4, <1>6, <1>7
<1>9. p \in Seq(Ops) /\ Flat(p) /\ Distinct(p) /\ OpIds(p) \subseteq OpIds(q) \cup {Number}
  BY <1>3, <1>8, PushedFacts, PushedFlat, PushedDistinct, PushedOps
<1>10. sent \subseteq sent'
  BY <1>1 DEF Sends
<1>11. /\ \A c \in ToSet(p) : Accounted(c)'
       /\ \A c : Accounted(c) => Accounted(c)'
  BY <1>1, <1>3, <1>4, <1>10, PushedAccounted
<1> HIDE DEF p
<1>12. laidOver \subseteq laidOver'
  <2>1. <<op>> \in Seq(Ops)
    OBVIOUS
  <2> QED
    BY <1>1, <2>1, LaidOverFacts
<1>13. Queued' = p
  BY <1>5, <1>9, FlatStays DEF Queued
<1>14. /\ flight' # None => /\ Flat(flight'.ops) /\ Distinct(flight'.ops) /\ OpIds(flight'.ops) \cap OpIds(p) = {}
                            /\ OpIds(flight'.ops) \subseteq sent'
                            /\ \A c \in ToSet(flight'.ops) : Accounted(c)
       /\ flight' # None /\ flight'.answer # None => flight' = flight
  <2>1. CASE sends
    <3>1. flight' # None /\ flight'.ops = Batch /\ flight'.answer = None /\ sent' = sent \cup OpIds(Batch)
      BY <1>1, <2>1, SendsFacts DEF Sends, WikiInv
    <3>2. OpIds(q) = {}
      BY <2>1, NoOps DEF q, left
    <3>3. OpIds(Batch) \cap OpIds(p) = {}
      BY <1>2, <1>6, <1>7, <1>9, <3>2
    <3> QED
      BY <1>2, <3>1, <3>3
  <2>2. CASE ~sends
    <3>1. flight' = flight /\ sent' = sent
      BY <1>1, <2>2
    <3>2. ASSUME flight # None
          PROVE  /\ Flat(flight.ops) /\ Distinct(flight.ops) /\ OpIds(flight.ops) \cap OpIds(p) = {}
                 /\ OpIds(flight.ops) \subseteq sent
                 /\ \A c \in ToSet(flight.ops) : Accounted(c)
      <4>1. \A c \in ToSet(flight.ops) : Accounted(c)
        BY <3>2 DEF KeptInv, Held
      <4>2. \A n \in OpIds(flight.ops) : n < Number
        <5>1. flight.ops \in Seq(Ops)
          BY <3>2, FlightFacts DEF WikiInv
        <5>2. \A n \in OpIds(flight.ops) : \E c \in ToSet(flight.ops) : n = c.op
          BY <5>1, Numbered
        <5> QED
          BY <4>1, <5>2 DEF Accounted
      <4>3. OpIds(flight.ops) \cap OpIds(queue) = {} /\ OpIds(flight.ops) \subseteq sent
            /\ Flat(flight.ops) /\ Distinct(flight.ops)
        BY <3>2 DEF KeptInv, FlightOK
      <4>4. OpIds(p) \subseteq OpIds(queue) \cup {Number}
        BY <1>2, <1>4, <1>9
      <4> QED
        BY <1>6, <4>1, <4>2, <4>3, <4>4
    <3> QED
      BY <3>1, <3>2
  <2> QED
    BY <2>1, <2>2
<1>15. FlightOK'
  <2>1. ASSUME flight' # None, flight'.answer # None
        PROVE  \A c \in ToSet(flight'.ops) : Safe(c.text)' \/ [op |-> c.op, dropped |-> TRUE] \in flight'.answer.rejected
    <3>1. flight' = flight
      BY <1>14, <2>1
    <3> QED
      BY <1>1, <1>12, <2>1, <3>1 DEF KeptInv, FlightOK, Safe
  <2> QED
    BY <1>5, <1>9, <1>14, <2>1 DEF FlightOK
<1>16. \A c \in Held' : Accounted(c)'
  BY <1>11, <1>13, <1>14 DEF Held
<1>17. NumbersOK' /\ AnsweredIsKept'
  <2>1. \A n \in Known : n # None => n < Number'
    <3>1. \A n \in Known : n # None => n \in Nat /\ n < Number
      BY DEF KeptInv, NumbersOK, Known, WikiInv, ServerInv, DocumentOK, Documents, Names
    <3> QED
      BY <1>6, <3>1
  <2>2. \A ops \in orphans : \A o \in ToSet(ops) : o.op \in sent' /\ o.op \in Nat /\ o.op < Number'
    <3>1. \A ops \in orphans : \A o \in ToSet(ops) : o.op \in sent /\ o.op \in Nat /\ o.op < Number
      BY DEF KeptInv, NumbersOK
    <3> QED
      BY <1>6, <1>10, <3>1
  <2> QED
    BY <1>1, <1>6, <1>12, <2>1, <2>2 DEF NumbersOK, KeptInv, AnsweredIsKept
<1> QED
  BY <1>9, <1>13, <1>15, <1>16, <1>17 DEF KeptInv

LEMMA NewOp ==
  ASSUME ClientTypes, NEW kind \in {"insert", "update", "delete", "move"}, NEW id \in Int,
         NEW base \in Nat, NEW after \in Places
  PROVE  Op(kind, Number, id, base, after) \in Ops /\ Op(kind, Number, id, base, after).op = Number
  BY NumberType, OpType

LEMMA TypesKept == ASSUME WikiInv, KeptInv, NEW i \in DOMAIN view, Types(i) PROVE KeptInv'
<1>1. view[i].id \in Int /\ view[i].seq \in Nat /\ None \in Places
  BY ViewFacts, NumberType DEF WikiInv
<1> QED
  BY <1>1, NewOp, PushKept DEF Types, WikiInv

LEMMA DeletesKept == ASSUME WikiInv, KeptInv, NEW i \in DOMAIN view, Deletes(i) PROVE KeptInv'
<1>1. view[i].id \in Int /\ None \in Places
  BY ViewFacts, NumberType DEF WikiInv
<1> QED
  BY <1>1, NewOp, PushKept DEF Deletes, WikiInv

LEMMA AnchorType ==
  ASSUME WikiInv, NEW i \in 0..Len(view)
  PROVE  (IF i = 0 THEN None ELSE view[i].id) \in Places
<1>1. None \in Places /\ view \in Seq([id : Int, seq : Nat])
  BY NumberType DEF WikiInv, ClientTypes
<1>2. i # 0 => i \in DOMAIN view
  BY <1>1, LenProperties
<1> QED
  BY <1>1, <1>2, ViewFacts DEF WikiInv, Places

LEMMA AddsKept == ASSUME WikiInv, KeptInv, NEW i \in 0..Len(view), Adds(i) PROVE KeptInv'
<1>1. PICK after \in Places : after = (IF i = 0 THEN None ELSE view[i].id)
  BY AnchorType
<1>2. Number \in Int
  BY NumberType DEF WikiInv
<1>3. Op("insert", Number, Number, 0, after) \in Ops /\ Op("insert", Number, Number, 0, after).op = Number
  BY <1>1, <1>2, NewOp DEF WikiInv
<1> QED
  BY <1>1, <1>3, PushKept DEF Adds

LEMMA MovesKept ==
  ASSUME WikiInv, KeptInv, NEW i \in DOMAIN view, NEW to \in 0..Len(view), Moves(i, to)
  PROVE  KeptInv'
<1>1. view[i].id \in Int
  BY ViewFacts DEF WikiInv
<1>2. PICK after \in Places : after = (IF to = 0 THEN None ELSE view[to].id)
  BY AnchorType
<1>3. Op("move", Number, view[i].id, 0, after) \in Ops /\ Op("move", Number, view[i].id, 0, after).op = Number
  BY <1>1, <1>2, NewOp DEF WikiInv
<1> QED
  BY <1>2, <1>3, PushKept DEF Moves

(* The answer comes: what it does not report as given up is safe. *)
LEMMA ReceiveKept == ASSUME WikiInv, KeptInv, Receive PROVE KeptInv'
<1> DEFINE a == flight.answer
           lost == {r.op : r \in {x \in a.rejected : x.dropped}}
<1>1. /\ flight # None /\ a # None /\ flight' = None
      /\ answered' = answered \cup {flight.ops[i].text : i \in {j \in DOMAIN flight.ops :
                                flight.ops[j].text # None /\ flight.ops[j].op \notin lost}}
      /\ UNCHANGED <<document, queue, orphans, edits, others, kept, sent, laidOver>>
  BY DEF Receive, server, counters
<1>2. \A op \in ToSet(flight.ops) : Safe(op.text) \/ [op |-> op.op, dropped |-> TRUE] \in a.rejected
  BY <1>1 DEF KeptInv, FlightOK
<1> HIDE DEF a
<1>3. \A op \in ToSet(flight.ops) : Safe(op.text) \/ op.op \in lost
  <2> TAKE op \in ToSet(flight.ops)
  <2> DEFINE r == [op |-> op.op, dropped |-> TRUE]
  <2>1. r.op = op.op /\ r.dropped
    OBVIOUS
  <2> HIDE DEF r
  <2>2. r \in a.rejected => op.op \in lost
    BY <2>1
  <2> QED
    BY <1>2, <2>2 DEF r
<1> HIDE DEF lost
<1>4. \A i \in DOMAIN flight.ops : flight.ops[i] \in ToSet(flight.ops)
  BY DEF ToSet
<1>5. AnsweredIsKept'
  BY <1>1, <1>3, <1>4 DEF KeptInv, AnsweredIsKept, Safe
<1>6. Number' = Number /\ Known' = Known /\ Queued' = Queued /\ Held' \subseteq Held
  BY <1>1 DEF Number, Known, Queued, Held
<1>7. \A op : Accounted(op)' = Accounted(op)
  BY <1>1, <1>6 DEF Accounted, Safe
<1>8. FlightOK' /\ NumbersOK'
  BY <1>1, <1>6 DEF KeptInv, FlightOK, NumbersOK
<1> QED
  BY <1>5, <1>6, <1>7, <1>8 DEF KeptInv

LEMMA RefusedKept == ASSUME WikiInv, KeptInv, Refused PROVE KeptInv'
<1>1. /\ flight' = None
      /\ UNCHANGED <<document, queue, orphans, edits, others, kept, answered, sent, laidOver>>
  BY DEF Refused, server
<1>2. Number' = Number /\ Known' = Known /\ Queued' = Queued /\ Held' \subseteq Held
  BY <1>1 DEF Number, Known, Queued, Held
<1>3. \A op : Accounted(op)' = Accounted(op)
  BY <1>1, <1>2 DEF Accounted, Safe
<1>4. FlightOK' /\ NumbersOK' /\ AnsweredIsKept'
  BY <1>1, <1>2 DEF KeptInv, FlightOK, NumbersOK, AnsweredIsKept
<1> QED
  BY <1>2, <1>3, <1>4 DEF KeptInv

(* The queue is sent along, and stays. *)
LEMMA HidesKept == ASSUME WikiInv, KeptInv, Hides PROVE KeptInv'
<1>1. /\ flight = None /\ orphans' = orphans \cup {Batch} /\ sent' = sent \cup OpIds(Batch)
      /\ UNCHANGED <<document, queue, flight, edits, others, kept, answered, laidOver>>
  BY DEF Hides, Flushes, server, browser
<1>2. /\ \A op \in ToSet(Batch) : Accounted(op) /\ op.op \in OpIds(Batch)
      /\ \A op \in ToSet(Queued) : \A o \in ToSet(Batch) : o.op = op.op => o.text = op.text
  BY BatchAccounted
<1>3. Number' = Number /\ Number \in Nat /\ Known' = Known /\ Queued' = Queued /\ Held' = Held /\ Held = ToSet(Queued)
  BY <1>1, NumberType DEF Number, Known, Queued, Held, WikiInv
<1>4. \A op \in ToSet(Queued) : Accounted(op)'
  <2> TAKE op \in ToSet(Queued)
  <2>1. Accounted(op)
    BY <1>3 DEF KeptInv
  <2>2. \A ops \in orphans' : ops \in orphans \/ \A o \in ToSet(ops) : o.op = op.op => op.text \in laidOver' \cup {o.text}
    BY <1>1, <1>2
  <2> QED
    BY <1>1, <1>3, <2>1, <2>2, StaysAccounted
<1>5. NumbersOK'
  BY <1>1, <1>2, <1>3 DEF KeptInv, NumbersOK, Accounted
<1>6. FlightOK' /\ AnsweredIsKept'
  BY <1>1 DEF KeptInv, FlightOK, AnsweredIsKept
<1> QED
  BY <1>3, <1>4, <1>5, <1>6 DEF KeptInv

(* The request is given up: its ops go back in front of what was typed      *)
(* since.  All that can fold is the first of these into the last of those.  *)
LEMMA FetchFailsKept == ASSUME WikiInv, KeptInv, FetchFails PROVE KeptInv'
<1> DEFINE front == flight.ops
           c0 == CoalesceOps(front \o queue)
<1>1. /\ flight # None /\ flight' = None /\ queue' = front \o queue /\ laidOver' = LaidOver(front, queue)
      /\ orphans' \subseteq orphans \cup {front}
      /\ UNCHANGED <<document, edits, others, kept, answered, sent>>
  BY DEF FetchFails, server
<1>2. /\ front \in Seq(Ops)
      /\ \A op \in ToSet(front) : op \in Held /\ op.op \in sent /\ op.op \in OpIds(front)
      /\ \A op, o \in ToSet(front) : op.op = o.op => op = o
  BY <1>1, FlightHeld
<1>3. queue \in Seq(Ops) /\ Flat(front) /\ Flat(queue) /\ Distinct(front) /\ OpIds(front) \cap OpIds(queue) = {}
  BY <1>1 DEF KeptInv, FlightOK, WikiInv, ClientTypes
<1>4. Queued = queue /\ Distinct(queue)
  BY <1>3, FlatStays DEF Queued, KeptInv
<1> HIDE DEF front
<1>5. /\ \A op \in ToSet(front) : Accounted(op)
      /\ \A op \in ToSet(queue) : Accounted(op) /\ op.op \in OpIds(queue)
  <2>1. \A op \in ToSet(queue) : op \in Held /\ op.op \in OpIds(queue)
    BY <1>3, <1>4, Numbered DEF Held
  <2> QED
    BY <1>2, <2>1 DEF KeptInv
<1>6. Distinct(front \o queue) /\ front \o queue \in Seq(Ops)
  BY <1>2, <1>3, <1>4, DistinctJoined, ConcatProperties
<1>7. Queued' = c0 /\ Distinct(c0)
  BY <1>1, <1>6, CoalesceFacts DEF Queued
<1>8. Held' = ToSet(c0) /\ Number' = Number /\ Number \in Nat /\ Known' = Known
  BY <1>1, <1>7, NumberType DEF Held, Number, Known, WikiInv
<1>9. /\ laidOver \subseteq laidOver'
      /\ front # << >> /\ Last(front).kind = "insert" /\ Last(front).op \in sent /\ queue # << >> /\ Folds(Last(front), queue[1])
            => queue[1].text \in laidOver'
  BY <1>1, <1>3, LaidOverFacts
<1>10. ASSUME NEW op \in ToSet(front) \cup ToSet(queue) PROVE Accounted(op)'
  <2>1. Accounted(op)
    BY <1>5
  <2>2. \A ops \in orphans' : ops \in orphans \/ \A o \in ToSet(ops) : o.op = op.op => op.text \in laidOver' \cup {o.text}
    <3>1. \A o \in ToSet(front) : o.op = op.op => o = op
      BY <1>2, <1>3, <1>5
    <3> QED
      BY <1>1, <3>1
  <2> QED
    BY <1>1, <1>8, <1>9, <2>1, <2>2, StaysAccounted
<1>11. ASSUME NEW c, Seam(front, queue, c) PROVE Accounted(c)'
  <2>0. PICK l, u : l = Last(front) /\ u = queue[1]
    OBVIOUS
  <2>1. front # << >> /\ queue # << >> /\ Folds(l, u) /\ c = Fold(l, u)
    BY <1>11, <2>0 DEF Seam
  <2>2. l \in ToSet(front) /\ l \in Ops
    <3>1. l \in Ops /\ Len(front) \in Nat \ {0} /\ l = front[Len(front)]
      BY <1>2, <2>0, <2>1, EmptySeq, LenProperties, ElementOfSeq DEF Last
    <3> QED
      BY <1>2, <3>1, Numbered
  <2>3. u \in ToSet(queue) /\ u \in Ops
    <3>1. 1 \in 1..Len(queue)
      BY <1>3, <2>1, EmptySeq, LenProperties
    <3> QED
      BY <1>3, <2>0, <3>1, Numbered
  <2>4. c.text = u.text /\ c.op = IF l.kind = "insert" THEN l.op ELSE u.op
    BY <2>1, <2>2, <2>3, FoldFacts
  <2>5. Accounted(l)' /\ Accounted(u)'
    BY <1>10, <2>2, <2>3
  <2>6. l.kind = "insert" => u.text \in laidOver'
    BY <1>2, <1>9, <2>0, <2>1, <2>2
  <2>7. CASE l.kind # "insert"
    BY <2>4, <2>5, <2>7 DEF Accounted, Safe
  <2>8. CASE l.kind = "insert"
    BY <2>4, <2>5, <2>6, <2>8 DEF Accounted, Safe
  <2> QED
    BY <2>7, <2>8
<1>12. \A c \in ToSet(c0) : Accounted(c)'
  BY <1>2, <1>3, <1>10, <1>11, CoalesceJoined
<1>13. NumbersOK'
  <2>1. \A o \in ToSet(front) : o.op \in sent /\ o.op \in Nat /\ o.op < Number
    BY <1>2, <1>5 DEF Accounted
  <2> QED
    BY <1>1, <1>8, <2>1 DEF KeptInv, NumbersOK
<1>14. FlightOK' /\ AnsweredIsKept'
  BY <1>1, <1>9 DEF KeptInv, FlightOK, AnsweredIsKept
<1> QED
  BY <1>7, <1>8, <1>12, <1>13, <1>14 DEF KeptInv

LEMMA InitKept == Init => KeptInv
<1> SUFFICES ASSUME Init PROVE KeptInv
  OBVIOUS
<1>1. queue = << >> /\ flight = None /\ orphans = {} /\ answered = {} /\ Known = {}
  BY DEF Init, Known
<1>2. Queued = << >> /\ ToSet(<< >>) = {} /\ Distinct(<< >>)
  BY <1>1, NoOps DEF Queued
<1> QED
  BY <1>1, <1>2 DEF KeptInv, AnsweredIsKept, NumbersOK, FlightOK, Held

LEMMA OthersKept ==
  ASSUME WikiInv, KeptInv, NEW id \in {b.id : b \in ToSet(past[1]) \cup ToSet(document.blocks)}, NEW base \in {0, document.seq},
         \/ OtherEdits(Op("update", Number, id, base, None))
         \/ base = 0 /\ OtherEdits(Op("delete", Number, id, 0, None))
         \/ base = 0 /\ OtherEdits(Op("insert", Number, Number, 0, id))
  PROVE  KeptInv'
<1>1. /\ Op("update", Number, id, base, None) \in Ops /\ Op("update", Number, id, base, None).op = Number
      /\ Op("delete", Number, id, 0, None) \in Ops /\ Op("delete", Number, id, 0, None).op = Number
      /\ Op("insert", Number, Number, 0, id) \in Ops /\ Op("insert", Number, Number, 0, id).op = Number
  BY OtherOps DEF Op
<1> QED
  BY <1>1, OtherEditsKept

LEMMA NextKept == ASSUME WikiInv, KeptInv, [Next]_vars PROVE KeptInv'
<1>1. CASE Serve \/ TimerFires \/ Receive \/ FetchFails \/ Refused \/ Hides \/ Presses
  BY <1>1, ServeKept, TimerFiresKept, ReceiveKept, FetchFailsKept, RefusedKept, HidesKept, PressesKept
<1>2. CASE Reloads \/ UNCHANGED vars
  BY <1>2, Unmoved DEF Reloads, vars, server, browser, counters, history
<1>3. ASSUME NEW ops \in orphans, ServeOrphan(ops) PROVE KeptInv'
  BY <1>3, ServeOrphanKept
<1>4. ASSUME NEW i \in DOMAIN view, Types(i) \/ Deletes(i) \/ \E to \in 0..Len(view) : Moves(i, to) PROVE KeptInv'
  BY <1>4, TypesKept, DeletesKept, MovesKept
<1>5. ASSUME NEW i \in 0..Len(view), Adds(i) PROVE KeptInv'
  BY <1>5, AddsKept
<1>6. ASSUME NEW id \in {b.id : b \in ToSet(past[1]) \cup ToSet(document.blocks)}, NEW base \in {0, document.seq},
             \/ OtherEdits(Op("update", Number, id, base, None))
             \/ base = 0 /\ OtherEdits(Op("delete", Number, id, 0, None))
             \/ base = 0 /\ OtherEdits(Op("insert", Number, Number, 0, id))
      PROVE  KeptInv'
  BY <1>6, OthersKept
<1>7. ASSUME NEW version \in 1..(document.version - 1), RestoreTo(version) PROVE KeptInv'
  BY <1>7, RestoreToKept
<1> QED
  BY <1>1, <1>2, <1>3, <1>4, <1>5, <1>6, <1>7 DEF Next

(* A text the person was told is safe is kept (wikiOps.ts, mergeOps), but   *)
(* for one that was laid into an insert that had been sent.                 *)
THEOREM AnsweredIsAlwaysKept == Spec => []AnsweredIsKept
<1>1. Init => KeptInv
  BY InitKept
<1>2. WikiInv /\ KeptInv /\ [Next]_vars => KeptInv'
  BY NextKept
<1>3. KeptInv => AnsweredIsKept
  BY DEF KeptInv
<1> QED
  BY <1>1, <1>2, <1>3, WikiInductive, PTL DEF Spec

----------------------------------------------------------------------------
(* The blocks of a batch.                                                   *)
(* What a batch leaves on the page was there, or is of its actor and of an  *)
(* op that is answered as applied; an id that is new is that of an insert;  *)
(* and what it wrote over was there, or two of its ops write the block.     *)
Writes(op, b) == op.id = b.id /\ op.text # None

LEMMA BatchBlocks ==
  ASSUME NEW start \in Sound, NEW ops \in Seq(Ops), NEW actor \in {Me, Other}, start.overwrites = {}
  PROVE  LET m == MergeAll(start, ops, actor)
             N == 1..Len(ops)
         IN /\ \A b \in ToSet(m.blocks) :
                  \/ b \in ToSet(start.blocks)
                  \/ b.by = actor /\ \E k \in N : Writes(ops[k], b) /\ ops[k].op \in m.applied
            /\ \A b \in ToSet(m.blocks) :
                  Has(start.blocks, b.id) \/ \E k \in N : ops[k].kind = "insert" /\ ops[k].id = b.id
            /\ \A b \in m.overwrites :
                  \/ /\ b \in ToSet(start.blocks)
                     /\ \E k \in N : Writes(ops[k], b) /\ (ops[k].kind = "update" => ops[k].base < b.seq)
                  \/ \E j, k \in N : j # k /\ Writes(ops[j], b) /\ Writes(ops[k], b)
<1>1. PICK run : Run(run, start, ops, actor) /\ MergeAll(start, ops, actor) = run[Len(ops)]
  BY MergeAllRuns
<1>2. Len(ops) \in Nat /\ DOMAIN ops = 1..Len(ops) /\ \A n \in 1..Len(ops) : ops[n] \in Ops
  BY LenProperties, ElementOfSeq
<1> DEFINE Old(b) == b \in ToSet(start.blocks)
           New(x, n, b) == b.by = actor /\ \E k \in 1..n : Writes(ops[k], b) /\ ops[k].op \in x.applied
           Named(n, b) == Has(start.blocks, b.id) \/ \E k \in 1..n : ops[k].kind = "insert" /\ ops[k].id = b.id
           Younger(n, b) == \E k \in 1..n : Writes(ops[k], b) /\ (ops[k].kind = "update" => ops[k].base < b.seq)
           Both(n, b) == \E j, k \in 1..n : j # k /\ Writes(ops[j], b) /\ Writes(ops[k], b)
           OK(x, n) == /\ \A b \in ToSet(x.blocks) : (Old(b) \/ New(x, n, b)) /\ Named(n, b)
                       /\ \A b \in x.overwrites : (Old(b) /\ Younger(n, b)) \/ Both(n, b)
           T == {n \in 0..Len(ops) : OK(run[n], n)}
<1>3. 0 \in T
  <2>1. \A b \in ToSet(start.blocks) : Has(start.blocks, b.id)
    BY DEF ToSet, Has
  <2> QED
    BY <1>1, <1>2, <2>1 DEF Run
<1>4. ASSUME NEW n \in 1..Len(ops), n - 1 \in T PROVE n \in T
  <2> DEFINE x == run[n - 1]
             y == run[n]
             op == ops[n]
  <2>1. n \in 0..Len(ops) /\ n - 1 \in 0..Len(ops) /\ n \in 1..n /\ (\A k \in 1..(n - 1) : k \in 1..n /\ k # n)
    BY <1>2
  <2>2. x \in Sound /\ y = MergeOp(x, op, actor) /\ op \in Ops
    BY <1>1, <1>2, <2>1 DEF Run
  <2>3. OK(x, n - 1)
    BY <1>4
  <2> HIDE DEF x, y
  <2>4. x.applied \subseteq y.applied /\ Aged(x, y, op, actor)
    BY <2>2, MergeOpFacts DEF Sound, Taken
  <2>5. ASSUME NEW b \in ToSet(x.blocks) PROVE (Old(b) \/ New(y, n, b)) /\ Named(n, b)
    BY <2>1, <2>3, <2>4, <2>5
  <2>6. ASSUME NEW b \in ToSet(y.blocks), b \notin ToSet(x.blocks) PROVE New(y, n, b) /\ Named(n, b)
    <3>1. /\ b = Stamped(op.id, op.text, x.seq + 1, actor) /\ op.op \in y.applied
          /\ op.text # None /\ (op.kind = "insert" \/ Has(x.blocks, op.id))
      BY <2>4, <2>6 DEF Aged
    <3>2. b.id = op.id /\ b.by = actor
      BY <3>1 DEF Stamped
    <3>3. New(y, n, b)
      BY <2>1, <3>1, <3>2 DEF Writes
    <3>4. ASSUME Has(x.blocks, op.id) PROVE Named(n, b)
      <4>1. PICK c \in ToSet(x.blocks) : c.id = op.id
        BY <3>4 DEF Has, ToSet
      <4> QED
        BY <2>5, <3>2, <4>1
    <3> QED
      BY <2>1, <3>1, <3>2, <3>3, <3>4
  <2>7. ASSUME NEW b \in y.overwrites PROVE (Old(b) /\ Younger(n, b)) \/ Both(n, b)
    <3>1. CASE b \in x.overwrites
      <4>1. (Old(b) /\ Younger(n - 1, b)) \/ Both(n - 1, b)
        BY <2>3, <3>1
      <4>2. Younger(n - 1, b) => Younger(n, b)
        BY <2>1
      <4>3. Both(n - 1, b) => Both(n, b)
        BY <2>1
      <4> QED
        BY <4>1, <4>2, <4>3
    <3>2. CASE b \notin x.overwrites
      <4>1. b \in ToSet(x.blocks) /\ Writes(op, b) /\ (op.kind = "update" => op.base < b.seq)
        BY <2>4, <3>2 DEF Aged, Writes
      <4>2. CASE Old(b)
        BY <2>1, <4>1, <4>2
      <4>3. CASE \E k \in 1..(n - 1) : Writes(ops[k], b)
        BY <2>1, <4>1, <4>3
      <4> QED
        BY <2>3, <4>1, <4>2, <4>3
    <3> QED
      BY <3>1, <3>2
  <2> HIDE DEF Old, New, Named, Younger, Both
  <2>8. OK(y, n)
    BY <2>5, <2>6, <2>7
  <2> QED
    BY <2>1, <2>8 DEF y
<1>5. OK(run[Len(ops)], Len(ops))
  <2>1. T \in SUBSET Nat
    BY <1>2
  <2> HIDE DEF T
  <2>2. Len(ops) \in T
    BY <1>3, <1>4, <2>1, RunsUp
  <2> QED
    BY <2>2 DEF T
<1> QED
  BY <1>1, <1>5

LEMMA TwoOf ==
  ASSUME NEW ops \in Seq(Ops), NEW j \in 1..Len(ops), NEW k \in 1..Len(ops), j # k, NEW b,
         Writes(ops[j], b), Writes(ops[k], b)
  PROVE  Twice(ops, b.id)
<1> DEFINE S == {i \in DOMAIN ops : ops[i].id = b.id /\ ops[i].kind \in {"insert", "update"}}
<1>1. Len(ops) \in Nat /\ DOMAIN ops = 1..Len(ops) /\ \A n \in 1..Len(ops) : ops[n] \in Ops
  BY LenProperties, ElementOfSeq
<1>2. IsFiniteSet(S)
  <2>1. IsFiniteSet(1..Len(ops)) /\ S \subseteq 1..Len(ops)
    BY <1>1, FS_Interval
  <2> QED
    BY <2>1, FS_Subset
<1>3. j \in S /\ k \in S
  BY <1>1 DEF Ops, Writes
<1> HIDE DEF S
<1>4. {j} \cup {k} \subseteq S /\ Cardinality({j} \cup {k}) = 1 + 1
  <2>1. IsFiniteSet({j}) /\ Cardinality({j}) = 1 /\ k \notin {j}
    BY FS_Singleton
  <2>2. Cardinality({j} \cup {k}) = Cardinality({j}) + 1
    BY <2>1, FS_AddElement
  <2>3. {j} \cup {k} \subseteq S
    BY <1>3
  <2> QED
    BY <2>1, <2>2, <2>3
<1>5. 2 <= Cardinality(S)
  BY <1>2, <1>4, FS_Subset
<1>6. Cardinality(S) \in Nat
  BY <1>2, FS_CardinalityType
<1> QED
  BY <1>5, <1>6 DEF Twice, S

(* The same of what is stored, with the block of the server's own.          *)
LEMMA StoreBlocks ==
  ASSUME DocumentOK(document), NEW ops \in Seq(Ops), NEW actor \in {Me, Other}, NEW restored,
         Store(MergeOps(document, ops, actor), restored)
  PROVE  LET r == MergeOps(document, ops, actor)
             filler(b) == b.id = 0 - document.version /\ document'.version = document.version + 1
         IN /\ document' = r.document /\ document'.version \in {document.version, document.version + 1}
            /\ past' = past \/ past' = Append(past, document'.blocks)
            /\ \A b \in ToSet(document'.blocks) :
                  \/ b \in ToSet(document.blocks)
                  \/ b.by = actor /\ \E op \in ToSet(ops) : Writes(op, b) /\ op.op \in r.applied
                  \/ b.by = actor /\ filler(b)
            /\ \A b \in ToSet(document'.blocks) :
                  \/ Has(document.blocks, b.id)
                  \/ \E op \in ToSet(ops) : op.kind = "insert" /\ op.id = b.id
                  \/ filler(b)
            /\ \A b \in r.overwrites :
                  \/ /\ b \in ToSet(document.blocks)
                     /\ \E op \in ToSet(ops) : Writes(op, b) /\ (op.kind = "update" => op.base < b.seq)
                  \/ Twice(ops, b.id)
<1> DEFINE d == document
           start == Starting(d)
           last == MergeAll(start, ops, actor)
           m == Merged(d, ops, actor)
           r == MergeOps(d, ops, actor)
<1>1. /\ r.bumped = (m.took # {} \/ m.lost # {})
      /\ ~r.bumped => r.document.blocks = d.blocks /\ r.document.version = d.version
      /\ r.bumped => r.document.blocks = m.blocks /\ r.document.version = d.version + 1
      /\ r.applied = m.applied /\ r.overwrites = m.overwrites
  <2>1. DocumentOK(d)
    OBVIOUS
  <2> HIDE DEF d
  <2> QED
    BY <2>1, MergeOpsFacts, SMTT(60)
<1>2. m.took = {} => m.blocks = d.blocks
  BY MergedFacts
<1>3. document' = r.document /\ past' = IF r.bumped THEN Append(past, r.document.blocks) ELSE past
  BY DEF Store
<1>4. /\ start \in Sound /\ start.overwrites = {} /\ start.blocks = d.blocks /\ start.took = {}
      /\ 0 - d.version \in Int
  BY StartingFacts DEF Starting, DocumentOK, Documents
<1> HIDE DEF start
<1>5. last \in Sound
  BY <1>4, MergeAllFacts
<1>6. /\ m.applied = last.applied /\ m.overwrites = last.overwrites
      /\ m.blocks = last.blocks \/ \E seq : ToSet(m.blocks) = {Stamped(0 - d.version, 0, seq, actor)}
  <2> DEFINE f == 0 - d.version
  <2>1. f \in Int
    BY <1>4
  <2>2. m = Filled(last, f, actor)
    BY DEF Merged, m, last, start
  <2> HIDE DEF last, d, m, f
  <2>3. /\ m.applied = last.applied /\ m.overwrites = last.overwrites
        /\ m = last \/ ToSet(m.blocks) = {Stamped(f, 0, last.seq + 1, actor)}
    BY <1>5, <2>1, <2>2, FilledFacts
  <2> QED
    BY <2>3 DEF f
<1>7. Len(ops) \in Nat /\ \A k \in 1..Len(ops) : ops[k] \in ToSet(ops)
  BY LenProperties DEF ToSet
<1> DEFINE Old(b) == b \in ToSet(d.blocks)
           New(b) == b.by = actor /\ \E op \in ToSet(ops) : Writes(op, b) /\ op.op \in m.applied
           Named(b) == Has(d.blocks, b.id) \/ \E op \in ToSet(ops) : op.kind = "insert" /\ op.id = b.id
           Younger(b) == \E op \in ToSet(ops) : Writes(op, b) /\ (op.kind = "update" => op.base < b.seq)
           filler(b) == b.id = 0 - d.version /\ document'.version = d.version + 1
<1>8. /\ \A b \in ToSet(last.blocks) : (Old(b) \/ New(b)) /\ Named(b)
      /\ \A b \in last.overwrites : (Old(b) /\ Younger(b)) \/ Twice(ops, b.id)
  <2> DEFINE N == 1..Len(ops)
  <2>1. /\ \A b \in ToSet(last.blocks) :
                  \/ b \in ToSet(start.blocks)
                  \/ b.by = actor /\ \E k \in N : Writes(ops[k], b) /\ ops[k].op \in last.applied
        /\ \A b \in ToSet(last.blocks) :
                  Has(start.blocks, b.id) \/ \E k \in N : ops[k].kind = "insert" /\ ops[k].id = b.id
        /\ \A b \in last.overwrites :
                  \/ /\ b \in ToSet(start.blocks)
                     /\ \E k \in N : Writes(ops[k], b) /\ (ops[k].kind = "update" => ops[k].base < b.seq)
                  \/ \E j, k \in N : j # k /\ Writes(ops[j], b) /\ Writes(ops[k], b)
    BY <1>4, BatchBlocks
  <2> HIDE DEF last, m
  <2>2. \A b \in last.overwrites : (\E j, k \in N : j # k /\ Writes(ops[j], b) /\ Writes(ops[k], b)) => Twice(ops, b.id)
    BY TwoOf
  <2> QED
    BY <1>4, <1>6, <1>7, <2>1, <2>2
<1>9. document'.version \in {d.version, d.version + 1} /\ (past' = past \/ past' = Append(past, document'.blocks))
  BY <1>1, <1>3
<1>10. \A b \in ToSet(d.blocks) : Has(d.blocks, b.id)
  BY DEF ToSet, Has
<1> HIDE DEF d, last, m, r
<1>11. ASSUME NEW b \in ToSet(document'.blocks)
       PROVE  (Old(b) \/ New(b) \/ (b.by = actor /\ filler(b))) /\ (Named(b) \/ filler(b))
  <2>1. CASE ~r.bumped
    BY <1>1, <1>3, <1>10, <1>11, <2>1
  <2>2. CASE r.bumped
    <3>1. b \in ToSet(m.blocks) /\ document'.version = d.version + 1
      BY <1>1, <1>3, <1>11, <2>2
    <3>2. CASE m.blocks = last.blocks
      BY <1>8, <3>1, <3>2
    <3>3. CASE \E seq : ToSet(m.blocks) = {Stamped(0 - d.version, 0, seq, actor)}
      BY <3>1, <3>3 DEF Stamped
    <3> QED
      BY <1>6, <3>2, <3>3
  <2> QED
    BY <1>1, <2>1, <2>2
<1>12. ASSUME NEW b \in r.overwrites
       PROVE  (Old(b) /\ Younger(b)) \/ Twice(ops, b.id)
  BY <1>1, <1>6, <1>8, <1>12
<1> QED
  BY <1>1, <1>3, <1>9, <1>11, <1>12 DEF d, r

----------------------------------------------------------------------------
(* What the person is told about others.                                    *)
(* Every block of the person has a seq the browser has noted, or is written *)
(* by a request whose answer is under way, or is the one a merge put on an  *)
(* empty page; no op that is still to be merged is older than it (Noted).   *)
Waiting == flight # None /\ flight.answer = None
Answering == flight # None /\ flight.answer # None
Unsent == ToSet(queue) \cup (IF Waiting THEN ToSet(flight.ops) ELSE {})

(* Ops that are still to be merged: an insert has an id no page ever had.   *)
Fit(n) == {op \in Ops :
    /\ 0 - document.version < op.id /\ op.op \in Nat /\ op.op < n
    /\ op.kind = "insert" => op.id = op.op /\ \A v \in DOMAIN past : ~Has(past[v], op.id)}
Knowing(b) == {op \in Ops : op.kind = "update" /\ op.id = b.id => b.seq <= op.base}

Filling(b) ==
    /\ b.id < 0 /\ Unsent \subseteq Knowing(b)
    /\ \A v \in ToSet(view) : v.id = b.id => b.seq <= v.seq
Noted(b) ==
    \/ b.id \in DOMAIN own /\ b.seq <= own[b.id]
    \/ Answering /\ \E op \in ToSet(flight.ops) : op.id = b.id /\ op.op \in flight.answer.applied
    \/ Filling(b)

Named == \A v \in DOMAIN past : \A b \in ToSet(past[v]) : 0 - document.version < b.id /\ b.id < Number
Rebased == \A op \in ToSet(flight.ops) : op.kind = "update" /\ op.id \in DOMAIN own => own[op.id] <= op.base
AnswerNoted ==
    /\ \A b \in ToSet(document.blocks) : b.by = Me =>
          b \in ToSet(flight.answer.blocks) /\ \A c \in ToSet(flight.answer.blocks) : c.id = b.id => c = b
    /\ \A c \in ToSet(flight.answer.blocks) : 0 - document.version < c.id
    /\ \A b \in flight.answer.overwrites : b.by = Me => Twice(flight.ops, b.id)

Noticing ==
    /\ orphans = {} /\ Named /\ Unsent \subseteq Fit(Number)
    /\ \A v \in ToSet(view) : 0 - document.version < v.id
    /\ \A b \in ToSet(document.blocks) : b.by = Me => Noted(b)
    /\ Waiting => Rebased
    /\ Answering => AnswerNoted
NoticeInv == unheard \/ Noticing

(* What folding and rebasing do not lead out of. *)
Closed(S) ==
    /\ S \subseteq Ops
    /\ \A last, op \in S : Folds(last, op) => Fold(last, op) \in S
    /\ \A op \in S : \A base \in Nat : op.base <= base => [op EXCEPT !.base = base] \in S

LEMMA RebasedOp ==
  ASSUME NEW op \in Ops, NEW base \in Nat
  PROVE  LET o == [op EXCEPT !.base = base] IN
         /\ o \in Ops /\ o.base = base /\ o.op = op.op /\ o.kind = op.kind /\ o.id = op.id /\ o.text = op.text
  BY DEF Ops

LEMMA FitClosed == ASSUME NEW n PROVE Closed(Fit(n))
<1>1. Fit(n) \subseteq Ops
  BY DEF Fit
<1>2. ASSUME NEW last \in Fit(n), NEW op \in Fit(n), Folds(last, op) PROVE Fold(last, op) \in Fit(n)
  <2> DEFINE f == Fold(last, op)
  <2>1. f \in Ops /\ f.kind = last.kind /\ f.id = last.id /\ f.op = IF last.kind = "insert" THEN last.op ELSE op.op
    BY <1>1, <1>2, FoldFacts
  <2> HIDE DEF f
  <2>2. f \in Fit(n)
    BY <2>1 DEF Fit
  <2> QED
    BY <2>2 DEF f
<1>3. ASSUME NEW op \in Fit(n), NEW base \in Nat PROVE [op EXCEPT !.base = base] \in Fit(n)
  <2> DEFINE o == [op EXCEPT !.base = base]
  <2>1. o \in Ops /\ o.op = op.op /\ o.kind = op.kind /\ o.id = op.id
    BY <1>1, RebasedOp
  <2> HIDE DEF o
  <2>2. o \in Fit(n)
    BY <2>1 DEF Fit
  <2> QED
    BY <2>2 DEF o
<1> QED
  BY <1>1, <1>2, <1>3 DEF Closed

LEMMA KnowingClosed == ASSUME NEW b \in Blocks PROVE Closed(Knowing(b))
<1>1. Knowing(b) \subseteq Ops /\ b.seq \in Nat
  BY DEF Knowing, Blocks
<1>2. ASSUME NEW last \in Knowing(b), NEW op \in Knowing(b), Folds(last, op) PROVE Fold(last, op) \in Knowing(b)
  <2> DEFINE f == Fold(last, op)
  <2>1. f \in Ops /\ f.kind = last.kind /\ f.id = last.id
    BY <1>1, <1>2, FoldFacts
  <2>2. f.base = last.base
    <3>1. last \in Ops
      BY <1>1
    <3> QED
      BY <3>1 DEF Fold, Ops
  <2> HIDE DEF f
  <2>3. f \in Knowing(b)
    BY <2>1, <2>2 DEF Knowing
  <2> QED
    BY <2>3 DEF f
<1>3. ASSUME NEW op \in Knowing(b), NEW base \in Nat, op.base <= base PROVE [op EXCEPT !.base = base] \in Knowing(b)
  <2> DEFINE o == [op EXCEPT !.base = base]
  <2>1. o \in Ops /\ o.base = base /\ o.kind = op.kind /\ o.id = op.id
    BY <1>1, RebasedOp
  <2>2. op.base \in Nat
    BY <1>1 DEF Ops
  <2> HIDE DEF o
  <2>3. o \in Knowing(b)
    BY <1>1, <1>3, <2>1, <2>2 DEF Knowing
  <2> QED
    BY <2>3 DEF o
<1> QED
  BY <1>1, <1>2, <1>3 DEF Closed

LEMMA PushedWithin ==
  ASSUME NEW S, Closed(S), NEW q \in Seq(Ops), ToSet(q) \subseteq S, NEW op \in S
  PROVE  ToSet(Pushed(q, op)) \subseteq S
<1>1. op \in Ops
  BY DEF Closed
<1>2. \A c \in ToSet(Pushed(q, op)) : \/ c \in ToSet(q) \cup {op}
                                      \/ q # << >> /\ Folds(Last(q), op) /\ c = Fold(Last(q), op)
  BY <1>1, PushedOps
<1>3. q # << >> => Last(q) \in ToSet(q)
  BY LenProperties DEF Last, ToSet
<1> QED
  BY <1>2, <1>3 DEF Closed

LEMMA CoalesceWithin ==
  ASSUME NEW S, Closed(S), NEW ops \in Seq(Ops), ToSet(ops) \subseteq S
  PROVE  ToSet(CoalesceOps(ops)) \subseteq S
<1>1. PICK q : Coalescing(q, ops) /\ CoalesceOps(ops) = q[Len(ops)]
  BY CoalesceRuns
<1>2. Len(ops) \in Nat /\ \A n \in 1..Len(ops) : ops[n] \in S
  BY Numbered
<1> DEFINE T == {n \in 0..Len(ops) : ToSet(q[n]) \subseteq S}
<1>3. 0 \in T
  BY <1>1, <1>2 DEF Coalescing, ToSet
<1>4. ASSUME NEW n \in 1..Len(ops), n - 1 \in T PROVE n \in T
  <2>1. n \in 0..Len(ops) /\ n - 1 \in 0..Len(ops) /\ q[n - 1] \in Seq(Ops) /\ q[n] = Pushed(q[n - 1], ops[n])
    BY <1>1, <1>2 DEF Coalescing
  <2>2. ToSet(q[n - 1]) \subseteq S
    BY <1>4
  <2> QED
    BY <1>2, <2>1, <2>2, PushedWithin
<1>5. Len(ops) \in T
  <2>1. T \in SUBSET Nat
    BY <1>2
  <2> HIDE DEF T
  <2> QED
    BY <1>3, <1>4, <2>1, RunsUp
<1> QED
  BY <1>1, <1>5

(* What is sent is of what is queued, and not older than what the browser   *)
(* has put on the blocks itself (withOwnBaseSeq).                           *)
LEMMA BatchWithin ==
  ASSUME ClientTypes, NEW S, Closed(S), ToSet(queue) \subseteq S
  PROVE  /\ ToSet(Batch) \subseteq S
         /\ \A op \in ToSet(Batch) : op.kind = "update" /\ op.id \in DOMAIN own => own[op.id] <= op.base
<1> DEFINE ops == CoalesceOps(queue)
<1>1. ops \in Seq(Ops) /\ ToSet(ops) \subseteq S
  BY CoalesceType, CoalesceWithin DEF ClientTypes
<1>2. Batch = Based(ops)
  BY DEF Batch
<1> HIDE DEF ops
<1>3. /\ Len(ops) \in Nat /\ DOMAIN ops = 1..Len(ops)
      /\ \A i \in 1..Len(ops) : ops[i] \in S /\ ops[i] \in Ops /\ ops[i].base \in Nat
  <2>1. \A i \in 1..Len(ops) : ops[i] \in S /\ ops[i] \in Ops
    BY <1>1, Numbered
  <2> QED
    BY <1>1, <2>1, Numbered DEF Ops
<1>4. DOMAIN Batch = 1..Len(ops)
  BY <1>2, <1>3 DEF Based
<1>5. ASSUME NEW i \in 1..Len(ops)
      PROVE  Batch[i] \in S /\ (Batch[i].kind = "update" /\ Batch[i].id \in DOMAIN own => own[Batch[i].id] <= Batch[i].base)
  <2> DEFINE o == ops[i]
             raised == o.kind = "update" /\ o.id \in DOMAIN own /\ own[o.id] > o.base
  <2>1. o \in S /\ o \in Ops /\ o.base \in Nat
    BY <1>3
  <2>2. Batch[i] = IF raised THEN [o EXCEPT !.base = own[o.id]] ELSE o
    BY <1>2, <1>3 DEF Based
  <2>3. o.id \in DOMAIN own => own[o.id] \in Nat
    BY DEF ClientTypes
  <2> HIDE DEF o
  <2>4. CASE raised
    <3>1. own[o.id] \in Nat /\ o.base <= own[o.id]
      BY <2>1, <2>3, <2>4
    <3>2. Batch[i] \in S
      BY <2>1, <2>2, <2>4, <3>1 DEF Closed
    <3>3. Batch[i].base = own[o.id] /\ Batch[i].id = o.id
      BY <2>1, <2>2, <2>4, <3>1, RebasedOp
    <3> QED
      BY <3>1, <3>2, <3>3
  <2>5. CASE ~raised
    BY <2>1, <2>2, <2>3, <2>5
  <2> QED
    BY <2>4, <2>5
<1> QED
  BY <1>4, <1>5 DEF ToSet

LEMMA NoneQueued == ToSet(<< >>) = {} /\ << >> \in Seq(Ops)
  BY DEF ToSet

LEMMA Sending ==
  ASSUME ClientTypes, Sends, UNCHANGED own
  PROVE  /\ Waiting' /\ ~Answering' /\ Rebased'
         /\ \A S : Closed(S) /\ ToSet(queue) \subseteq S => ToSet(flight'.ops) \subseteq S
<1>1. flight' \in Requests /\ flight' # None /\ flight'.ops = Batch /\ flight'.answer = None
  BY SendsFacts DEF Sends
<1>2. Closed(Ops) /\ ToSet(queue) \subseteq Ops
  <2>1. \A last, op \in Ops : Folds(last, op) => Fold(last, op) \in Ops
    BY FoldFacts
  <2>2. \A op \in Ops : \A base \in Nat : [op EXCEPT !.base = base] \in Ops
    BY RebasedOp
  <2> QED
    BY <2>1, <2>2, Numbered DEF Closed, ClientTypes
<1>3. \A op \in ToSet(Batch) : op.kind = "update" /\ op.id \in DOMAIN own => own[op.id] <= op.base
  BY <1>2, BatchWithin
<1>4. \A S : Closed(S) /\ ToSet(queue) \subseteq S => ToSet(Batch) \subseteq S
  BY BatchWithin
<1>5. Waiting' /\ ~Answering' /\ Rebased'
  BY <1>1, <1>3 DEF Waiting, Answering, Rebased
<1> QED
  BY <1>1, <1>4, <1>5

LEMMA PushUnsent ==
  ASSUME ClientTypes, NEW op \in Ops, NEW structural \in BOOLEAN, Push(op, structural),
         NEW S, Closed(S), Unsent \subseteq S, op \in S
  PROVE  Unsent' \subseteq S
<1> DEFINE left == IF structural /\ Flushes THEN << >> ELSE queue
<1>1. ToSet(queue) \subseteq S /\ (Waiting => ToSet(flight.ops) \subseteq S)
  BY DEF Unsent
<1>2. left \in Seq(Ops) /\ ToSet(left) \subseteq S
  BY <1>1, NoneQueued DEF ClientTypes
<1>3. queue' = CoalesceOps(Append(left, op)) /\ own' = own
      /\ IF structural /\ Flushes THEN Sends ELSE flight' = flight
  BY DEF Push
<1> HIDE DEF left
<1>4. Append(left, op) \in Seq(Ops) /\ ToSet(Append(left, op)) \subseteq S
  <2>1. Append(left, op) \in Seq(Ops) /\ Len(Append(left, op)) = Len(left) + 1 /\ Len(left) \in Nat
        /\ \A i \in 1..(Len(left) + 1) : Append(left, op)[i] = IF i <= Len(left) THEN left[i] ELSE op
    BY <1>2, AppendProperties, LenProperties
  <2>2. \A i \in 1..Len(left) : left[i] \in ToSet(left)
    BY <1>2, Numbered
  <2>3. \A i \in 1..(Len(left) + 1) : i <= Len(left) => i \in 1..Len(left)
    BY <2>1
  <2>4. ToSet(Append(left, op)) = {Append(left, op)[i] : i \in 1..(Len(left) + 1)}
    BY <2>1, Numbered
  <2> QED
    BY <1>2, <2>1, <2>2, <2>3, <2>4
<1>5. ToSet(queue') \subseteq S
  BY <1>3, <1>4, CoalesceWithin
<1>6. Waiting' => ToSet(flight'.ops) \subseteq S
  <2>1. CASE structural /\ Flushes
    BY <1>1, <1>3, <2>1, Sending
  <2>2. CASE ~(structural /\ Flushes)
    BY <1>1, <1>3, <2>2 DEF Waiting
  <2> QED
    BY <2>1, <2>2
<1> QED
  BY <1>5, <1>6 DEF Unsent

LEMMA MembersOf == ASSUME NEW S, NEW s \in Seq(S) PROVE ToSet(s) \subseteq S
  BY LenProperties, ElementOfSeq DEF ToSet

LEMMA PageBlocks ==
  ASSUME WikiInv
  PROVE  /\ document.version \in Nat \ {0} /\ DOMAIN past = 1..document.version
         /\ past[document.version] = document.blocks
         /\ \A v \in DOMAIN past : past[v] \in Seq(Blocks) /\ \A b \in ToSet(past[v]) : b \in Blocks /\ b.id \in Int
         /\ \A b \in ToSet(document.blocks) : b \in Blocks /\ b.id \in Int
<1>1. /\ past \in Seq(Seq(Blocks)) /\ Len(past) = document.version /\ document.version \in Nat \ {0}
      /\ past[document.version] = document.blocks
  BY DEF WikiInv, ServerInv, HistoryInv
<1>2. DOMAIN past = 1..document.version /\ \A v \in DOMAIN past : past[v] \in Seq(Blocks)
  BY <1>1, LenProperties, ElementOfSeq
<1>3. \A v \in DOMAIN past : \A b \in ToSet(past[v]) : b \in Blocks /\ b.id \in Int
  <2> TAKE v \in DOMAIN past
  <2> TAKE b \in ToSet(past[v])
  <2>1. past[v] \in Seq(Blocks)
    BY <1>2
  <2>2. b \in Blocks
    BY <2>1, LenProperties, ElementOfSeq DEF ToSet
  <2> QED
    BY <2>2 DEF Blocks
<1> QED
  BY <1>1, <1>2, <1>3

(* Nothing happens to the page. *)
LEMMA StaysNoticed ==
  ASSUME WikiInv, Noticing, UNCHANGED <<document, past, own, orphans>>, Number \in Nat, Number' \in Nat, Number <= Number',
         \A v \in ToSet(view') : 0 - document.version < v.id,
         Unsent' \subseteq Fit(Number'),
         \A b \in ToSet(document.blocks) : b.by = Me /\ Filling(b) => Filling(b)',
         Waiting' => Rebased',
         Answering \/ Answering' => flight' = flight
  PROVE  Noticing'
<1>1. Named'
  <2>1. \A v \in DOMAIN past : \A b \in ToSet(past[v]) : b.id \in Int /\ 0 - document.version < b.id /\ b.id < Number
    BY PageBlocks DEF Noticing, Named
  <2>2. \A v \in DOMAIN past : \A b \in ToSet(past[v]) : 0 - document.version < b.id /\ b.id < Number'
    BY <2>1
  <2> QED
    BY <2>2 DEF Named
<1>2. Unsent' \subseteq Fit(Number)'
  BY DEF Fit
<1>3. ASSUME NEW b \in ToSet(document.blocks), b.by = Me PROVE Noted(b)'
  <2>1. Noted(b)
    BY <1>3 DEF Noticing
  <2> QED
    BY <1>3, <2>1 DEF Noted, Answering
<1>4. Answering' => AnswerNoted'
  BY DEF Noticing, Answering, AnswerNoted
<1> QED
  BY <1>1, <1>2, <1>3, <1>4 DEF Noticing

(* What is pushed is of a block on the screen, or new. *)
LEMMA PushNotice ==
  ASSUME WikiInv, NoticeInv, NEW op \in Ops, NEW structural \in BOOLEAN, Push(op, structural), op.op = Number,
         Noticing => /\ 0 - document.version < op.id
                     /\ op.kind = "insert" => op.id = Number
                     /\ \A v \in ToSet(view') : v \in ToSet(view) \/ (v.id = Number /\ op.kind = "insert"),
         op.kind = "update" => \E v \in ToSet(view) : v.id = op.id /\ v.seq = op.base
  PROVE  NoticeInv'
<1>1. CASE unheard
  BY <1>1 DEF NoticeInv, Push
<1>2. CASE Noticing
  <2>1. Number \in Nat /\ Number' = Number + 1 /\ UNCHANGED <<document, past, own, orphans>>
    BY DEF Push, server, Number, WikiInv, ClientTypes
  <2>2. \A v \in DOMAIN past : ~Has(past[v], Number)
    <3>1. \A v \in DOMAIN past : \A b \in ToSet(past[v]) : b.id \in Int /\ b.id < Number
      BY <1>2, PageBlocks DEF Noticing, Named
    <3> QED
      BY <2>1, <3>1 DEF Has, ToSet
  <2>3. op \in Fit(Number')
    BY <1>2, <2>1, <2>2 DEF Fit
  <2>4. Unsent \subseteq Fit(Number')
    BY <1>2, <2>1 DEF Noticing, Fit
  <2>5. Unsent' \subseteq Fit(Number')
    BY <2>3, <2>4, FitClosed, PushUnsent DEF WikiInv
  <2>6. \A v \in ToSet(view') : 0 - document.version < v.id
    <3>1. 0 - document.version < Number
      BY <2>1, PageBlocks
    <3> QED
      BY <1>2, <3>1 DEF Noticing
  <2>7. ASSUME NEW b \in ToSet(document.blocks), Filling(b) PROVE Filling(b)'
    <3>1. b \in Blocks
      BY PageBlocks
    <3>2. op \in Knowing(b)
      BY <2>7 DEF Knowing, Filling
    <3>3. Unsent' \subseteq Knowing(b)
      BY <2>7, <3>1, <3>2, KnowingClosed, PushUnsent DEF Filling, WikiInv
    <3>4. b.id # Number /\ \A v \in ToSet(view') : v.id = b.id => b.seq <= v.seq
      <4>1. b.id # Number
        BY <2>1, <2>7, <3>1 DEF Filling, Blocks
      <4> QED
        BY <1>2, <2>7, <4>1 DEF Filling
    <3> QED
      BY <2>7, <3>3, <3>4 DEF Filling, Knowing
  <2>8. (Waiting' => Rebased') /\ (Answering \/ Answering' => flight' = flight)
    <3>1. CASE structural /\ Flushes
      BY <2>1, <3>1, Sending DEF Push, WikiInv, Flushes, Answering
    <3>2. CASE ~(structural /\ Flushes)
      BY <1>2, <2>1, <3>2 DEF Push, Noticing, Waiting, Rebased
    <3> QED
      BY <3>1, <3>2
  <2>9. Noticing'
    BY <1>2, <2>1, <2>5, <2>6, <2>7, <2>8, StaysNoticed
  <2> QED
    BY <2>9 DEF NoticeInv
<1> QED
  BY <1>1, <1>2 DEF NoticeInv

LEMMA WithSet ==
  ASSUME NEW S, NEW s \in Seq(S), NEW e \in S, NEW i \in 1..(Len(s) + 1)
  PROVE  ToSet(InsertAt(s, i, e)) \subseteq ToSet(s) \cup {e}
<1> DEFINE t == InsertAt(s, i, e)
<1>1. t \in Seq(S) /\ Len(t) = Len(s) + 1 /\ Len(s) \in Nat
      /\ \A k \in 1..(Len(s) + 1) : t[k] = IF k < i THEN s[k] ELSE IF k = i THEN e ELSE s[k - 1]
  BY InsertAtFacts, LenProperties
<1> HIDE DEF t
<1>2. DOMAIN t = 1..(Len(s) + 1) /\ DOMAIN s = 1..Len(s)
  BY <1>1, LenProperties
<1>3. \A k \in 1..(Len(s) + 1) : t[k] = e \/ \E j \in 1..Len(s) : t[k] = s[j]
  <2> TAKE k \in 1..(Len(s) + 1)
  <2>1. CASE k < i
    BY <1>1, <2>1
  <2>2. CASE k = i
    BY <1>1, <2>2
  <2>3. CASE k > i
    <3>1. k - 1 \in 1..Len(s) /\ t[k] = s[k - 1]
      BY <1>1, <2>3
    <3> QED
      BY <3>1
  <2> QED
    BY <1>1, <2>1, <2>2, <2>3
<1> QED
  BY <1>2, <1>3 DEF ToSet, t

LEMMA WithoutSet ==
  ASSUME NEW S, NEW s \in Seq(S), NEW i \in 1..Len(s)
  PROVE  ToSet(RemoveAt(s, i)) \subseteq ToSet(s)
<1> DEFINE t == RemoveAt(s, i)
<1>1. t \in Seq(S) /\ Len(t) = Len(s) - 1 /\ Len(s) \in Nat
      /\ \A k \in 1..(Len(s) - 1) : t[k] = IF k < i THEN s[k] ELSE s[k + 1]
  BY RemoveAtFacts, LenProperties
<1> HIDE DEF t
<1>2. DOMAIN t = 1..(Len(s) - 1) /\ DOMAIN s = 1..Len(s)
  BY <1>1, LenProperties
<1>3. \A k \in 1..(Len(s) - 1) : k \in 1..Len(s) /\ k + 1 \in 1..Len(s)
  BY <1>1
<1> QED
  BY <1>1, <1>2, <1>3 DEF ToSet, t

LEMMA SeenSet ==
  ASSUME NEW blocks, NEW v \in ToSet(Seen(blocks))
  PROVE  \E c \in ToSet(blocks) : v.id = c.id /\ v.seq = c.seq
<1>1. PICK i \in DOMAIN Seen(blocks) : v = Seen(blocks)[i]
  BY DEF ToSet
<1>2. i \in DOMAIN blocks /\ Seen(blocks)[i] = [id |-> blocks[i].id, seq |-> blocks[i].seq]
  BY DEF Seen
<1>3. blocks[i] \in ToSet(blocks)
  BY <1>2 DEF ToSet
<1> QED
  BY <1>1, <1>2, <1>3

LEMMA OpFields ==
  ASSUME NEW kind, NEW n, NEW id, NEW base, NEW after
  PROVE  LET op == Op(kind, n, id, base, after) IN
         op.kind = kind /\ op.op = n /\ op.id = id /\ op.base = base
  BY DEF Op

LEMMA TypesNotice == ASSUME WikiInv, NoticeInv, NEW i \in DOMAIN view, Types(i) PROVE NoticeInv'
<1> DEFINE op == Op("update", Number, view[i].id, view[i].seq, None)
<1>1. view[i].id \in Int /\ view[i].seq \in Nat /\ None \in Places /\ view[i] \in ToSet(view)
  BY ViewFacts, NumberType DEF WikiInv, ToSet
<1>2. op \in Ops
  BY <1>1, NewOp DEF WikiInv
<1>3. op.kind = "update" /\ op.op = Number /\ op.id = view[i].id /\ op.base = view[i].seq
  BY OpFields
<1>4. Push(op, FALSE) /\ view' = view
  BY DEF Types
<1> HIDE DEF op
<1> QED
  BY <1>1, <1>2, <1>3, <1>4, PushNotice DEF Noticing

LEMMA DeletesNotice == ASSUME WikiInv, NoticeInv, NEW i \in DOMAIN view, Deletes(i) PROVE NoticeInv'
<1> DEFINE op == Op("delete", Number, view[i].id, 0, None)
<1>1. view[i].id \in Int /\ None \in Places /\ view[i] \in ToSet(view) /\ i \in 1..Len(view)
      /\ view \in Seq([id : Int, seq : Nat])
  BY ViewFacts, NumberType DEF WikiInv, ToSet, ClientTypes
<1>2. op \in Ops
  BY <1>1, NewOp DEF WikiInv
<1>3. op.kind = "delete" /\ op.op = Number /\ op.id = view[i].id
  BY OpFields
<1>4. Push(op, TRUE) /\ ToSet(view') \subseteq ToSet(view)
  BY <1>1, WithoutSet DEF Deletes
<1> HIDE DEF op
<1> QED
  BY <1>1, <1>2, <1>3, <1>4, PushNotice DEF Noticing

LEMMA AddsNotice == ASSUME WikiInv, NoticeInv, NEW i \in 0..Len(view), Adds(i) PROVE NoticeInv'
<1>0. Number \in Nat /\ Number \in Int /\ view \in Seq([id : Int, seq : Nat]) /\ 0 - document.version < Number
  BY NumberType, PageBlocks DEF WikiInv, ClientTypes
<1>1. PICK after \in Places : after = (IF i = 0 THEN None ELSE view[i].id)
  BY AnchorType
<1> DEFINE op == Op("insert", Number, Number, 0, after)
           new == [id |-> Number, seq |-> 0]
<1>2. op \in Ops
  BY <1>0, <1>1, NewOp DEF WikiInv
<1>3. op.kind = "insert" /\ op.op = Number /\ op.id = Number
  BY OpFields
<1>4. Push(op, TRUE) /\ view' = InsertAt(view, i + 1, new)
  BY <1>1 DEF Adds
<1>5. new \in [id : Int, seq : Nat] /\ new.id = Number /\ i + 1 \in 1..(Len(view) + 1)
  BY <1>0, LenProperties
<1> HIDE DEF op, new
<1>6. ToSet(view') \subseteq ToSet(view) \cup {new}
  BY <1>0, <1>4, <1>5, WithSet
<1> QED
  BY <1>0, <1>2, <1>3, <1>4, <1>5, <1>6, PushNotice

LEMMA MovesNotice ==
  ASSUME WikiInv, NoticeInv, NEW i \in DOMAIN view, NEW to \in 0..Len(view), Moves(i, to)
  PROVE  NoticeInv'
<1>1. view[i].id \in Int /\ None \in Places /\ view[i] \in ToSet(view) /\ i \in 1..Len(view)
      /\ view[i] \in [id : Int, seq : Nat] /\ view \in Seq([id : Int, seq : Nat]) /\ Len(view) \in Nat
  BY ViewFacts, NumberType, LenProperties DEF WikiInv, ToSet, ClientTypes
<1>2. PICK after \in Places : after = (IF to = 0 THEN None ELSE view[to].id)
  BY AnchorType
<1> DEFINE op == Op("move", Number, view[i].id, 0, after)
           rest == RemoveAt(view, i)
           k == IF to < i THEN to + 1 ELSE to
<1>3. op \in Ops
  BY <1>1, <1>2, NewOp DEF WikiInv
<1>4. op.kind = "move" /\ op.op = Number /\ op.id = view[i].id
  BY OpFields
<1>5. Push(op, TRUE) /\ view' = InsertAt(rest, k, view[i])
  BY <1>2 DEF Moves
<1> HIDE DEF op
<1>6. ToSet(view') \subseteq ToSet(view)
  <2>1. rest \in Seq([id : Int, seq : Nat]) /\ Len(rest) = Len(view) - 1 /\ ToSet(rest) \subseteq ToSet(view)
    BY <1>1, RemoveAtFacts, WithoutSet
  <2> HIDE DEF rest
  <2>2. k \in 1..(Len(rest) + 1)
    BY <1>1, <2>1
  <2> HIDE DEF k
  <2>3. ToSet(InsertAt(rest, k, view[i])) \subseteq ToSet(rest) \cup {view[i]}
    BY <1>1, <2>1, <2>2, WithSet
  <2> QED
    BY <1>1, <1>5, <2>1, <2>3
<1> QED
  BY <1>1, <1>3, <1>4, <1>5, <1>6, PushNotice DEF Noticing

(* What is queued is sent. *)
LEMMA SendsNotice ==
  ASSUME WikiInv, NoticeInv, Sends, queue' = << >>, flight = None,
         UNCHANGED <<document, past, view, own, orphans, counters, unheard>>
  PROVE  NoticeInv'
<1>1. CASE unheard
  BY <1>1 DEF NoticeInv
<1>2. CASE Noticing
  <2>1. Number' = Number /\ Number \in Nat /\ Number <= Number
    BY NumberType DEF Number, counters, WikiInv
  <2>2. ASSUME NEW S, Closed(S), Unsent \subseteq S PROVE Unsent' \subseteq S
    BY <2>2, Sending, NoneQueued DEF WikiInv, Unsent
  <2>3. Unsent' \subseteq Fit(Number)
    BY <1>2, <2>2, FitClosed DEF Noticing
  <2>4. ASSUME NEW b \in ToSet(document.blocks), Filling(b) PROVE Filling(b)'
    <3>1. b \in Blocks
      BY PageBlocks
    <3>2. Unsent' \subseteq Knowing(b)
      BY <2>2, <2>4, <3>1, KnowingClosed DEF Filling
    <3> QED
      BY <2>4, <3>2 DEF Filling, Knowing
  <2>5. Rebased' /\ ~Answering' /\ ~Answering
    BY Sending DEF WikiInv, Answering
  <2>6. Noticing'
    BY <1>2, <2>1, <2>3, <2>4, <2>5, StaysNoticed DEF Noticing
  <2> QED
    BY <2>6 DEF NoticeInv
<1> QED
  BY <1>1, <1>2 DEF NoticeInv

(* Nothing is sent, and the screen shows what it did, or the page. *)
LEMMA QuietNotice ==
  ASSUME WikiInv, NoticeInv, Unsent' \subseteq Unsent, flight' = flight \/ (~Answering /\ flight' = None),
         UNCHANGED <<document, past, own, orphans, edits, others, unheard>>,
         view' = view \/ view' = Seen(document.blocks)
  PROVE  NoticeInv'
<1>1. CASE unheard
  BY <1>1 DEF NoticeInv
<1>2. CASE Noticing
  <2>1. Number' = Number /\ Number \in Nat /\ Number <= Number
    BY NumberType DEF Number, WikiInv
  <2>2. ASSUME NEW v \in ToSet(Seen(document.blocks))
        PROVE  \E c \in ToSet(document.blocks) : v.id = c.id /\ v.seq = c.seq
    BY SeenSet
  <2>3. \A b, c \in ToSet(document.blocks) : b.id = c.id => b = c
    BY DEF WikiInv, ServerInv, DocumentOK, UniqueIds, ToSet
  <2>4. \A b \in ToSet(document.blocks) : 0 - document.version < b.id
    BY <1>2, PageBlocks DEF Noticing, Named
  <2>5. \A v \in ToSet(view') : 0 - document.version < v.id
    BY <1>2, <2>2, <2>4 DEF Noticing
  <2>6. ASSUME NEW b \in ToSet(document.blocks), Filling(b) PROVE Filling(b)'
    <3>1. b.seq <= b.seq
      BY PageBlocks DEF Blocks
    <3>2. \A v \in ToSet(view') : v.id = b.id => b.seq <= v.seq
      BY <2>2, <2>3, <2>6, <3>1 DEF Filling
    <3> QED
      BY <2>6, <3>2 DEF Filling, Knowing
  <2>7. Waiting' => Rebased'
    BY <1>2 DEF Noticing, Waiting, Rebased
  <2>8. Answering \/ Answering' => flight' = flight
    BY DEF Answering
  <2>9. Unsent' \subseteq Fit(Number)
    BY <1>2 DEF Noticing
  <2>10. Noticing'
    BY <1>2, <2>1, <2>5, <2>6, <2>7, <2>8, <2>9, StaysNoticed
  <2> QED
    BY <2>10 DEF NoticeInv
<1> QED
  BY <1>1, <1>2 DEF NoticeInv

LEMMA TimerFiresNotice == ASSUME WikiInv, NoticeInv, TimerFires PROVE NoticeInv'
<1>1. CASE Flushes
  BY <1>1, SendsNotice DEF TimerFires, server, Flushes
<1>2. CASE ~Flushes
  <2>1. UNCHANGED <<document, past, own, orphans, edits, others, unheard, view, queue, flight>>
    BY <1>2 DEF TimerFires, server, counters
  <2>2. Unsent' = Unsent
    BY <2>1 DEF Unsent, Waiting
  <2> QED
    BY <2>1, <2>2, QuietNotice
<1> QED
  BY <1>1, <1>2

LEMMA PressesNotice == ASSUME WikiInv, NoticeInv, Presses PROVE NoticeInv'
  BY SendsNotice DEF Presses, server, Flushes

LEMMA RefusedNotice == ASSUME WikiInv, NoticeInv, Refused PROVE NoticeInv'
<1>1. CASE unheard \/ flight.answer # None
  BY <1>1 DEF Refused, NoticeInv
<1>2. CASE ~unheard /\ flight.answer = None
  <2>1. UNCHANGED <<document, past, own, orphans, edits, others, unheard, view, queue>> /\ flight' = None /\ ~Answering
    BY <1>2 DEF Refused, server, Answering
  <2>2. Unsent' \subseteq Unsent
    BY <2>1 DEF Unsent, Waiting
  <2> QED
    BY <2>1, <2>2, QuietNotice
<1> QED
  BY <1>1, <1>2

LEMMA ReloadsNotice == ASSUME WikiInv, NoticeInv, Reloads \/ UNCHANGED vars PROVE NoticeInv'
<1>1. UNCHANGED <<document, past, own, orphans, edits, others, unheard, queue, flight>>
      /\ (view' = view \/ view' = Seen(document.blocks))
  BY DEF Reloads, vars, server, browser, counters, history
<1>2. Unsent' = Unsent
  BY <1>1 DEF Unsent, Waiting
<1> QED
  BY <1>1, <1>2, QuietNotice

LEMMA UnheardNotice == ASSUME FetchFails \/ Hides PROVE NoticeInv'
  BY DEF FetchFails, Hides, NoticeInv

(* The ids of the pages, when a batch is stored. *)
LEMMA PagesGrow ==
  ASSUME WikiInv, NEW ops \in Seq(Ops), NEW actor \in {Me, Other}, NEW restored,
         Store(MergeOps(document, ops, actor), restored)
  PROVE  /\ document'.version \in {document.version, document.version + 1}
         /\ \A v \in DOMAIN past' : \A b \in ToSet(past'[v]) :
               \/ \E w \in DOMAIN past : \E c \in ToSet(past[w]) : c.id = b.id
               \/ \E op \in ToSet(ops) : op.kind = "insert" /\ op.id = b.id
               \/ b.id = 0 - document.version /\ document'.version = document.version + 1
<1>1. /\ document'.version \in {document.version, document.version + 1}
      /\ past' = past \/ past' = Append(past, document'.blocks)
      /\ \A b \in ToSet(document'.blocks) :
            \/ Has(document.blocks, b.id)
            \/ \E op \in ToSet(ops) : op.kind = "insert" /\ op.id = b.id
            \/ b.id = 0 - document.version /\ document'.version = document.version + 1
  BY StoreBlocks DEF WikiInv, ServerInv
<1>2. /\ document.version \in Nat \ {0} /\ DOMAIN past = 1..document.version
      /\ past[document.version] = document.blocks
  BY PageBlocks
<1>3. \A v \in DOMAIN past' : (v \in DOMAIN past /\ past'[v] = past[v]) \/ past'[v] = document'.blocks
  <2>1. CASE past' = past
    BY <2>1
  <2>2. CASE past' = Append(past, document'.blocks)
    <3>1. past \in Seq(Seq(Blocks)) /\ document'.blocks \in Seq(Blocks)
      BY StoreKeeps DEF WikiInv, ServerInv, HistoryInv, DocumentOK, Documents
    <3>2. /\ past' \in Seq(Seq(Blocks)) /\ Len(past') = Len(past) + 1 /\ Len(past) \in Nat /\ DOMAIN past = 1..Len(past)
          /\ \A i \in 1..(Len(past) + 1) : past'[i] = IF i <= Len(past) THEN past[i] ELSE document'.blocks
      BY <2>2, <3>1, AppendProperties, LenProperties
    <3>3. DOMAIN past' = 1..(Len(past) + 1)
      BY <3>2, LenProperties
    <3> QED
      BY <3>2, <3>3
  <2> QED
    BY <1>1, <2>1, <2>2
<1>4. ASSUME NEW b, Has(document.blocks, b.id) PROVE \E w \in DOMAIN past : \E c \in ToSet(past[w]) : c.id = b.id
  <2>1. document.version \in DOMAIN past
    BY <1>2
  <2>2. \E c \in ToSet(document.blocks) : c.id = b.id
    BY <1>4 DEF Has, ToSet
  <2> QED
    BY <1>2, <2>1, <2>2
<1>5. ASSUME NEW v \in DOMAIN past', NEW b \in ToSet(past'[v])
      PROVE  \/ \E w \in DOMAIN past : \E c \in ToSet(past[w]) : c.id = b.id
             \/ \E op \in ToSet(ops) : op.kind = "insert" /\ op.id = b.id
             \/ b.id = 0 - document.version /\ document'.version = document.version + 1
  <2>1. CASE v \in DOMAIN past /\ past'[v] = past[v]
    BY <1>5, <2>1
  <2>2. CASE past'[v] = document'.blocks
    BY <1>1, <1>4, <1>5, <2>2
  <2> QED
    BY <1>3, <2>1, <2>2
<1> QED
  BY <1>1, <1>5

LEMMA NamedStays ==
  ASSUME WikiInv, Named, NEW ops \in Seq(Ops), NEW actor \in {Me, Other}, NEW restored,
         Store(MergeOps(document, ops, actor), restored), Number \in Nat, Number' \in Nat, Number <= Number',
         \A o \in ToSet(ops) : o.kind = "insert" => o.id \in Int /\ 0 - document.version < o.id /\ o.id < Number'
  PROVE  Named'
<1> DEFINE V == document.version
           V2 == document'.version
<1>1. V \in Nat \ {0} /\ V2 \in {V, V + 1}
  BY PageBlocks, PagesGrow
<1>2. ASSUME NEW v \in DOMAIN past', NEW b \in ToSet(past'[v]) PROVE 0 - V2 < b.id /\ b.id < Number'
  <2>1. CASE \E w \in DOMAIN past : \E c \in ToSet(past[w]) : c.id = b.id
    <3>1. b.id \in Int /\ 0 - V < b.id /\ b.id < Number
      BY <2>1, PageBlocks DEF Named
    <3> HIDE DEF V, V2
    <3> QED
      BY <1>1, <3>1
  <2>2. CASE \E op \in ToSet(ops) : op.kind = "insert" /\ op.id = b.id
    <3>1. b.id \in Int /\ 0 - V < b.id /\ b.id < Number'
      BY <2>2
    <3> HIDE DEF V, V2
    <3> QED
      BY <1>1, <3>1
  <2>3. CASE b.id = 0 - V /\ V2 = V + 1
    <3> HIDE DEF V, V2
    <3> QED
      BY <1>1, <2>3
  <2> QED
    BY <1>2, <2>1, <2>2, <2>3, PagesGrow
<1> QED
  BY <1>2 DEF Named

(* An op that is still to be merged stays new, unless a batch has put its   *)
(* id on the page.                                                          *)
LEMMA FitStays ==
  ASSUME WikiInv, NEW ops \in Seq(Ops), NEW actor \in {Me, Other}, NEW restored,
         Store(MergeOps(document, ops, actor), restored), Number \in Nat, Number' \in Nat, Number <= Number',
         NEW op \in Fit(Number),
         op.kind = "insert" => \A o \in ToSet(ops) : o.kind = "insert" => o.id # op.id
  PROVE  op \in Fit(Number)'
<1> DEFINE V == document.version
           V2 == document'.version
<1>1. V \in Nat \ {0} /\ V2 \in {V, V + 1}
  BY PageBlocks, PagesGrow
<1>2. op \in Ops /\ op.id \in Int /\ 0 - V < op.id /\ op.op \in Nat /\ op.op < Number
  BY DEF Fit, Ops
<1>3. 0 - V2 < op.id /\ op.op < Number'
  <2> HIDE DEF V, V2
  <2> QED
    BY <1>1, <1>2
<1>4. ASSUME op.kind = "insert" PROVE op.id = op.op /\ \A v \in DOMAIN past' : ~Has(past'[v], op.id)
  <2>1. op.id = op.op /\ \A v \in DOMAIN past : ~Has(past[v], op.id)
    BY <1>4 DEF Fit
  <2>2. ASSUME NEW v \in DOMAIN past', Has(past'[v], op.id) PROVE FALSE
    <3>1. PICK b \in ToSet(past'[v]) : b.id = op.id
      BY <2>2 DEF Has, ToSet
    <3>2. ~\E w \in DOMAIN past : \E c \in ToSet(past[w]) : c.id = b.id
      BY <2>1, <3>1 DEF Has, ToSet
    <3>3. b.id # 0 - V
      BY <1>1, <1>2, <2>1, <3>1
    <3> QED
      BY <1>4, <3>1, <3>2, <3>3, PagesGrow
  <2> QED
    BY <2>1, <2>2
<1> QED
  BY <1>2, <1>3, <1>4 DEF Fit

(* Others change the page. *)
LEMMA ForeignNotice ==
  ASSUME WikiInv, NoticeInv, NEW ops \in Seq(Ops), NEW restored, Store(MergeOps(document, ops, Other), restored),
         Noticing => \A o \in ToSet(ops) : o.kind = "insert" =>
            /\ o.id \in Int /\ 0 - document.version < o.id /\ o.id < Number'
            /\ \A op \in Fit(Number) : op.kind = "insert" => op.id # o.id,
         UNCHANGED <<browser, orphans, edits, unheard>>, others' = others + 1
  PROVE  NoticeInv'
<1>1. CASE unheard
  BY <1>1 DEF NoticeInv
<1>2. CASE Noticing
  <2>1. Number \in Nat /\ Number' = Number + 1 /\ Number' \in Nat /\ Number <= Number'
    BY NumberType DEF Number, WikiInv, ClientTypes
  <2>2. UNCHANGED <<queue, flight, view, own>> /\ Unsent' = Unsent
    BY DEF browser, Unsent, Waiting
  <2>3. Named'
    BY <1>2, <2>1, NamedStays DEF Noticing
  <2>4. Unsent' \subseteq Fit(Number)'
    BY <1>2, <2>1, <2>2, FitStays DEF Noticing
  <2>5. document.version \in Nat /\ document'.version \in {document.version, document.version + 1}
    BY PageBlocks, PagesGrow
  <2>6. \A v \in ToSet(view) : v.id \in Int
    <3>1. ToSet(view) \subseteq [id : Int, seq : Nat]
      BY MembersOf DEF WikiInv, ClientTypes
    <3> QED
      BY <3>1
  <2>7. \A v \in ToSet(view') : 0 - document'.version < v.id
    <3>1. \A v \in ToSet(view) : v.id \in Int /\ 0 - document.version < v.id
      BY <1>2, <2>6 DEF Noticing
    <3> QED
      BY <2>2, <2>5, <3>1
  <2>8. ASSUME NEW b \in ToSet(document'.blocks), b.by = Me PROVE b \in ToSet(document.blocks)
    BY <2>8, StoreBlocks, EditingAssumption DEF WikiInv, ServerInv
  <2>9. ASSUME NEW b \in ToSet(document'.blocks), b.by = Me PROVE Noted(b)'
    <3>1. Noted(b)
      BY <1>2, <2>8, <2>9 DEF Noticing
    <3>2. Filling(b) => Filling(b)'
      BY <2>2 DEF Filling, Knowing
    <3> QED
      BY <2>2, <3>1, <3>2 DEF Noted, Answering
  <2>10. Answering' => AnswerNoted'
    <3> SUFFICES ASSUME Answering' PROVE AnswerNoted'
      OBVIOUS
    <3>1. Answering /\ AnswerNoted
      BY <1>2, <2>2 DEF Answering, Noticing
    <3>2. flight.answer.blocks \in Seq(Blocks)
      BY <3>1, FlightFacts DEF WikiInv, Answering, Answers
    <3>3. \A c \in ToSet(flight.answer.blocks) : c.id \in Int /\ 0 - document.version < c.id
      <4>1. ToSet(flight.answer.blocks) \subseteq Blocks
        BY <3>2, MembersOf
      <4> QED
        BY <3>1, <4>1 DEF Blocks, AnswerNoted
    <3>4. \A c \in ToSet(flight.answer.blocks) : 0 - document'.version < c.id
      BY <2>5, <3>3
    <3> QED
      BY <2>2, <2>8, <3>1, <3>4 DEF AnswerNoted
  <2>11. Waiting' => Rebased'
    BY <1>2, <2>2 DEF Noticing, Waiting, Rebased
  <2>12. orphans' = {}
    BY <1>2 DEF Noticing
  <2>13. Noticing'
    BY <2>3, <2>4, <2>7, <2>9, <2>10, <2>11, <2>12 DEF Noticing
  <2> QED
    BY <2>13 DEF NoticeInv
<1> QED
  BY <1>1, <1>2 DEF NoticeInv

LEMMA OtherEditsNotice ==
  ASSUME WikiInv, NoticeInv, NEW op \in Ops, op.op = Number, op.kind = "insert" => op.id = Number, OtherEdits(op)
  PROVE  NoticeInv'
<1>1. <<op>> \in Seq(Ops) /\ ToSet(<<op>>) = {op}
  BY DEF ToSet
<1>2. Number \in Nat /\ Number' = Number + 1 /\ others' = others + 1 /\ edits' = edits /\ document.version \in Nat \ {0}
  BY NumberType, PageBlocks DEF Number, WikiInv, ClientTypes, OtherEdits
<1>3. Number \in Int /\ 0 - document.version < Number /\ Number < Number'
  BY <1>2
<1>4. \A o \in Fit(Number) : o.kind = "insert" => o.id # Number
  BY <1>2 DEF Fit
<1> QED
  BY <1>1, <1>3, <1>4, ForeignNotice DEF OtherEdits

LEMMA RestoreToNotice ==
  ASSUME WikiInv, NoticeInv, NEW version \in 1..(document.version - 1), RestoreTo(version)
  PROVE  NoticeInv'
<1> DEFINE ops == DiffToOps(document.blocks, past[version])
<1>1. /\ ops \in Seq(Ops) /\ ops \in Seq(OwnOps(past[version])) /\ Store(MergeOps(document, ops, Other), TRUE)
      /\ version \in 1..Len(past)
  BY RestoreOps
<1> HIDE DEF ops
<1>2. \A o \in ToSet(ops) : o.kind = "insert" => Has(past[version], o.id)
  BY <1>1, LenProperties, ElementOfSeq DEF ToSet, OwnOps
<1>3. UNCHANGED <<browser, orphans, edits, unheard>> /\ others' = others + 1
  BY DEF RestoreTo
<1>4. Number \in Nat /\ Number' = Number + 1 /\ version \in DOMAIN past
  BY <1>1, <1>3, NumberType, LenProperties DEF Number, WikiInv, ClientTypes, ServerInv, HistoryInv
<1>5. ASSUME Noticing, NEW o \in ToSet(ops), o.kind = "insert"
      PROVE  /\ o.id \in Int /\ 0 - document.version < o.id /\ o.id < Number'
             /\ \A op \in Fit(Number) : op.kind = "insert" => op.id # o.id
  <2>1. Has(past[version], o.id)
    BY <1>2, <1>5
  <2>2. PICK c \in ToSet(past[version]) : c.id = o.id
    BY <2>1 DEF Has, ToSet
  <2>3. o.id \in Int /\ 0 - document.version < o.id /\ o.id < Number
    BY <1>4, <1>5, <2>2, PageBlocks DEF Noticing, Named
  <2> QED
    BY <1>4, <2>1, <2>3 DEF Fit
<1> QED
  BY <1>1, <1>3, <1>5, ForeignNotice

(* The person's own batch is merged: it writes over what it knows.          *)
LEMMA ServeNotice == ASSUME WikiInv, KeptInv, NoticeInv, Serve PROVE NoticeInv'
<1> DEFINE ops == flight.ops
           r == MergeOps(document, ops, Me)
           a == [blocks |-> r.document.blocks, applied |-> r.applied, rejected |-> r.rejected, overwrites |-> r.overwrites]
           V == document.version
<1>1. /\ Waiting /\ ~Answering /\ Store(r, FALSE) /\ flight' = [flight EXCEPT !.answer = a]
      /\ UNCHANGED <<queue, view, own, orphans, counters, unheard>>
  BY DEF Serve, Waiting, Answering
<1>2. ops \in Seq(Ops) /\ flight \in Requests /\ flight' \in Requests /\ flight' # None
  BY ServeFlight, FlightFacts DEF WikiInv, Serve
<1>3. /\ a.blocks = r.document.blocks /\ a.applied = r.applied /\ a.overwrites = r.overwrites
  OBVIOUS
<1> HIDE DEF a, r
<1>4. flight'.ops = ops /\ flight'.answer = a /\ a # None
  <2>1. flight'.ops = ops /\ flight'.answer = a
    BY <1>1, <1>2 DEF Requests
  <2>2. a # None
    BY <2>1, ServeFlight, EditingAssumption
  <2> QED
    BY <2>1, <2>2
<1>5. CASE unheard
  BY <1>1, <1>5 DEF NoticeInv
<1>6. CASE Noticing
  <2> HIDE DEF ops
  <2>1. Number \in Nat /\ Number' = Number /\ Number <= Number
    BY <1>1, NumberType DEF Number, WikiInv, counters
  <2>2. Answering' /\ ~Waiting' /\ Unsent' = ToSet(queue) /\ Unsent' \subseteq Unsent /\ ToSet(ops) \subseteq Unsent
    BY <1>1, <1>2, <1>4 DEF Answering, Waiting, Unsent, ops
  <2>3. Unsent \subseteq Fit(Number) /\ \A op \in Unsent : op \in Ops /\ op.id \in Int /\ 0 - V < op.id /\ op.op \in Nat
    BY <1>6 DEF Noticing, Fit, Ops
  <2>4. /\ document' = r.document /\ document'.version \in {V, V + 1} /\ V \in Nat \ {0}
        /\ \A b \in ToSet(document'.blocks) :
              \/ b \in ToSet(document.blocks)
              \/ b.by = Me /\ \E op \in ToSet(ops) : Writes(op, b) /\ op.op \in r.applied
              \/ b.by = Me /\ b.id = 0 - V /\ document'.version = V + 1
        /\ \A b \in r.overwrites :
              \/ /\ b \in ToSet(document.blocks)
                 /\ \E op \in ToSet(ops) : Writes(op, b) /\ (op.kind = "update" => op.base < b.seq)
              \/ Twice(ops, b.id)
    <3>1. V \in Nat \ {0}
      BY PageBlocks
    <3> QED
      BY <1>1, <1>2, <3>1, StoreBlocks DEF WikiInv, ServerInv, r
  <2>5. Named'
    <3>1. \A o \in ToSet(ops) : o.kind = "insert" => o.id \in Int /\ 0 - V < o.id /\ o.id < Number
      BY <2>2, <2>3 DEF Fit
    <3> QED
      BY <1>1, <1>2, <1>6, <2>1, <3>1, NamedStays DEF Noticing, r
  <2>6. Unsent' \subseteq Fit(Number)'
    <3>1. ASSUME NEW op \in ToSet(queue), NEW o \in ToSet(ops), op.kind = "insert", o.kind = "insert" PROVE o.id # op.id
      <4>1. OpIds(ops) \cap OpIds(queue) = {}
        BY <1>1 DEF KeptInv, FlightOK, Waiting, ops
      <4>2. op.op \in OpIds(queue) /\ o.op \in OpIds(ops)
        BY <3>1 DEF OpIds, ToSet
      <4>3. op.id = op.op /\ o.id = o.op
        BY <2>2, <2>3, <3>1 DEF Fit
      <4> QED
        BY <4>1, <4>2, <4>3
    <3>2. ASSUME NEW op \in ToSet(queue) PROVE op \in Fit(Number)'
      <4>1. op \in Fit(Number)
        BY <2>2, <2>3
      <4> QED
        BY <1>1, <1>2, <2>1, <3>1, <4>1, FitStays DEF r
    <3> QED
      BY <2>2, <3>2
  <2>7. \A v \in ToSet(view) : v.id \in Int /\ 0 - V < v.id
    <3>1. ToSet(view) \subseteq [id : Int, seq : Nat]
      BY MembersOf DEF WikiInv, ClientTypes
    <3> QED
      BY <1>6, <3>1 DEF Noticing
  <2>8. \A v \in ToSet(view') : 0 - document'.version < v.id
    <3> HIDE DEF V
    <3> QED
      BY <1>1, <2>4, <2>7
  <2>9. ASSUME NEW b \in ToSet(document'.blocks), b.by = Me PROVE Noted(b)'
    <3>1. CASE b \in ToSet(document.blocks)
      <4>1. Noted(b)
        BY <1>6, <2>9, <3>1 DEF Noticing
      <4>2. Filling(b) => Filling(b)'
        BY <1>1, <2>2 DEF Filling, Knowing
      <4> QED
        BY <1>1, <4>1, <4>2 DEF Noted
    <3>2. CASE \E op \in ToSet(ops) : Writes(op, b) /\ op.op \in r.applied
      BY <1>3, <1>4, <2>2, <3>2 DEF Noted, Writes
    <3>3. CASE b.id = 0 - V
      <4>1. b.id < 0
        BY <2>4, <3>3
      <4>2. \A v \in ToSet(view') : v.id # b.id
        BY <1>1, <2>4, <2>7, <3>3
      <4>3. \A op \in Unsent' : op \in Ops /\ op.id # b.id
        BY <2>2, <2>3, <2>4, <3>3
      <4>4. Unsent' \subseteq Knowing(b)
        BY <4>3 DEF Knowing
      <4>5. Filling(b)'
        BY <4>1, <4>2, <4>4 DEF Filling, Knowing
      <4> QED
        BY <4>5 DEF Noted
    <3> QED
      BY <2>4, <2>9, <3>1, <3>2, <3>3
  <2>10. ASSUME NEW b \in r.overwrites, b.by = Me PROVE Twice(ops, b.id)
    <3> SUFFICES ASSUME NEW op \in ToSet(ops), b \in ToSet(document.blocks), Writes(op, b),
                        op.kind = "update" => op.base < b.seq
                 PROVE  FALSE
      BY <2>4
    <3>1. op \in Fit(Number) /\ op \in Unsent /\ op.id = b.id /\ op.kind \in {"insert", "update"} /\ op.base \in Nat
      BY <2>2, <2>3 DEF Writes, Ops
    <3>2. b \in Blocks /\ b.seq \in Nat
      BY PageBlocks DEF Blocks
    <3>3. op.kind = "update" /\ op.base < b.seq
      <4>1. Has(past[V], b.id) /\ V \in DOMAIN past
        BY PageBlocks DEF Has, ToSet
      <4> QED
        BY <3>1, <4>1 DEF Fit
    <3>4. CASE b.id \in DOMAIN own /\ b.seq <= own[b.id]
      <4>1. own[b.id] <= op.base
        BY <1>1, <1>6, <3>1, <3>3, <3>4 DEF Noticing, Rebased, ops
      <4>2. own[b.id] \in Nat
        BY <3>4 DEF WikiInv, ClientTypes
      <4> QED
        BY <3>1, <3>2, <3>3, <3>4, <4>1, <4>2
    <3>5. CASE Filling(b)
      BY <3>1, <3>2, <3>3, <3>5 DEF Filling, Knowing
    <3> QED
      BY <1>1, <1>6, <2>10, <3>4, <3>5 DEF Noticing, Noted
  <2>11. AnswerNoted'
    <3>1. \A b, c \in ToSet(document'.blocks) : b.id = c.id => b = c
      BY ServeKeeps DEF WikiInv, ServerInv, DocumentOK, UniqueIds, ToSet
    <3>2. \A c \in ToSet(document'.blocks) : 0 - document'.version < c.id
      <4>1. past'[document'.version] = document'.blocks /\ document'.version \in DOMAIN past'
        BY ServeKeeps, LenProperties DEF WikiInv, ServerInv, HistoryInv
      <4> QED
        BY <2>5, <4>1 DEF Named
    <3> QED
      BY <1>3, <1>4, <2>4, <2>10, <3>1, <3>2 DEF AnswerNoted
  <2>12. orphans' = {}
    BY <1>1, <1>6 DEF Noticing
  <2>13. Noticing'
    BY <2>2, <2>5, <2>6, <2>8, <2>9, <2>11, <2>12 DEF Noticing
  <2> QED
    BY <2>13 DEF NoticeInv
<1> QED
  BY <1>5, <1>6 DEF NoticeInv

LEMMA ServeOrphanNotice == ASSUME WikiInv, NoticeInv, NEW ops, ServeOrphan(ops) PROVE NoticeInv'
  BY DEF ServeOrphan, NoticeInv, Noticing

(* The answer comes: the browser notes the seqs of its blocks (ownSeqsFrom). *)
LEMMA ReceiveNotice == ASSUME WikiInv, NoticeInv, Receive PROVE NoticeInv'
<1> DEFINE a == flight.answer
           alive == {a.blocks[i].id : i \in DOMAIN a.blocks}
           mine == {id \in alive : /\ a.blocks[Index(a.blocks, id)].by = Me
                                   /\ \E i \in DOMAIN flight.ops : flight.ops[i].id = id /\ flight.ops[i].op \in a.applied}
<1>1. /\ Answering /\ flight' = None /\ view' = Seen(a.blocks)
      /\ own' = [id \in mine \cup (DOMAIN own \cap alive) |->
                    IF id \in mine THEN a.blocks[Index(a.blocks, id)].seq ELSE own[id]]
      /\ UNCHANGED <<document, past, queue, orphans, counters, unheard>>
  BY DEF Receive, Answering, server
<1>2. a.blocks \in Seq(Blocks) /\ flight.ops \in Seq(Ops)
  BY <1>1, FlightFacts DEF WikiInv, Answering, Answers
<1> HIDE DEF a
<1>3. CASE unheard
  BY <1>1, <1>3 DEF NoticeInv
<1>4. CASE Noticing
  <2>1. Number' = Number /\ Unsent' = Unsent /\ ~Waiting' /\ ~Answering'
    BY <1>1 DEF Number, counters, Unsent, Waiting, Answering
  <2>2. /\ \A b \in ToSet(document.blocks) : b.by = Me =>
              b \in ToSet(a.blocks) /\ \A c \in ToSet(a.blocks) : c.id = b.id => c = b
        /\ \A c \in ToSet(a.blocks) : 0 - document.version < c.id
    BY <1>1, <1>4 DEF Noticing, AnswerNoted, a
  <2>3. ASSUME NEW b \in ToSet(document.blocks), b.by = Me PROVE Noted(b)'
    <3>1. b \in ToSet(a.blocks) /\ (\A c \in ToSet(a.blocks) : c.id = b.id => c = b) /\ b.seq \in Nat
      BY <2>2, <2>3, PageBlocks DEF Blocks
    <3>2. b.id \in alive /\ Has(a.blocks, b.id)
      BY <3>1 DEF ToSet, Has
    <3>3. a.blocks[Index(a.blocks, b.id)] = b
      <4>1. Index(a.blocks, b.id) \in 1..Len(a.blocks) /\ a.blocks[Index(a.blocks, b.id)].id = b.id
        BY <1>2, <3>2, IndexFacts
      <4>2. a.blocks[Index(a.blocks, b.id)] \in ToSet(a.blocks)
        BY <1>2, <4>1, LenProperties DEF ToSet
      <4> QED
        BY <3>1, <4>1, <4>2
    <3>4. CASE b.id \in DOMAIN own /\ b.seq <= own[b.id]
      <4>1. b.id \in DOMAIN own' /\ (own'[b.id] = b.seq \/ own'[b.id] = own[b.id])
        BY <1>1, <3>2, <3>3, <3>4
      <4> QED
        BY <3>1, <3>4, <4>1 DEF Noted
    <3>5. CASE \E op \in ToSet(flight.ops) : op.id = b.id /\ op.op \in a.applied
      <4>1. \E i \in DOMAIN flight.ops : flight.ops[i].id = b.id /\ flight.ops[i].op \in a.applied
        BY <3>5 DEF ToSet
      <4>2. b.id \in mine
        BY <2>3, <3>2, <3>3, <4>1
      <4>3. b.id \in DOMAIN own' /\ own'[b.id] = b.seq
        BY <1>1, <3>3, <4>2
      <4> QED
        BY <3>1, <4>3 DEF Noted
    <3>6. CASE Filling(b)
      <4>1. ASSUME NEW v \in ToSet(Seen(a.blocks)), v.id = b.id PROVE b.seq <= v.seq
        <5>1. PICK c \in ToSet(a.blocks) : v.id = c.id /\ v.seq = c.seq
          BY SeenSet
        <5> QED
          BY <3>1, <4>1, <5>1
      <4>2. Filling(b)'
        BY <1>1, <2>1, <3>6, <4>1 DEF Filling, Knowing
      <4> QED
        BY <4>2 DEF Noted
    <3> QED
      BY <1>4, <2>3, <3>4, <3>5, <3>6 DEF Noticing, Noted, a
  <2>4. \A v \in ToSet(view') : 0 - document'.version < v.id
    <3>1. ASSUME NEW v \in ToSet(Seen(a.blocks)) PROVE 0 - document.version < v.id
      <4>1. PICK c \in ToSet(a.blocks) : v.id = c.id
        BY SeenSet
      <4> QED
        BY <2>2, <4>1
    <3> QED
      BY <1>1, <3>1
  <2>5. Named' /\ Unsent' \subseteq Fit(Number)' /\ orphans' = {}
    BY <1>1, <1>4, <2>1 DEF Noticing, Named, Fit
  <2>6. Noticing'
    BY <1>1, <2>1, <2>3, <2>4, <2>5 DEF Noticing
  <2> QED
    BY <2>6 DEF NoticeInv
<1> QED
  BY <1>3, <1>4 DEF NoticeInv

LEMMA InitNotice == Init => NoticeInv
<1> SUFFICES ASSUME Init PROVE NoticeInv
  OBVIOUS
<1> DEFINE b == Stamped(1, 1, 1, Other)
<1>1. /\ document.blocks = <<b>> /\ document.version = 1 /\ past = <<<<b>>>> /\ Number = 2
      /\ queue = << >> /\ flight = None /\ orphans = {} /\ view = Seen(<<b>>)
  BY DEF Init, Number
<1>2. b.id = 1 /\ b.by = Other
  BY DEF Stamped
<1> HIDE DEF b
<1>3. ToSet(<<b>>) = {b} /\ DOMAIN past = {1} /\ past[1] = <<b>>
  BY <1>1 DEF ToSet
<1>4. Named
  BY <1>1, <1>2, <1>3 DEF Named
<1>5. \A v \in ToSet(view) : 0 - document.version < v.id
  <2>1. \A v \in ToSet(view) : v.id = 1
    BY <1>1, <1>2, <1>3, SeenSet
  <2> QED
    BY <1>1, <2>1
<1>6. Unsent = {} /\ ~Waiting /\ ~Answering
  BY <1>1, NoneQueued DEF Unsent, Waiting, Answering
<1>7. Noticing
  BY <1>1, <1>2, <1>3, <1>4, <1>5, <1>6, EditingAssumption DEF Noticing
<1> QED
  BY <1>7 DEF NoticeInv

LEMMA OthersNotice ==
  ASSUME WikiInv, NoticeInv, NEW id \in {b.id : b \in ToSet(past[1]) \cup ToSet(document.blocks)}, NEW base \in {0, document.seq},
         \/ OtherEdits(Op("update", Number, id, base, None))
         \/ base = 0 /\ OtherEdits(Op("delete", Number, id, 0, None))
         \/ base = 0 /\ OtherEdits(Op("insert", Number, Number, 0, id))
  PROVE  NoticeInv'
<1>1. /\ Op("update", Number, id, base, None) \in Ops /\ Op("delete", Number, id, 0, None) \in Ops
      /\ Op("insert", Number, Number, 0, id) \in Ops
  BY OtherOps
<1>2. CASE OtherEdits(Op("update", Number, id, base, None))
  BY <1>1, <1>2, OpFields, OtherEditsNotice
<1>3. CASE OtherEdits(Op("delete", Number, id, 0, None))
  BY <1>1, <1>3, OpFields, OtherEditsNotice
<1>4. CASE OtherEdits(Op("insert", Number, Number, 0, id))
  BY <1>1, <1>4, OpFields, OtherEditsNotice
<1> QED
  BY <1>2, <1>3, <1>4

LEMMA NextNotice == ASSUME WikiInv, KeptInv, NoticeInv, [Next]_vars PROVE NoticeInv'
<1>1. CASE Serve \/ TimerFires \/ Receive \/ FetchFails \/ Refused \/ Hides \/ Presses
  BY <1>1, ServeNotice, TimerFiresNotice, ReceiveNotice, UnheardNotice, RefusedNotice, PressesNotice
<1>2. CASE Reloads \/ UNCHANGED vars
  BY <1>2, ReloadsNotice
<1>3. ASSUME NEW ops \in orphans, ServeOrphan(ops) PROVE NoticeInv'
  BY <1>3, ServeOrphanNotice
<1>4. ASSUME NEW i \in DOMAIN view, Types(i) \/ Deletes(i) \/ \E to \in 0..Len(view) : Moves(i, to) PROVE NoticeInv'
  BY <1>4, TypesNotice, DeletesNotice, MovesNotice
<1>5. ASSUME NEW i \in 0..Len(view), Adds(i) PROVE NoticeInv'
  BY <1>5, AddsNotice
<1>6. ASSUME NEW id \in {b.id : b \in ToSet(past[1]) \cup ToSet(document.blocks)}, NEW base \in {0, document.seq},
             \/ OtherEdits(Op("update", Number, id, base, None))
             \/ base = 0 /\ OtherEdits(Op("delete", Number, id, 0, None))
             \/ base = 0 /\ OtherEdits(Op("insert", Number, Number, 0, id))
      PROVE  NoticeInv'
  BY <1>6, OthersNotice
<1>7. ASSUME NEW version \in 1..(document.version - 1), RestoreTo(version) PROVE NoticeInv'
  BY <1>7, RestoreToNotice
<1> QED
  BY <1>1, <1>2, <1>3, <1>4, <1>5, <1>6, <1>7 DEF Next

(* Nobody is told that he was overtaken by himself (ownSeqsFrom), as long   *)
(* as every answer was heard and no batch names the block twice.            *)
THEOREM NoFalseNoticeEver == Spec => []NoFalseNotice
<1>1. Init => WikiInv /\ KeptInv /\ NoticeInv
  BY InitWiki, InitKept, InitNotice
<1>2. WikiInv /\ KeptInv /\ NoticeInv /\ [Next]_vars => (WikiInv /\ KeptInv /\ NoticeInv)'
  BY NextWiki, NextKept, NextNotice
<1>3. NoticeInv => NoFalseNotice
  BY DEF NoticeInv, Noticing, NoFalseNotice, Answering, AnswerNoted
<1> QED
  BY <1>1, <1>2, <1>3, PTL DEF Spec
=============================================================================
