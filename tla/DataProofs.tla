------------------------------ MODULE DataProofs ------------------------------
(***************************************************************************)
(* Proofs about the way data takes.                                        *)
(*                                                                         *)
(* The feed and the indexer's worker, for every page size, every bound on  *)
(* the pages of a poll and every traffic: the store always holds a prefix  *)
(* of the ledger, nothing is passed over by a cursor, and every leg up to  *)
(* the watermark is folded. The inductive invariant says what is still     *)
(* true of pages that were enumerated long ago: they stand a whole page    *)
(* apart, the oldest of a finished walk reaches down to the cursor, and a  *)
(* page open at the tip is still where it was or gone altogether.          *)
(*                                                                         *)
(* The fair-value engine, for every set of offers and every setting: what  *)
(* a leg shows is right whoever lies, and so is what a tick makes of it.   *)
(***************************************************************************)
EXTENDS Indexer, FairValue, SumsLemmas, WellFoundedInduction

------------------------------------------------------------------------------
(* The inductive invariant of the feed.                                     *)

StoreIsPrefix == \E k \in 0 .. tip : rows = 1 .. k

\* A batch follows what is stored and ends at the source's cursor; the cursor that is
\* saved is behind the rows.
BatchFollows ==
    /\ 1 .. src.last \subseteq rows \cup batch.txs
    /\ batch.txs \subseteq 1 .. src.last
    /\ pc \in {"down", "poll"} => batch = Nothing
    /\ pc = "down" => src = FreshSource
    /\ pc = "commit" => batch = Nothing \/ batch.cursor = src.last
    /\ pc = "save" => batch.cursor = src.last
    /\ pc \in {"save", "fold"} => 1 .. src.last \subseteq rows
    /\ 1 .. saved \subseteq rows

\* Pages above d, newest first: a whole page apart, each known by its upper end.
InLine(p, d) ==
    /\ \A i \in DOMAIN p : d < p[i].newest /\ p[i].newest <= tip
    /\ \A i \in DOMAIN p : p[i].before = p[i].newest + 1 \/ (i = 1 /\ p[i].before = Tip)
    /\ \A i, j \in DOMAIN p : i < j => p[j].newest + Limit <= p[i].newest
    /\ \A i \in 1 .. Len(p) - 1 : p[i + 1].newest + Limit = p[i].newest
\* The pages that wait to be emitted are so, above the cursor.
PagesInLine == InLine(src.pending, src.last)

\* Where the walk resumes, or that it got down to the cursor.
WalkGoesOn ==
    LET p == src.pending
    IN  IF src.reached
        THEN p # << >> => p[Len(p)].newest <= src.last + Limit
        ELSE IF p = << >>
             THEN src.before = Tip
             ELSE src.before = p[Len(p)].newest + 1 - Limit /\ src.last < src.before

\* The inductive invariant of the walk.
FeedInv == /\ src.last <= tip /\ StoreIsPrefix /\ BatchFollows
           /\ PagesInLine /\ WalkGoesOn /\ TipPageKept(0)

------------------------------------------------------------------------------
(* The inductive invariant of the pass.                                     *)

\* The slot of a transaction; slots grow with the ledger.
SlotOf(t) == ledger[t].slot
SlotsGrow == /\ \A t \in 1 .. tip : SlotOf(t) > 0
             /\ \A t, u \in 1 .. tip : t <= u => SlotOf(t) <= SlotOf(u)

\* A pass folds the first of the new legs, whatever arrives meanwhile.
PassIsFirst ==
    pass # NoPass =>
        /\ pc = "fold" /\ pass.legs # {} /\ pass.legs \subseteq NewLegs
        /\ \A leg \in pass.legs, other \in NewLegs :
              ~Before(Key(leg), Key(other)) => other \in pass.legs
        /\ \A leg \in pass.legs : leg[1] \in pass.todo \cup takes
        /\ pass.todo \subseteq rows

\* No slot is cut at n.
Ends(n) == \A t \in 1 .. n, u \in n + 1 .. tip : SlotOf(t) < SlotOf(u)
\* What is stored, and what is recorded as done, ends where a slot ends.
StoredSlotsAreWhole ==
    /\ Ends(src.last) /\ Ends(saved)
    /\ \A t \in rows, u \in (1 .. tip) \ rows : SlotOf(t) < SlotOf(u)
\* The watermark is in the slot of a stored transaction, if it has moved at all.
WatermarkIsStored == watermark[1] = 0 \/ \E t \in rows : watermark[1] = SlotOf(t)

\* The inductive part about the pass that needs no premise.
FoldInv == SlotsGrow /\ PassIsFirst

\* No page that waits to be emitted ends inside a slot.
PagesKeepSlots == \A i \in DOMAIN src.pending : Ends(src.pending[i].newest)

------------------------------------------------------------------------------
(* The walk.                                                                *)

\* What the bounds of a feed are.
LEMMA FeedSizes ==
    /\ Limit \in Nat /\ Limit > 0 /\ MaxPages \in Nat /\ MaxPages > 0 /\ MaxTx \in Nat
    /\ Tx \subseteq Nat /\ Tip \notin Tx /\ BlockSizes \subseteq Nat
    /\ \A n \in BlockSizes : n > 0
  BY LimitAssumption, TrafficAssumption DEF Tx, Tip

\* The fields of the source and of its pages.
LEMMA SourceFields ==
    ASSUME FeedTypeOK
    PROVE  /\ src.last \in Nat /\ tip \in Nat /\ saved \in Nat
           /\ src.before \in Nat /\ src.reached \in BOOLEAN
           /\ src.pending \in Seq(PageKey) /\ Len(src.pending) \in Nat
           /\ DOMAIN src.pending = 1 .. Len(src.pending)
           /\ \A i \in DOMAIN src.pending : /\ src.pending[i] \in PageKey
                                            /\ src.pending[i].newest \in Nat
                                            /\ src.pending[i].before \in Nat
<1> DEFINE p == src.pending
<1>1. /\ src.last \in Tx \cup {None} /\ src.before \in Tx \cup {Tip} /\ src.reached \in BOOLEAN
      /\ p \in Seq(PageKey) /\ tip \in Nat /\ saved \in Tx \cup {None}
  BY FeedSizes DEF FeedTypeOK
<1>2. Len(p) \in Nat /\ DOMAIN p = 1 .. Len(p) /\ \A i \in DOMAIN p : p[i] \in PageKey
  BY <1>1
<1>3. \A key \in PageKey : key.newest \in Nat /\ key.before \in Nat
  BY LimitAssumption DEF PageKey, Tx, Tip
<1>4. src.last \in Nat /\ src.before \in Nat /\ saved \in Nat
  BY <1>1, LimitAssumption DEF Tx, None, Tip
<1>5. QED
  BY <1>1, <1>2, <1>3, <1>4

\* What there is to find, above the cursor and below where the walk resumes.
LEMMA FoundAbove ==
    ASSUME FeedTypeOK, FeedInv, ~src.reached
    PROVE  /\ Newest(src.before) \in Nat /\ src.last <= Newest(src.before)
           /\ Newest(src.before) <= tip
           /\ Found \in Nat /\ Found = Newest(src.before) - src.last
           /\ src.pending # << >> =>
                 /\ src.before # Tip
                 /\ Newest(src.before) = src.pending[Len(src.pending)].newest - Limit
           /\ src.before # Tip => src.before = Newest(src.before) + 1
<1> DEFINE N == Newest(src.before)
           m == Len(src.pending)
<1>1. /\ src.last \in Nat /\ tip \in Nat /\ src.before \in Nat /\ Limit \in Nat
      /\ src.last <= tip
  BY SourceFields, FeedSizes DEF FeedInv
<1>2. /\ N \in Nat /\ src.last <= N /\ N <= tip
      /\ src.pending # << >> => src.before # Tip /\ N = src.pending[m].newest - Limit
      /\ src.before # Tip => src.before = N + 1
  <2>1. CASE src.pending = << >>
    BY <1>1, <2>1 DEF FeedInv, WalkGoesOn, Newest
  <2>2. CASE src.pending # << >>
    <3>1. m \in DOMAIN src.pending /\ src.pending[m].newest \in Nat
      BY <2>2, SourceFields
    <3>2. src.pending[m].newest <= tip
      BY <3>1 DEF FeedInv, PagesInLine, InLine
    <3>3. src.before = src.pending[m].newest + 1 - Limit /\ src.last < src.before
      BY <2>2 DEF FeedInv, WalkGoesOn
    <3>4. src.before # Tip
      BY <1>1, <3>3 DEF Tip
    <3>5. N = src.before - 1
      BY <3>4 DEF Newest
    <3> HIDE DEF N
    <3>6. src.before = N + 1 /\ N \in Nat /\ src.last <= N
      BY <1>1, <3>3, <3>5
    <3>7. N = src.pending[m].newest - Limit /\ N <= tip
      <4> DEFINE y == src.pending[m].newest
      <4>1. y \in Nat /\ y <= tip /\ N + 1 = y + 1 - Limit /\ tip \in Nat /\ Limit \in Nat
        BY <1>1, <3>1, <3>2, <3>3, <3>6
      <4> HIDE DEF y
      <4>2. N = y - Limit /\ N <= tip
        BY <3>6, <4>1
      <4>3. QED
        BY <4>2 DEF y
    <3>8. QED
      BY <3>4, <3>6, <3>7
  <2>3. QED
    BY <2>1, <2>2
<1> HIDE DEF N
<1>3. Cardinality(src.last + 1 .. N) = N - src.last
  <2>1. src.last + 1 \in Int /\ N \in Int
    BY <1>1, <1>2
  <2>2. Cardinality(src.last + 1 .. N) =
            IF src.last + 1 > N THEN 0 ELSE N - (src.last + 1) + 1
    BY <2>1, FS_Interval
  <2>3. QED
    BY <1>1, <1>2, <2>2
<1>4. Found = N - src.last
  BY <1>3 DEF Found, Window, N
<1>5. QED
  BY <1>1, <1>2, <1>4 DEF N

\* How many pages of L there are of F transactions, at most M of them: each but the last
\* is full, and short of M nothing is left.
LEMMA PageCount ==
    ASSUME NEW L \in Nat, L > 0, NEW F \in Nat, NEW M \in Nat, M > 0,
           NEW q \in Nat, q = (F + L - 1) \div L, NEW h \in Nat, h = F \div L,
           NEW P \in Nat, P = IF M < q THEN M ELSE q
    PROVE  /\ \A k \in 1 .. P : (k - 1) * L < F
           /\ h < M => F <= P * L
           /\ h >= M => P = M /\ P * L <= F
<1>1. q * L \in Nat /\ q * L <= F + L - 1 /\ F <= q * L
  <2>1. F + L - 1 \in Nat
    OBVIOUS
  <2> DEFINE a == F + L - 1
  <2>2. a = q * L + (a % L) /\ a % L \in 0 .. L - 1
    <3>1. a \in Nat
      BY <2>1
    <3> HIDE DEF a
    <3>2. a = (a \div L) * L + (a % L) /\ a % L \in 0 .. L - 1
      BY <3>1, DivMod
    <3>3. q = a \div L
      BY DEF a
    <3>4. QED
      BY <3>2, <3>3
  <2>3. q * L \in Nat
    BY TimesType
  <2> DEFINE b == q * L
             r == a % L
  <2>4. b \in Nat /\ r \in 0 .. L - 1 /\ F + L - 1 = b + r
    BY <2>2, <2>3
  <2> HIDE DEF b, r
  <2>5. b <= F + L - 1 /\ F <= b
    BY <2>4
  <2>6. QED
    BY <2>3, <2>5 DEF b
<1>2. h * L \in Nat /\ h * L <= F /\ F < h * L + L
  <2>1. F = h * L + (F % L) /\ F % L \in 0 .. L - 1
    BY DivMod
  <2>2. h * L \in Nat
    BY TimesType
  <2> DEFINE b == h * L
             r == F % L
  <2>3. b \in Nat /\ r \in 0 .. L - 1 /\ F = b + r
    BY <2>1, <2>2
  <2> HIDE DEF b, r
  <2>4. b <= F /\ F < b + L
    BY <2>3
  <2>5. QED
    BY <2>2, <2>4 DEF b
<1>3. \A i, j \in Nat : i < j => i * L \in Nat /\ j * L \in Nat /\ i * L + L <= j * L
  <2>1. ASSUME NEW i \in Nat, NEW j \in Nat, i < j
        PROVE  i * L \in Nat /\ j * L \in Nat /\ i * L + L <= j * L
    <3>1. (i + 1) * L <= j * L
      BY <2>1, TimesMono
    <3>2. (i + 1) * L = i * L + L
      OBVIOUS
    <3>3. QED
      BY <3>1, <3>2, TimesType
  <2>2. QED
    BY <2>1
<1>4. \A k \in 1 .. P : (k - 1) * L < F
  <2>1. ASSUME NEW k \in 1 .. P
        PROVE  (k - 1) * L < F
    <3>1. k - 1 \in Nat /\ k - 1 < q
      OBVIOUS
    <3>2. (k - 1) * L \in Nat /\ (k - 1) * L + L <= q * L
      BY <1>3, <3>1
    <3>3. QED
      BY <1>1, <3>2
  <2>2. QED
    BY <2>1
<1>5. ASSUME h < M
      PROVE  F <= P * L
  <2>1. h * L + L <= M * L /\ M * L \in Nat
    BY <1>3, <1>5
  <2>2. F <= M * L
    BY <1>2, <2>1
  <2>3. QED
    BY <1>1, <2>2
<1>6. ASSUME h >= M
      PROVE  P = M /\ P * L <= F
  <2>1. M * L <= h * L /\ M * L \in Nat
    BY <1>6, TimesMono, TimesType
  <2>2. M * L <= F
    BY <1>2, <2>1
  <2>3. ~(q < M)
    <3>1. SUFFICES ASSUME q < M
                   PROVE  FALSE
      OBVIOUS
    <3>2. q * L + L <= M * L
      BY <1>3, <3>1
    <3> DEFINE x == q * L
               y == M * L
    <3>3. x \in Nat /\ y \in Nat /\ x + L <= y /\ y <= F /\ F <= x
      BY <1>1, <2>1, <2>2, <3>2
    <3> HIDE DEF x, y
    <3>4. QED
      BY <3>3
  <2>4. P = M
    BY <2>3
  <2>5. QED
    BY <2>2, <2>4
<1>7. QED
  BY <1>4, <1>5, <1>6

\* The pages of a poll: a whole page apart, above the cursor, and either down to it or
\* as many as there may be.
LEMMA PagesOfPoll ==
    ASSUME FeedTypeOK, FeedInv, ~src.reached
    PROVE  /\ Pages \in Nat
           /\ \A k \in 1 .. Pages :
                 /\ TopOf(k) \in Nat /\ src.last < TopOf(k) /\ TopOf(k) <= tip
                 /\ TopOf(k + 1) \in Int /\ TopOf(k + 1) + Limit = TopOf(k)
           /\ \A j, k \in 1 .. Pages : j < k => TopOf(k) + Limit <= TopOf(j)
           /\ TopOf(1) = Newest(src.before)
           /\ Reached /\ Pages = 0 => Newest(src.before) = src.last
           /\ Reached /\ Pages > 0 => TopOf(Pages) <= src.last + Limit
           /\ ~Reached => Pages > 0 /\ src.last <= TopOf(Pages + 1)
<1> DEFINE N == Newest(src.before)
           F == Found
           L == Limit
           q == (F + L - 1) \div L
           h == F \div L
           P == Pages
<1>1. /\ N \in Nat /\ src.last \in Nat /\ N <= tip /\ tip \in Nat
      /\ F \in Nat /\ F = N - src.last /\ L \in Nat /\ L > 0
      /\ MaxPages \in Nat /\ MaxPages > 0
  BY FoundAbove, SourceFields, FeedSizes
<1>2. q \in Nat /\ h \in Nat
  <2>1. F + L - 1 \in Nat
    BY <1>1
  <2>2. QED
    BY <1>1, <2>1, DivFits
<1>3. P = (IF MaxPages < q THEN MaxPages ELSE q) /\ (Reached <=> h < MaxPages)
  BY DEF Pages, Lowest, Reached
<1>4. P \in Nat
  BY <1>1, <1>2, <1>3
<1>5. /\ \A k \in 1 .. P : (k - 1) * L < F
      /\ h < MaxPages => F <= P * L
      /\ h >= MaxPages => P = MaxPages /\ P * L <= F
  BY <1>1, <1>2, <1>3, <1>4, PageCount
<1>6. \A k \in Nat : TopOf(k + 1) = N - k * L
  BY <1>1 DEF TopOf
<1>7. \A k \in 1 .. P : TopOf(k) = N - (k - 1) * L
  BY DEF TopOf
<1>8. Reached => F <= P * L
  BY <1>3, <1>5
<1>9. ~Reached => P > 0 /\ P * L <= F
  BY <1>1, <1>2, <1>3, <1>5
<1> HIDE DEF N, F, L, q, h, P
<1>10. ASSUME NEW k \in 1 .. P
       PROVE  /\ TopOf(k) \in Nat /\ src.last < TopOf(k) /\ TopOf(k) <= tip
              /\ TopOf(k + 1) \in Int /\ TopOf(k + 1) + L = TopOf(k)
              /\ k * L \in Nat /\ TopOf(k + 1) = N - k * L
  <2>1. k \in Nat /\ k - 1 \in Nat
    BY <1>4
  <2>2. (k - 1) * L \in Nat /\ k * L \in Nat /\ k * L = (k - 1) * L + L
    BY <1>1, <2>1, TimesType
  <2>3. TopOf(k) = N - (k - 1) * L /\ TopOf(k + 1) = N - k * L /\ (k - 1) * L < F
    BY <1>5, <1>6, <1>7, <2>1
  <2> DEFINE a == (k - 1) * L
             b == k * L
  <2>4. a \in Nat /\ b \in Nat /\ b = a + L /\ TopOf(k) = N - a /\ TopOf(k + 1) = N - b /\ a < F
    BY <2>2, <2>3
  <2> HIDE DEF a, b
  <2>5. /\ TopOf(k) \in Nat /\ src.last < TopOf(k) /\ TopOf(k) <= tip
        /\ TopOf(k + 1) \in Int /\ TopOf(k + 1) + L = TopOf(k)
    BY <1>1, <2>4
  <2>6. QED
    BY <2>2, <2>3, <2>5
<1>11. ASSUME NEW j \in 1 .. P, NEW k \in 1 .. P, j < k
       PROVE  TopOf(k) + L <= TopOf(j)
  <2>1. j \in Nat /\ k - 1 \in Nat /\ j <= k - 1
    BY <1>4, <1>11
  <2>2. j * L <= (k - 1) * L /\ j * L \in Nat /\ (k - 1) * L \in Nat
    BY <1>1, <2>1, TimesMono, TimesType
  <2>3. TopOf(k) = N - (k - 1) * L /\ TopOf(j + 1) = N - j * L /\ TopOf(j + 1) + L = TopOf(j)
    BY <1>6, <1>7, <1>10, <2>1
  <2> DEFINE a == (k - 1) * L
             b == j * L
  <2>4. a \in Nat /\ b \in Nat /\ b <= a /\ TopOf(k) = N - a /\ N - b + L = TopOf(j)
    BY <2>2, <2>3
  <2> HIDE DEF a, b
  <2>5. QED
    BY <1>1, <2>4
<1>12. TopOf(1) = N
  BY <1>1 DEF TopOf, N, L
<1>13. Reached /\ P = 0 => N = src.last
  BY <1>1, <1>8
<1>14. Reached /\ P > 0 => TopOf(P) <= src.last + L
  <2>1. SUFFICES ASSUME Reached, P > 0
                 PROVE  TopOf(P) <= src.last + L
    OBVIOUS
  <2>2. P \in 1 .. P
    BY <1>4, <2>1
  <2>3. TopOf(P + 1) + L = TopOf(P) /\ TopOf(P + 1) = N - P * L /\ P * L \in Nat
    BY <1>10, <2>2
  <2> DEFINE b == P * L
  <2>4. b \in Nat /\ F <= b /\ N - b + L = TopOf(P)
    BY <1>8, <2>1, <2>3
  <2> HIDE DEF b
  <2>5. QED
    BY <1>1, <2>4
<1>15. ~Reached => P > 0 /\ src.last <= TopOf(P + 1)
  <2>1. SUFFICES ASSUME ~Reached
                 PROVE  src.last <= TopOf(P + 1)
    BY <1>9
  <2>2. TopOf(P + 1) = N - P * L /\ P * L \in Nat /\ P * L <= F
    BY <1>1, <1>4, <1>6, <1>9, <2>1, TimesType
  <2> DEFINE b == P * L
  <2>3. TopOf(P + 1) = N - b /\ b \in Nat /\ b <= F
    BY <2>2
  <2> HIDE DEF b
  <2>4. QED
    BY <1>1, <2>3
<1>16. QED
  BY <1>4, <1>10, <1>11, <1>12, <1>13, <1>14, <1>15 DEF N, L, P

------------------------------------------------------------------------------
(* The steps of the feed.                                                   *)

\* What the worker does to its feed: its own steps, and the end of a pass.
FeedStep ==
    \/ FeedWork \/ EmitFails \/ Crash
    \/ \E n \in BlockSizes : Arrive(n)
    \/ pc = "fold" /\ NextBatch
    \/ UNCHANGED feedVars

\* The type of the source, and its part of the invariant.
SourceType == [last : Tx \cup {None}, before : Tx \cup {Tip}, pending : Seq(PageKey),
               reached : BOOLEAN]
WalkInv == PagesInLine /\ WalkGoesOn /\ TipPageKept(0)

\* A walk that starts afresh has no page that could be out of line.
LEMMA FreshWalk ==
    ASSUME NEW last \in Tx \cup {None},
           src' = RestartWalk(last) \/ (last = None /\ src' = FreshSource)
    PROVE  src' \in SourceType /\ src'.last = last /\ WalkInv'
<1>1. src' = [last |-> last, before |-> Tip, pending |-> << >>, reached |-> FALSE]
  <2>1. CASE src' = RestartWalk(last)
    BY <2>1 DEF RestartWalk, FreshSource
  <2>2. CASE last = None /\ src' = FreshSource
    BY <2>2 DEF FreshSource
  <2>3. QED
    BY <2>1, <2>2
<1>2. src' \in SourceType
  BY <1>1 DEF SourceType, PageKey
<1>3. src'.pending = << >> /\ ~src'.reached /\ src'.before = Tip /\ src'.last = last
  BY <1>1
<1>4. DOMAIN src'.pending = {} /\ Len(src'.pending) = 0
  BY <1>3
<1>5. PagesInLine' /\ WalkGoesOn' /\ TipPageKept(0)'
  BY <1>3, <1>4 DEF PagesInLine, InLine, WalkGoesOn, TipPageKept
<1>6. QED
  BY <1>2, <1>3, <1>5 DEF WalkInv

\* Blocks arrive: the walk has seen what it has seen, and its tip page is where it was,
\* or gone.
LEMMA ArriveKeeps ==
    ASSUME FeedTypeOK, FeedInv, ~Races, NEW n \in BlockSizes, Arrive(n)
    PROVE  FeedTypeOK' /\ FeedInv'
<1>1. /\ tip' = tip + n /\ tip + n <= MaxTx /\ TipPageKept(n)
      /\ UNCHANGED <<src, pc, batch, rows, saved>>
  BY DEF Arrive
<1>2. n \in Nat /\ tip \in Nat /\ tip' \in Nat /\ tip <= tip' /\ tip' \in 0 .. MaxTx
  BY <1>1, FeedSizes, SourceFields
<1>3. FeedTypeOK'
  BY <1>1, <1>2 DEF FeedTypeOK
<1>4. StoreIsPrefix'
  BY <1>1, <1>2 DEF FeedInv, StoreIsPrefix
<1>5. BatchFollows' /\ WalkGoesOn' /\ src'.last <= tip'
  BY <1>1, <1>2, SourceFields DEF FeedInv, BatchFollows, WalkGoesOn
<1>6. PagesInLine'
  <2>1. \A i \in DOMAIN src.pending : src.pending[i].newest <= tip'
    BY <1>2, SourceFields DEF FeedInv, PagesInLine, InLine
  <2>2. QED
    BY <1>1, <2>1 DEF FeedInv, PagesInLine, InLine
<1>7. TipPageKept(0)'
  <2>1. SUFFICES ASSUME src.pending # << >>, src.pending[1].before = Tip
                 PROVE  LET x == src.pending[1].newest
                        IN  \/ tip' + 0 - x >= Limit
                            \/ tip' + 0 - x + Lowest(Limit, x - src.last) <= Limit
    BY <1>1 DEF TipPageKept
  <2>2. tip' + 0 = tip + n
    BY <1>1, <1>2
  <2> DEFINE x == src.pending[1].newest
  <2>3. x \in Nat
    BY <2>1, SourceFields
  <2>4. tip + n - x >= Limit \/ tip + n - x + Lowest(Limit, x - src.last) <= Limit
    BY <1>1, <2>1 DEF TipPageKept
  <2> HIDE DEF x
  <2>5. tip' + 0 - x >= Limit \/ tip' + 0 - x + Lowest(Limit, x - src.last) <= Limit
    BY <1>1, <1>2, <2>2, <2>3, <2>4
  <2>6. QED
    BY <2>5 DEF x
<1>8. QED
  BY <1>3, <1>4, <1>5, <1>6, <1>7 DEF FeedInv

\* The oldest page of a finished walk, requested again, is all there is between the
\* cursor and its upper end, if that is still in it.
LEMMA PageIsWhole ==
    ASSUME FeedTypeOK, FeedInv, Emitting, Oldest.newest \in Page(Oldest.before)
    PROVE  /\ PageAgain = src.last + 1 .. Oldest.newest
           /\ src.last < Oldest.newest /\ Oldest.newest <= tip /\ Oldest.newest \in Tx
<1> DEFINE p == src.pending
           m == Len(p)
           x == Oldest.newest
           L == Limit
           d == src.last
<1>1. /\ p # << >> /\ src.reached
      /\ m \in DOMAIN p /\ Oldest = p[m] /\ x \in Nat /\ x \in Tx
      /\ L \in Nat /\ d \in Nat /\ tip \in Nat
  <2>1. p # << >> /\ src.reached
    BY DEF Emitting
  <2>2. m \in DOMAIN p /\ Oldest = p[m]
    BY <2>1, SourceFields DEF Oldest
  <2>3. x \in Nat /\ x \in Tx
    BY <2>2, SourceFields DEF PageKey
  <2>4. QED
    BY <2>1, <2>2, <2>3, SourceFields, FeedSizes
<1>2. d < x /\ x <= tip /\ x <= d + L
  BY <1>1 DEF FeedInv, PagesInLine, InLine, WalkGoesOn
<1>3. Oldest.before = x + 1 \/ (m = 1 /\ Oldest.before = Tip)
  BY <1>1 DEF FeedInv, PagesInLine, InLine
<1> HIDE DEF x, d, L
<1> DEFINE N == Newest(Oldest.before)
<1>4. N \in Nat /\ x <= N /\ Highest(d, N - Lowest(L, N)) = d
  <2>1. CASE Oldest.before = x + 1
    <3>1. N = x
      BY <1>1, <2>1 DEF Newest, Tip
    <3>2. QED
      BY <1>1, <1>2, <3>1 DEF Highest, Lowest
  <2>2. CASE m = 1 /\ Oldest.before = Tip
    <3>1. N = tip
      BY <2>2 DEF Newest
    <3>2. tip - x >= L \/ tip - x + Lowest(L, x - d) <= L
      <4>1. p[1] = Oldest /\ p[1].before = Tip /\ tip + 0 - x = tip - x
        BY <1>1, <2>2
      <4>2. QED
        BY <1>1, <4>1 DEF FeedInv, TipPageKept, x, d, L
    <3>3. Highest(d, N - Lowest(L, N)) + 1 <= x
      BY <3>1 DEF Page, x, d, L
    <3>4. ~(tip - x >= L)
      BY <1>1, <1>2, <3>1, <3>3 DEF Highest, Lowest
    <3>5. tip - x + Lowest(L, x - d) <= L
      BY <3>2, <3>4
    <3>6. tip - d <= L
      BY <1>1, <1>2, <3>4, <3>5 DEF Lowest
    <3>7. QED
      BY <1>1, <1>2, <3>1, <3>6 DEF Highest, Lowest
  <2>3. QED
    BY <1>3, <2>1, <2>2
<1> HIDE DEF N
<1>5. Page(Oldest.before) = d + 1 .. N
  BY <1>4 DEF Page, N, d, L
<1>6. PageAgain = d + 1 .. x
  BY <1>1, <1>4, <1>5 DEF PageAgain, x
<1>7. QED
  BY <1>1, <1>2, <1>6 DEF d, x

\* Pages that go on where other pages end are in line with them.
LEMMA PagesJoin ==
    ASSUME NEW p \in Seq(PageKey), NEW K \in Seq(PageKey), NEW d \in Nat, FeedTypeOK,
           InLine(p, d), InLine(K, d),
           p # << >> /\ K # << >> => /\ K[1].before # Tip
                                     /\ K[1].newest + Limit = p[Len(p)].newest
    PROVE  InLine(p \o K, d)
<1> DEFINE m == Len(p)
           P == Len(K)
           L == Limit
           r == p \o K
           t == tip
<1>1. /\ L \in Nat /\ L > 0 /\ t \in Nat /\ m \in Nat /\ P \in Nat
      /\ DOMAIN p = 1 .. m /\ DOMAIN K = 1 .. P
  BY SourceFields, FeedSizes
<1>2. /\ \A i \in 1 .. m : d < p[i].newest /\ p[i].newest <= t
      /\ \A i \in 1 .. m : p[i].before = p[i].newest + 1 \/ (i = 1 /\ p[i].before = Tip)
      /\ \A i, j \in 1 .. m : i < j => p[j].newest + L <= p[i].newest
      /\ \A i \in 1 .. m - 1 : p[i + 1].newest + L = p[i].newest
  BY <1>1 DEF InLine
<1>3. /\ \A i \in 1 .. P : d < K[i].newest /\ K[i].newest <= t
      /\ \A i \in 1 .. P : K[i].before = K[i].newest + 1 \/ (i = 1 /\ K[i].before = Tip)
      /\ \A i, j \in 1 .. P : i < j => K[j].newest + L <= K[i].newest
      /\ \A i \in 1 .. P - 1 : K[i + 1].newest + L = K[i].newest
  BY <1>1 DEF InLine
<1>4. m > 0 /\ P > 0 => K[1].before # Tip /\ K[1].newest + L = p[m].newest
  OBVIOUS
<1>5. /\ r \in Seq(PageKey) /\ Len(r) = m + P
      /\ \A i \in 1 .. m + P : r[i] = IF i <= m THEN p[i] ELSE K[i - m]
  OBVIOUS
<1>6. DOMAIN r = 1 .. m + P
  BY <1>5
<1> HIDE DEF r, m, P, L, t
<1>0. \A key \in PageKey : key.newest \in Nat /\ key.before \in Nat
  BY LimitAssumption DEF PageKey, Tx, Tip
<1>7. \A i \in 1 .. m : r[i] = p[i] /\ p[i].newest \in Nat /\ p[i].before \in Nat
  BY <1>1, <1>5, <1>0 DEF m
<1>8. \A i \in 1 .. P : K[i].newest \in Nat /\ K[i].before \in Nat
  BY <1>1, <1>0 DEF P
<1>9. \A i \in 1 .. m + P : i \in 1 .. m \/ (i - m \in 1 .. P /\ r[i] = K[i - m])
  BY <1>1, <1>5
<1>10. P > 0 => \A i \in 1 .. P : K[i].newest <= K[1].newest
  <2>1. ASSUME NEW i \in 1 .. P
        PROVE  K[i].newest <= K[1].newest
    <3>1. 1 \in 1 .. P /\ (i = 1 \/ 1 < i)
      BY <1>1
    <3>2. 1 < i => K[i].newest + L <= K[1].newest
      BY <1>3, <3>1
    <3>3. QED
      BY <1>1, <1>8, <3>1, <3>2
  <2>2. QED
    BY <2>1
<1>11. m > 0 => \A i \in 1 .. m : p[m].newest <= p[i].newest
  <2>1. ASSUME NEW i \in 1 .. m
        PROVE  p[m].newest <= p[i].newest
    <3>1. m \in 1 .. m /\ (i = m \/ i < m)
      BY <1>1
    <3>2. i < m => p[m].newest + L <= p[i].newest
      BY <1>2, <3>1
    <3>3. QED
      BY <1>1, <1>7, <3>1, <3>2
  <2>2. QED
    BY <2>1
<1> HIDE DEF r
<1>12. ASSUME NEW i \in 1 .. m + P
       PROVE  /\ d < r[i].newest /\ r[i].newest <= t
              /\ r[i].before = r[i].newest + 1 \/ (i = 1 /\ r[i].before = Tip)
  <2>1. CASE i \in 1 .. m
    BY <1>2, <1>7, <2>1
  <2>2. CASE i - m \in 1 .. P /\ i - m = 1
    <3>1. r[i] = K[1] /\ 1 \in 1 .. P
      BY <1>1, <1>9, <2>2
    <3>2. K[1].before = Tip => i = 1
      BY <1>1, <1>4, <2>2
    <3>3. QED
      BY <1>3, <3>1, <3>2
  <2>3. CASE i - m \in 1 .. P /\ i - m # 1
    <3> DEFINE k == i - m
    <3>1. k \in 1 .. P /\ k # 1 /\ r[i] = K[k]
      BY <1>1, <1>9, <2>3
    <3> HIDE DEF k
    <3>2. K[k].before = K[k].newest + 1 /\ d < K[k].newest /\ K[k].newest <= t
      BY <1>3, <3>1
    <3>3. QED
      BY <3>1, <3>2
  <2>4. QED
    BY <1>9, <2>1, <2>2, <2>3
<1>13. ASSUME NEW i \in 1 .. m + P, NEW j \in 1 .. m + P, i < j
       PROVE  r[j].newest + L <= r[i].newest
  <2>1. CASE j \in 1 .. m
    <3>1. i \in 1 .. m
      BY <1>1, <1>13, <2>1
    <3>2. QED
      BY <1>2, <1>7, <1>13, <2>1, <3>1
  <2>2. CASE i \in 1 .. m /\ j \notin 1 .. m
    <3>1. j - m \in 1 .. P /\ r[j] = K[j - m] /\ m > 0 /\ P > 0
      BY <1>1, <1>9, <2>2
    <3> DEFINE x == r[j].newest
               y == r[i].newest
               k == K[1].newest
               q == p[m].newest
    <3>2. x <= k /\ x \in Nat /\ k \in Nat
      <4>1. 1 \in 1 .. P
        BY <1>1, <3>1
      <4>2. QED
        BY <1>8, <1>10, <3>1, <4>1
    <3>3. q <= y /\ q \in Nat /\ y \in Nat
      <4>1. m \in 1 .. m
        BY <1>1, <3>1
      <4>2. QED
        BY <1>7, <1>11, <2>2, <3>1, <4>1
    <3>4. k + L = q
      BY <1>4, <3>1
    <3> HIDE DEF x, y, k, q
    <3>5. x + L <= y
      BY <1>1, <3>2, <3>3, <3>4
    <3>6. QED
      BY <3>5 DEF x, y
  <2>3. CASE i \notin 1 .. m
    <3>1. i - m \in 1 .. P /\ r[i] = K[i - m]
      BY <1>9, <2>3
    <3>2. j \notin 1 .. m
      BY <1>1, <1>13, <2>3
    <3>3. j - m \in 1 .. P /\ r[j] = K[j - m]
      BY <1>9, <3>2
    <3>4. i - m < j - m
      BY <1>1, <1>13
    <3>5. QED
      BY <1>3, <3>1, <3>3, <3>4
  <2>4. QED
    BY <2>1, <2>2, <2>3
<1>14. ASSUME NEW i \in 1 .. m + P - 1
       PROVE  r[i + 1].newest + L = r[i].newest
  <2>1. i \in 1 .. m + P /\ i + 1 \in 1 .. m + P
    BY <1>1
  <2>2. CASE i + 1 \in 1 .. m
    <3>1. i \in 1 .. m - 1 /\ i \in 1 .. m
      BY <1>1, <2>2
    <3>2. QED
      BY <1>2, <1>7, <2>2, <3>1
  <2>3. CASE i = m
    <3>1. m > 0 /\ P > 0 /\ m \in 1 .. m
      BY <1>1, <2>1, <2>3
    <3>2. i + 1 \notin 1 .. m /\ (i + 1) - m = 1
      BY <1>1, <2>3
    <3>3. r[i + 1] = K[1] /\ r[i] = p[m]
      BY <1>7, <1>9, <2>1, <2>3, <3>1, <3>2
    <3>4. QED
      BY <1>4, <3>1, <3>3
  <2>4. CASE i \notin 1 .. m
    <3>1. i - m \in 1 .. P /\ r[i] = K[i - m]
      BY <1>9, <2>1, <2>4
    <3>2. i + 1 \notin 1 .. m
      BY <1>1, <2>4
    <3>3. (i + 1) - m \in 1 .. P /\ r[i + 1] = K[(i + 1) - m]
      BY <1>9, <2>1, <3>2
    <3>4. (i + 1) - m = (i - m) + 1 /\ i - m \in 1 .. P - 1
      BY <1>1, <3>1, <3>3
    <3> DEFINE k == i - m
    <3>5. k \in 1 .. P - 1 /\ r[i] = K[k] /\ r[i + 1] = K[k + 1]
      BY <3>1, <3>3, <3>4
    <3> HIDE DEF k
    <3>6. K[k + 1].newest + L = K[k].newest
      BY <1>3, <3>5
    <3>7. QED
      BY <3>5, <3>6
  <2>5. QED
    BY <1>1, <2>1, <2>2, <2>3, <2>4
<1>15. QED
  <2>1. \A i \in DOMAIN r : d < r[i].newest /\ r[i].newest <= t
    BY <1>6, <1>12
  <2>2. \A i \in DOMAIN r : r[i].before = r[i].newest + 1 \/ (i = 1 /\ r[i].before = Tip)
    BY <1>6, <1>12
  <2>3. \A i, j \in DOMAIN r : i < j => r[j].newest + L <= r[i].newest
    BY <1>6, <1>13
  <2>4. \A i \in 1 .. Len(r) - 1 : r[i + 1].newest + L = r[i].newest
    <3>1. Len(r) = m + P
      BY <1>5
    <3>2. \A i \in 1 .. m + P - 1 : r[i + 1].newest + L = r[i].newest
      BY <1>14
    <3> DEFINE e == m + P - 1
    <3>3. Len(r) - 1 = e
      BY <1>1, <3>1
    <3> HIDE DEF e
    <3>4. QED
      BY <3>2, <3>3 DEF e
  <2>5. InLine(r, d)
    BY <2>1, <2>2, <2>3, <2>4 DEF InLine, L, t
  <2>6. QED
    BY <2>5 DEF r

\* The keys of a poll's pages.
LEMMA KeysOfPoll ==
    ASSUME FeedTypeOK, FeedInv, ~src.reached
    PROVE  /\ Keys \in Seq(PageKey) /\ Len(Keys) = Pages
           /\ \A k \in 1 .. Pages :
                 /\ Keys[k].newest = TopOf(k)
                 /\ Keys[k].before = IF k = 1 THEN src.before ELSE Keys[k].newest + 1
<1> DEFINE P == Pages
           key(k) == [before |-> IF k = 1 THEN src.before ELSE TopOf(k) + 1, newest |-> TopOf(k)]
<1>1. P \in Nat
  BY PagesOfPoll
<1>2. ASSUME NEW k \in 1 .. P
      PROVE  key(k) \in PageKey
  <2> DEFINE x == TopOf(k)
             y == TopOf(1)
             d == src.last
  <2>1. x \in Nat /\ d < x /\ x <= tip
    BY PagesOfPoll
  <2>2. d \in Nat /\ tip \in Nat /\ tip <= MaxTx /\ MaxTx \in Nat
    BY SourceFields, FeedSizes DEF FeedTypeOK
  <2>3. k # 1 => x + Limit <= y /\ y <= tip /\ y \in Nat
    <3>1. SUFFICES ASSUME k # 1
                   PROVE  x + Limit <= y /\ y <= tip /\ y \in Nat
      OBVIOUS
    <3>2. 1 \in 1 .. P /\ 1 < k
      BY <1>1, <3>1
    <3>3. QED
      BY <3>2, PagesOfPoll
  <2>4. src.before \in Tx \cup {Tip}
    BY DEF FeedTypeOK
  <2>5. Limit \in Nat /\ Limit > 0
    BY FeedSizes
  <2> HIDE DEF x, y, d
  <2>6. x \in Tx /\ (k # 1 => x + 1 \in Tx)
    BY <2>1, <2>2, <2>3, <2>5 DEF Tx
  <2>7. (IF k = 1 THEN src.before ELSE x + 1) \in Tx \cup {Tip}
    BY <2>4, <2>6
  <2>8. QED
    BY <2>6, <2>7 DEF PageKey, x
<1> HIDE DEF key
<1>3. Keys = [k \in 1 .. P |-> key(k)]
  BY DEF Keys, key
<1>4. Keys \in [1 .. P -> PageKey]
  BY <1>2, <1>3
<1> HIDE DEF P
<1>5. Keys \in Seq(PageKey) /\ Len(Keys) = P
  BY <1>1, <1>4
<1>6. \A k \in 1 .. P : Keys[k] = key(k)
  BY <1>3
<1>7. ASSUME NEW k \in 1 .. P
      PROVE  /\ Keys[k].newest = TopOf(k)
             /\ Keys[k].before = IF k = 1 THEN src.before ELSE Keys[k].newest + 1
  <2> DEFINE x == TopOf(k)
             b == IF k = 1 THEN src.before ELSE x + 1
  <2>1. Keys[k] = [before |-> b, newest |-> x]
    BY <1>6 DEF key
  <2> HIDE DEF x, b
  <2>2. Keys[k].newest = x /\ Keys[k].before = b
    BY <2>1
  <2>3. QED
    BY <2>2 DEF x, b
<1>8. QED
  BY <1>5, <1>7 DEF P

\* The pages of a poll follow those of the polls before it.
LEMMA EnumerateKeeps ==
    ASSUME FeedTypeOK, FeedInv, Enumerate
    PROVE  FeedTypeOK' /\ FeedInv'
<1> DEFINE p == src.pending
           m == Len(p)
           K == Keys
           P == Pages
           r == p \o K
           d == src.last
           L == Limit
           N == Newest(src.before)
           b == src.before
           W == WalkedTo
<1>1. /\ pc = "poll" /\ ~src.reached
      /\ IF Reached THEN UNCHANGED <<pc, batch>> ELSE pc' = "commit" /\ batch' = Nothing
      /\ UNCHANGED <<tip, rows, saved>>
  BY DEF Enumerate, Emit
<1>2. src' = [src EXCEPT !.before = W, !.pending = r, !.reached = Reached]
  BY DEF Enumerate
<1>3. /\ d \in Nat /\ tip \in Nat /\ L \in Nat /\ L > 0 /\ MaxTx \in Nat /\ tip <= MaxTx
      /\ p \in Seq(PageKey) /\ m \in Nat /\ b \in Nat
      /\ DOMAIN p = 1 .. m
  BY SourceFields, FeedSizes DEF FeedTypeOK
<1>4. P \in Nat
  BY <1>1, PagesOfPoll
<1>5. \A k \in 1 .. P : /\ TopOf(k) \in Nat /\ d < TopOf(k) /\ TopOf(k) <= tip
                        /\ TopOf(k + 1) \in Int /\ TopOf(k + 1) + L = TopOf(k)
  BY <1>1, PagesOfPoll
<1>6. \A j, k \in 1 .. P : j < k => TopOf(k) + L <= TopOf(j)
  BY <1>1, PagesOfPoll
<1>7. /\ TopOf(1) = N
      /\ Reached /\ P = 0 => N = d
      /\ Reached /\ P > 0 => TopOf(P) <= d + L
      /\ ~Reached => P > 0 /\ d <= TopOf(P + 1)
  BY <1>1, PagesOfPoll
<1>8. /\ N \in Nat /\ d <= N /\ N <= tip
      /\ p # << >> => b # Tip /\ N = p[m].newest - L
      /\ b # Tip => b = N + 1
  BY <1>1, FoundAbove
<1>9. /\ K \in Seq(PageKey) /\ Len(K) = P
      /\ \A k \in 1 .. P : /\ K[k].newest = TopOf(k)
                           /\ K[k].before = IF k = 1 THEN b ELSE K[k].newest + 1
  BY <1>1, KeysOfPoll
<1>10. InLine(p, d)
  BY DEF FeedInv, PagesInLine
<1>11. W = IF P = 0 THEN b ELSE Highest(d, TopOf(P + 1)) + 1
  BY DEF WalkedTo
<1>12. TipPageKept(0)
  BY DEF FeedInv
<1> HIDE DEF K, P, N, W
<1>13. m > 0 => b # Tip /\ N + L = p[m].newest
  <2>1. SUFFICES ASSUME m > 0
                 PROVE  b # Tip /\ N + L = p[m].newest
    OBVIOUS
  <2>2. p # << >> /\ m \in 1 .. m
    BY <1>3, <2>1
  <2>3. p[m].newest \in Nat
    BY <1>3, <2>2, SourceFields
  <2> DEFINE x == p[m].newest
  <2>4. b # Tip /\ N = x - L
    BY <1>8, <2>2
  <2>5. x \in Nat /\ L \in Nat
    BY <1>3, <2>3
  <2> HIDE DEF x, L, b
  <2>6. N + L = x
    BY <2>4, <2>5
  <2>7. QED
    BY <2>4, <2>6 DEF x, L, b
<1>14. InLine(K, d)
  <2>1. DOMAIN K = 1 .. P
    BY <1>4, <1>9
  <2>2. \A k \in 1 .. P : d < K[k].newest /\ K[k].newest <= tip
    BY <1>5, <1>9
  <2>3. P > 0 => K[1].newest = N /\ K[1].before = b
    BY <1>4, <1>7, <1>9
  <2>4. ASSUME NEW k \in 1 .. P
        PROVE  K[k].before = K[k].newest + 1 \/ (k = 1 /\ K[k].before = Tip)
    <3>1. CASE k = 1
      <4>1. K[k].newest = N /\ K[k].before = b
        BY <1>4, <2>3, <3>1
      <4>2. QED
        BY <1>8, <3>1, <4>1
    <3>2. CASE k # 1
      BY <1>9, <3>2
    <3>3. QED
      BY <3>1, <3>2
  <2>5. \A i, j \in 1 .. P : i < j => K[j].newest + L <= K[i].newest
    BY <1>6, <1>9
  <2>6. ASSUME NEW i \in 1 .. P - 1
        PROVE  K[i + 1].newest + L = K[i].newest
    <3>1. i \in 1 .. P /\ i + 1 \in 1 .. P
      BY <1>4
    <3>2. K[i + 1].newest = TopOf(i + 1) /\ K[i].newest = TopOf(i)
      BY <1>9, <3>1
    <3>3. QED
      BY <1>5, <3>1, <3>2
  <2>7. QED
    BY <1>9, <2>1, <2>2, <2>4, <2>5, <2>6 DEF InLine
<1>15. p # << >> /\ K # << >> => K[1].before # Tip /\ K[1].newest + L = p[m].newest
  <2>1. SUFFICES ASSUME p # << >>, K # << >>
                 PROVE  K[1].before # Tip /\ K[1].newest + L = p[m].newest
    OBVIOUS
  <2>2. m > 0 /\ 1 \in 1 .. P
    BY <1>3, <1>4, <1>9, <2>1
  <2>3. K[1].newest = N /\ K[1].before = b
    BY <1>7, <1>9, <2>2
  <2>4. QED
    BY <1>13, <2>2, <2>3
<1>16. InLine(r, d)
  BY <1>3, <1>9, <1>10, <1>14, <1>15, PagesJoin
<1>17. /\ r \in Seq(PageKey) /\ Len(r) = m + P
       /\ \A i \in 1 .. m : r[i] = p[i]
       /\ \A i \in 1 .. P : r[m + i] = K[i]
  BY <1>3, <1>4, <1>9
<1>18. W \in Tx \cup {Tip} /\ (P > 0 /\ ~Reached => W = TopOf(P) + 1 - L /\ d < W)
  <2>1. CASE P = 0
    BY <1>11, <2>1 DEF FeedTypeOK
  <2>2. CASE P # 0
    <3> DEFINE x == TopOf(P + 1)
               y == TopOf(P)
    <3>1. P \in 1 .. P
      BY <1>4, <2>2
    <3>2. x \in Int /\ y \in Nat /\ x + L = y /\ y <= tip
      BY <1>5, <3>1
    <3>3. W = Highest(d, x) + 1 /\ (~Reached => d <= x)
      BY <1>7, <1>11, <2>2
    <3>4. d < tip
      BY <1>3, <1>5, <3>1
    <3> HIDE DEF x, y, L
    <3>5. W = (IF d < x THEN x ELSE d) + 1
      BY <3>3 DEF Highest
    <3> HIDE DEF d
    <3>6. W \in Tx
      BY <1>3, <3>2, <3>4, <3>5 DEF Tx
    <3>7. ~Reached => W = y + 1 - L /\ d < W
      BY <1>3, <3>2, <3>3, <3>5
    <3>8. QED
      BY <3>6, <3>7 DEF y, d, L
  <2>3. QED
    BY <2>1, <2>2
<1>19. Reached \in BOOLEAN
  BY DEF Reached
<1>20. /\ src' \in SourceType /\ src'.last = d /\ src'.pending = r
       /\ src'.before = W /\ src'.reached = Reached
  <2>1. src \in SourceType
    BY DEF FeedTypeOK, SourceType
  <2> HIDE DEF r
  <2>2. QED
    BY <1>2, <1>17, <1>18, <1>19, <2>1 DEF SourceType
<1>21. FeedTypeOK'
  <2>1. pc' \in {"down", "poll", "commit", "save", "fold"}
    BY <1>1 DEF FeedTypeOK
  <2>2. batch' \in [txs : SUBSET Tx, cursor : Tx \cup {None}]
    BY <1>1 DEF FeedTypeOK, Nothing
  <2>3. QED
    BY <1>1, <1>20, <2>1, <2>2 DEF FeedTypeOK, SourceType
<1>22. StoreIsPrefix' /\ src'.last <= tip'
  BY <1>1, <1>20 DEF FeedInv, StoreIsPrefix
<1>23. BatchFollows'
  <2>1. batch = Nothing /\ batch' = Nothing
    BY <1>1 DEF FeedInv, BatchFollows
  <2>2. pc' \in {"poll", "commit"}
    BY <1>1
  <2>3. QED
    BY <1>1, <1>20, <2>1, <2>2 DEF FeedInv, BatchFollows
<1> HIDE DEF r
<1>24. PagesInLine'
  BY <1>1, <1>16, <1>20 DEF PagesInLine, InLine
<1>25. WalkGoesOn'
  <2>1. r = << >> <=> m + P = 0
    BY <1>3, <1>4, <1>17
  <2>2. CASE P = 0
    <3>1. Reached /\ N = d
      BY <1>7, <2>2
    <3>2. r # << >> => m > 0 /\ Len(r) = m /\ r[m] = p[m]
      BY <1>3, <1>17, <2>1, <2>2
    <3>3. r # << >> => r[Len(r)].newest <= d + L
      BY <1>3, <1>8, <1>13, <3>1, <3>2
    <3>4. QED
      BY <1>20, <3>1, <3>3 DEF WalkGoesOn
  <2>3. CASE P # 0
    <3>1. P \in 1 .. P /\ P > 0
      BY <1>4, <2>3
    <3>2. Len(r) = m + P /\ r[m + P].newest = TopOf(P) /\ r # << >>
      BY <1>3, <1>9, <1>17, <2>1, <3>1
    <3>3. CASE Reached
      BY <1>7, <1>20, <3>1, <3>2, <3>3 DEF WalkGoesOn
    <3>4. CASE ~Reached
      BY <1>18, <1>20, <3>1, <3>2, <3>4 DEF WalkGoesOn
    <3>5. QED
      BY <3>3, <3>4
  <2>4. QED
    BY <2>2, <2>3
<1>26. TipPageKept(0)'
  <2>1. SUFFICES ASSUME r # << >>, r[1].before = Tip
                 PROVE  LET x == r[1].newest
                        IN  \/ tip + 0 - x >= L
                            \/ tip + 0 - x + Lowest(L, x - d) <= L
    BY <1>1, <1>20 DEF TipPageKept
  <2>2. CASE m > 0
    <3>1. r[1] = p[1] /\ p # << >>
      BY <1>3, <1>17, <2>2
    <3>2. QED
      BY <1>12, <2>1, <3>1 DEF TipPageKept
  <2>3. CASE m = 0
    <3>1. P > 0
      BY <1>3, <1>4, <1>17, <2>1, <2>3
    <3>2. r[1] = K[1]
      BY <1>4, <1>17, <2>3, <3>1
    <3>3. r[1].before = b /\ r[1].newest = N
      BY <1>4, <1>7, <1>9, <3>1, <3>2
    <3>4. N = tip
      BY <2>1, <3>3 DEF Newest, N
    <3>5. QED
      BY <1>3, <3>3, <3>4 DEF Lowest
  <2>4. QED
    BY <1>3, <2>2, <2>3
<1>27. QED
  BY <1>21, <1>22, <1>23, <1>24, <1>25, <1>26 DEF FeedInv

\* The oldest page goes to the sinks, and the source moves on to its upper end.
LEMMA EmitPageKeeps ==
    ASSUME FeedTypeOK, FeedInv, EmitPage
    PROVE  FeedTypeOK' /\ FeedInv'
<1> DEFINE p == src.pending
           m == Len(p)
           r == SubSeq(p, 1, m - 1)
           x == Oldest.newest
           d == src.last
           L == Limit
<1>1. /\ pc = "poll" /\ src.reached /\ p # << >>
      /\ pc' = "commit"
      /\ UNCHANGED <<tip, rows, saved>>
  BY DEF EmitPage, Emitting, Emit
<1>2. src' = [src EXCEPT !.last = x, !.pending = r]
  BY DEF EmitPage, CursorFor, RestOf
<1>3. PageAgain = d + 1 .. x /\ d < x /\ x <= tip /\ x \in Tx
  BY PageIsWhole DEF EmitPage
<1>4. batch' = [txs |-> d + 1 .. x, cursor |-> x]
  BY <1>3 DEF EmitPage, Emit, CursorFor
<1>5. /\ d \in Nat /\ tip \in Nat /\ L \in Nat /\ L > 0 /\ MaxTx \in Nat /\ tip <= MaxTx
      /\ p \in Seq(PageKey) /\ m \in Nat /\ m > 0 /\ DOMAIN p = 1 .. m
      /\ \A i \in 1 .. m : p[i].newest \in Nat
  <2>1. m > 0
    BY <1>1, SourceFields
  <2>2. QED
    BY <2>1, SourceFields, FeedSizes DEF FeedTypeOK
<1>6. x \in Nat /\ x = p[m].newest
  BY <1>3 DEF Tx, Oldest
<1>7. /\ r \in Seq(PageKey) /\ Len(r) = m - 1 /\ DOMAIN r = 1 .. m - 1
      /\ \A i \in 1 .. m - 1 : r[i] = p[i]
  BY <1>5
<1>8. InLine(p, d)
  BY DEF FeedInv, PagesInLine
<1>9. TipPageKept(0)
  BY DEF FeedInv
<1> HIDE DEF r, x
<1>10. src' \in SourceType /\ src'.last = x /\ src'.pending = r /\ src'.reached
  <2>1. src \in SourceType
    BY DEF FeedTypeOK, SourceType
  <2>2. QED
    BY <1>1, <1>2, <1>3, <1>7, <2>1 DEF SourceType
<1>11. FeedTypeOK'
  <2>1. d + 1 .. x \subseteq Tx
    BY <1>3, <1>5, <1>6 DEF Tx
  <2>2. batch' \in [txs : SUBSET Tx, cursor : Tx \cup {None}]
    BY <1>3, <1>4, <2>1
  <2>3. QED
    BY <1>1, <1>10, <2>2 DEF FeedTypeOK, SourceType
<1>12. StoreIsPrefix' /\ src'.last <= tip'
  BY <1>1, <1>3, <1>10 DEF FeedInv, StoreIsPrefix
<1>13. BatchFollows'
  <2>1. batch = Nothing
    BY <1>1 DEF FeedInv, BatchFollows
  <2>2. 1 .. d \subseteq rows /\ 1 .. saved \subseteq rows
    BY <2>1 DEF FeedInv, BatchFollows, Nothing
  <2>3. batch'.txs = d + 1 .. x /\ batch'.cursor = x
    BY <1>4
  <2>4. 1 .. x \subseteq rows' \cup batch'.txs /\ batch'.txs \subseteq 1 .. x
    BY <1>1, <1>5, <1>6, <2>2, <2>3
  <2>5. QED
    BY <1>1, <1>10, <2>2, <2>3, <2>4 DEF BatchFollows
<1>14. PagesInLine'
  <2>1. /\ \A i \in 1 .. m : d < p[i].newest /\ p[i].newest <= tip
        /\ \A i \in 1 .. m : p[i].before = p[i].newest + 1 \/ (i = 1 /\ p[i].before = Tip)
        /\ \A i, j \in 1 .. m : i < j => p[j].newest + L <= p[i].newest
        /\ \A i \in 1 .. m - 1 : p[i + 1].newest + L = p[i].newest
    BY <1>5, <1>8 DEF InLine
  <2>2. \A i \in 1 .. m - 1 : i \in 1 .. m
    BY <1>5
  <2>3. ASSUME NEW i \in 1 .. m - 1
        PROVE  x < r[i].newest /\ r[i].newest <= tip
    <3>1. i \in 1 .. m /\ m \in 1 .. m /\ i < m
      BY <1>5
    <3>2. p[m].newest + L <= p[i].newest /\ p[i].newest \in Nat /\ p[i].newest <= tip
      BY <1>5, <2>1, <3>1
    <3>3. r[i] = p[i]
      BY <1>7
    <3>4. x = p[m].newest /\ x \in Nat /\ L \in Nat /\ L > 0
      BY <1>5, <1>6, <3>1
    <3>5. x + L <= p[i].newest
      BY <3>2, <3>4
    <3>6. x < p[i].newest
      BY <3>2, <3>4, <3>5
    <3>7. QED
      BY <3>2, <3>3, <3>6
  <2>4. \A i \in 1 .. m - 1 : r[i].before = r[i].newest + 1 \/ (i = 1 /\ r[i].before = Tip)
    BY <1>7, <2>1, <2>2
  <2>5. \A i, j \in 1 .. m - 1 : i < j => r[j].newest + L <= r[i].newest
    BY <1>7, <2>1, <2>2
  <2>6. ASSUME NEW i \in 1 .. (m - 1) - 1
        PROVE  r[i + 1].newest + L = r[i].newest
    <3>1. i \in 1 .. m - 1 /\ i + 1 \in 1 .. m - 1
      BY <1>5
    <3>2. QED
      BY <1>7, <2>1, <3>1
  <2>7. QED
    BY <1>1, <1>7, <1>10, <2>3, <2>4, <2>5, <2>6 DEF InLine, PagesInLine
<1>15. WalkGoesOn'
  <2>1. SUFFICES ASSUME r # << >>
                 PROVE  r[Len(r)].newest <= x + L
    BY <1>10 DEF WalkGoesOn
  <2>2. m - 1 \in 1 .. m - 1 /\ (m - 1) + 1 = m
    BY <1>5, <1>7, <2>1
  <2>3. p[(m - 1) + 1].newest + L = p[m - 1].newest
    BY <1>8, <2>2 DEF InLine
  <2>4. r[Len(r)] = p[m - 1]
    BY <1>7, <2>2
  <2>5. QED
    BY <1>5, <1>6, <2>2, <2>3, <2>4
<1>16. TipPageKept(0)'
  <2>1. SUFFICES ASSUME r # << >>, r[1].before = Tip
                 PROVE  LET y == r[1].newest
                        IN  \/ tip + 0 - y >= L
                            \/ tip + 0 - y + Lowest(L, y - x) <= L
    BY <1>1, <1>10 DEF TipPageKept
  <2>2. 1 \in 1 .. m - 1 /\ 1 \in 1 .. m /\ m \in 1 .. m /\ 1 < m
    BY <1>5, <1>7, <2>1
  <2>3. r[1] = p[1]
    BY <1>7, <2>2
  <2> DEFINE y == p[1].newest
  <2>4. y \in Nat /\ x <= y /\ y <= tip
    <3>1. p[m].newest + L <= p[1].newest /\ p[1].newest <= tip
      BY <1>5, <1>8, <2>2 DEF InLine
    <3>2. QED
      BY <1>5, <1>6, <2>2, <3>1
  <2>5. tip + 0 - y >= L \/ tip + 0 - y + Lowest(L, y - d) <= L
    BY <1>1, <1>9, <2>1, <2>3 DEF TipPageKept
  <2> HIDE DEF y, d, L
  <2>6. tip + 0 - y >= L \/ tip + 0 - y + Lowest(L, y - x) <= L
    <3>1. d \in Nat /\ x \in Nat /\ d < x /\ L \in Nat /\ tip \in Nat
      BY <1>3, <1>5, <1>6
    <3>2. Lowest(L, y - x) <= Lowest(L, y - d) /\ Lowest(L, y - x) \in Int
          /\ Lowest(L, y - d) \in Int
      BY <2>4, <3>1 DEF Lowest
    <3>3. QED
      BY <2>4, <2>5, <3>1, <3>2
  <2>7. QED
    BY <2>3, <2>6 DEF y, L
<1>17. QED
  BY <1>11, <1>12, <1>13, <1>14, <1>15, <1>16 DEF FeedInv

\* A page that is not where it was, or the end of a walk: the next one starts afresh.
LEMMA AbandonKeeps ==
    ASSUME FeedTypeOK, FeedInv, LosePage \/ Done
    PROVE  FeedTypeOK' /\ FeedInv'
<1>1. /\ pc = "poll" /\ pc' = "commit" /\ batch' = Nothing
      /\ src' = RestartWalk(src.last) /\ UNCHANGED <<tip, rows, saved>>
  BY DEF LosePage, Done, Emitting, Emit
<1>2. src.last \in Tx \cup {None}
  BY DEF FeedTypeOK
<1>3. src' \in SourceType /\ src'.last = src.last /\ WalkInv'
  BY <1>1, <1>2, FreshWalk
<1>4. FeedTypeOK'
  <2>1. batch' \in [txs : SUBSET Tx, cursor : Tx \cup {None}]
    BY <1>1 DEF Nothing
  <2>2. QED
    BY <1>1, <1>3, <2>1 DEF FeedTypeOK, SourceType
<1>5. BatchFollows'
  BY <1>1, <1>3 DEF FeedInv, BatchFollows
<1>6. StoreIsPrefix' /\ src'.last <= tip'
  BY <1>1, <1>3 DEF FeedInv, StoreIsPrefix
<1>7. QED
  BY <1>3, <1>4, <1>5, <1>6 DEF FeedInv, WalkInv

\* A request failed: the pages stay for the next poll.
LEMMA EmitFailsKeeps ==
    ASSUME FeedTypeOK, EmitFails
    PROVE  UNCHANGED feedVars
<1>1. src' = [src EXCEPT !.pending = src.pending] /\ UNCHANGED <<tip, pc, batch, rows, saved>>
  BY DEF EmitFails, PendingAfterError
<1>2. src' = src
  BY <1>1 DEF FeedTypeOK
<1>3. QED
  BY <1>1, <1>2 DEF feedVars

\* A step that leaves the feed alone.
LEMMA FeedStutters ==
    ASSUME FeedTypeOK, FeedInv, UNCHANGED feedVars
    PROVE  FeedTypeOK' /\ FeedInv'
<1>1. UNCHANGED <<tip, src, pc, batch, rows, saved>>
  BY DEF feedVars
<1>2. FeedTypeOK'
  BY <1>1 DEF FeedTypeOK
<1>3. PagesInLine' /\ WalkGoesOn' /\ TipPageKept(0)'
  BY <1>1 DEF FeedInv, PagesInLine, InLine, WalkGoesOn, TipPageKept
<1>4. StoreIsPrefix' /\ BatchFollows' /\ src'.last <= tip'
  BY <1>1 DEF FeedInv, StoreIsPrefix, BatchFollows
<1>5. QED
  BY <1>2, <1>3, <1>4 DEF FeedInv

\* The process stops, and starts again from the cursor that was saved.
LEMMA RestartKeeps ==
    ASSUME FeedTypeOK, FeedInv, Crash \/ Start
    PROVE  FeedTypeOK' /\ FeedInv'
<1>1. CASE Crash
  <2>1. /\ pc' = "down" /\ src' = FreshSource /\ batch' = Nothing
        /\ UNCHANGED <<tip, rows, saved>>
    BY <1>1 DEF Crash
  <2>2. None \in Tx \cup {None}
    OBVIOUS
  <2>3. src' \in SourceType /\ src'.last = None /\ WalkInv'
    BY <2>1, <2>2, FreshWalk
  <2>4. FeedTypeOK'
    <3>1. batch' \in [txs : SUBSET Tx, cursor : Tx \cup {None}]
      BY <2>1 DEF Nothing
    <3>2. QED
      BY <2>1, <2>3, <3>1 DEF FeedTypeOK, SourceType
  <2>5. BatchFollows' /\ src'.last <= tip'
    <3>1. tip \in Nat /\ 1 .. None = {} /\ 1 .. saved \subseteq rows
      BY SourceFields DEF None, FeedInv, BatchFollows
    <3>2. batch'.txs = {}
      BY <2>1 DEF Nothing
    <3>3. QED
      BY <2>1, <2>3, <3>1, <3>2 DEF BatchFollows, None
  <2>6. StoreIsPrefix'
    BY <2>1 DEF FeedInv, StoreIsPrefix
  <2>7. QED
    BY <2>3, <2>4, <2>5, <2>6 DEF FeedInv, WalkInv
<1>2. CASE Start
  <2>1. /\ pc = "down" /\ pc' = "poll" /\ src' = RestartWalk(saved)
        /\ UNCHANGED <<tip, batch, rows, saved>>
    BY <1>2 DEF Start
  <2>2. saved \in Tx \cup {None}
    BY DEF FeedTypeOK
  <2>3. src' \in SourceType /\ src'.last = saved /\ WalkInv'
    BY <2>1, <2>2, FreshWalk
  <2>4. FeedTypeOK'
    BY <2>1, <2>3 DEF FeedTypeOK, SourceType
  <2>5. batch = Nothing /\ 1 .. saved \subseteq rows
    BY <2>1 DEF FeedInv, BatchFollows
  <2>6. saved <= tip
    <3>1. PICK k \in 0 .. tip : rows = 1 .. k
      BY DEF FeedInv, StoreIsPrefix
    <3>2. saved \in Nat /\ tip \in Nat
      BY SourceFields
    <3>3. saved > 0 => saved \in 1 .. saved
      BY <3>2
    <3>4. saved > 0 => saved \in 1 .. k
      BY <2>5, <3>1, <3>3
    <3>5. QED
      BY <3>1, <3>2, <3>4
  <2>7. batch'.txs = {} /\ batch' = Nothing
    BY <2>1, <2>5 DEF Nothing
  <2>8. BatchFollows'
    BY <2>1, <2>3, <2>5, <2>7 DEF BatchFollows
  <2>9. StoreIsPrefix' /\ src'.last <= tip'
    BY <2>1, <2>3, <2>6 DEF FeedInv, StoreIsPrefix
  <2>10. QED
    BY <2>3, <2>4, <2>8, <2>9 DEF FeedInv, WalkInv
<1>3. QED
  BY <1>1, <1>2

\* The rows of a batch are stored: the store grows to a longer prefix, or not at all.
LEMMA CommitKeeps ==
    ASSUME FeedTypeOK, FeedInv, Commit
    PROVE  /\ FeedTypeOK' /\ FeedInv'
           /\ rows' = rows \/ Promise!Store
<1> DEFINE d == src.last
<1>1. /\ pc = "commit" /\ rows' = rows \cup batch.txs
      /\ pc' = IF batch.cursor = None THEN "fold" ELSE "save"
      /\ UNCHANGED <<tip, src, batch, saved>>
  BY DEF Commit
<1>2. PICK k \in 0 .. tip : rows = 1 .. k
  BY DEF FeedInv, StoreIsPrefix
<1>3. /\ d \in Nat /\ d <= tip /\ tip \in Nat /\ k \in Nat /\ k <= tip /\ tip <= MaxTx
      /\ MaxTx \in Nat
  BY SourceFields, FeedSizes DEF FeedInv, FeedTypeOK
<1>4. /\ 1 .. d \subseteq rows \cup batch.txs /\ batch.txs \subseteq 1 .. d
      /\ batch = Nothing \/ batch.cursor = d
      /\ 1 .. saved \subseteq rows
  BY <1>1 DEF FeedInv, BatchFollows
<1> HIDE DEF d
<1> DEFINE n == IF k < d THEN d ELSE k
<1>5. rows' = 1 .. n /\ n \in 0 .. tip /\ k <= n
  <2>1. CASE k < d
    <3>1. \A t \in 1 .. k : t \in 1 .. d
      BY <1>3, <2>1
    <3>2. rows' = 1 .. d
      BY <1>1, <1>2, <1>4, <3>1
    <3>3. QED
      BY <1>3, <2>1, <3>2
  <2>2. CASE ~(k < d)
    <3>1. \A t \in 1 .. d : t \in 1 .. k
      BY <1>3, <2>2
    <3>2. rows' = 1 .. k
      BY <1>1, <1>2, <1>4, <3>1
    <3>3. QED
      BY <1>3, <2>2, <3>2
  <2>3. QED
    BY <2>1, <2>2
<1> HIDE DEF n
<1>6. FeedTypeOK'
  <2>1. rows' \subseteq Tx
    BY <1>3, <1>5 DEF Tx
  <2>2. pc' \in {"down", "poll", "commit", "save", "fold"}
    BY <1>1
  <2>3. QED
    BY <1>1, <2>1, <2>2 DEF FeedTypeOK
<1>7. StoreIsPrefix' /\ src'.last <= tip'
  BY <1>1, <1>5 DEF FeedInv, StoreIsPrefix
<1>8. BatchFollows'
  <2>1. 1 .. d \subseteq rows' /\ 1 .. saved \subseteq rows'
    BY <1>1, <1>4
  <2>2. pc' = "save" => batch.cursor = d
    BY <1>1, <1>4 DEF Nothing
  <2>3. pc' \in {"save", "fold"}
    BY <1>1
  <2>4. QED
    BY <1>1, <1>4, <2>1, <2>2, <2>3 DEF BatchFollows, d
<1>9. PagesInLine' /\ WalkGoesOn' /\ TipPageKept(0)'
  BY <1>1 DEF FeedInv, PagesInLine, InLine, WalkGoesOn, TipPageKept
<1>10. rows' = rows \/ Promise!Store
  <2>1. CASE n = 0
    <3>1. k = n
      BY <1>3, <1>5, <2>1
    <3>2. QED
      BY <1>2, <1>5, <3>1
  <2>2. CASE n # 0
    <3>1. n \in 1 .. tip /\ rows \subseteq 1 .. n
      BY <1>2, <1>3, <1>5, <2>2
    <3>2. QED
      BY <1>1, <1>5, <3>1 DEF Promise!Store
  <2>3. QED
    BY <2>1, <2>2
<1>11. QED
  BY <1>6, <1>7, <1>8, <1>9, <1>10 DEF FeedInv

\* The cursor is saved behind the rows.
LEMMA SaveKeeps ==
    ASSUME FeedTypeOK, FeedInv, SaveCursor
    PROVE  FeedTypeOK' /\ FeedInv'
<1>1. /\ pc = "save" /\ pc' = "fold" /\ saved' = batch.cursor
      /\ UNCHANGED <<tip, src, batch, rows>>
  BY DEF SaveCursor
<1>2. batch.cursor = src.last /\ 1 .. src.last \subseteq rows
  BY <1>1 DEF FeedInv, BatchFollows
<1>3. FeedTypeOK'
  BY <1>1, <1>2 DEF FeedTypeOK
<1>4. BatchFollows'
  BY <1>1, <1>2 DEF FeedInv, BatchFollows
<1>5. StoreIsPrefix' /\ src'.last <= tip'
  BY <1>1 DEF FeedInv, StoreIsPrefix
<1>6. PagesInLine' /\ WalkGoesOn' /\ TipPageKept(0)'
  BY <1>1 DEF FeedInv, PagesInLine, InLine, WalkGoesOn, TipPageKept
<1>7. QED
  BY <1>3, <1>4, <1>5, <1>6 DEF FeedInv

\* The aggregation pass is over, and the worker polls again.
LEMMA NextBatchKeeps ==
    ASSUME FeedTypeOK, FeedInv, pc = "fold", NextBatch
    PROVE  FeedTypeOK' /\ FeedInv'
<1>1. pc' = "poll" /\ batch' = Nothing /\ UNCHANGED <<tip, src, rows, saved>>
  BY DEF NextBatch
<1>2. 1 .. src.last \subseteq rows /\ 1 .. saved \subseteq rows
  BY DEF FeedInv, BatchFollows
<1>3. FeedTypeOK'
  <2>1. batch' \in [txs : SUBSET Tx, cursor : Tx \cup {None}]
    BY <1>1 DEF Nothing
  <2>2. QED
    BY <1>1, <2>1 DEF FeedTypeOK
<1>4. BatchFollows'
  <2>1. batch'.txs = {}
    BY <1>1 DEF Nothing
  <2>2. QED
    BY <1>1, <1>2, <2>1 DEF BatchFollows
<1>5. StoreIsPrefix' /\ src'.last <= tip'
  BY <1>1 DEF FeedInv, StoreIsPrefix
<1>6. PagesInLine' /\ WalkGoesOn' /\ TipPageKept(0)'
  BY <1>1 DEF FeedInv, PagesInLine, InLine, WalkGoesOn, TipPageKept
<1>7. QED
  BY <1>3, <1>4, <1>5, <1>6 DEF FeedInv

\* Every step of the feed keeps what is said of it; a step that changes the store is one of
\* the delivery that was promised.
LEMMA FeedStepKeeps ==
    ASSUME FeedTypeOK, FeedInv, ~Races, FeedStep
    PROVE  /\ FeedTypeOK' /\ FeedInv'
           /\ Promise!Next \/ UNCHANGED <<tip, rows>>
<1>1. CASE Enumerate
  <2>1. UNCHANGED <<tip, rows>>
    BY <1>1 DEF Enumerate
  <2>2. QED
    BY <1>1, <2>1, EnumerateKeeps
<1>2. CASE EmitPage
  <2>1. UNCHANGED <<tip, rows>>
    BY <1>2 DEF EmitPage
  <2>2. QED
    BY <1>2, <2>1, EmitPageKeeps
<1>3. CASE LosePage \/ Done
  <2>1. UNCHANGED <<tip, rows>>
    BY <1>3 DEF LosePage, Done
  <2>2. QED
    BY <1>3, <2>1, AbandonKeeps
<1>4. CASE Commit
  <2>1. rows' = rows \/ Promise!Store
    BY <1>4, CommitKeeps
  <2>2. tip' = tip
    BY <1>4 DEF Commit
  <2>3. QED
    BY <1>4, <2>1, <2>2, CommitKeeps DEF Promise!Next
<1>5. CASE SaveCursor
  <2>1. UNCHANGED <<tip, rows>>
    BY <1>5 DEF SaveCursor
  <2>2. QED
    BY <1>5, <2>1, SaveKeeps
<1>6. CASE Start \/ Crash
  <2>1. UNCHANGED <<tip, rows>>
    BY <1>6 DEF Start, Crash
  <2>2. QED
    BY <1>6, <2>1, RestartKeeps
<1>7. CASE EmitFails \/ UNCHANGED feedVars
  <2>1. UNCHANGED feedVars
    BY <1>7, EmitFailsKeeps
  <2>2. QED
    BY <2>1, FeedStutters DEF feedVars
<1>8. ASSUME NEW n \in BlockSizes, Arrive(n)
      PROVE  /\ FeedTypeOK' /\ FeedInv'
             /\ Promise!Next \/ UNCHANGED <<tip, rows>>
  <2>1. tip' = tip + n /\ tip + n <= MaxTx /\ rows' = rows
    BY <1>8 DEF Arrive
  <2>2. n \in Nat /\ n > 0 /\ tip \in Nat /\ MaxTx \in Nat
    BY FeedSizes, SourceFields
  <2>3. Promise!Arrive
    BY <2>1, <2>2 DEF Promise!Arrive
  <2>4. QED
    BY <1>8, <2>3, ArriveKeeps DEF Promise!Next
<1>9. CASE pc = "fold" /\ NextBatch
  <2>1. UNCHANGED <<tip, rows>>
    BY <1>9 DEF NextBatch
  <2>2. QED
    BY <1>9, <2>1, NextBatchKeeps
<1>10. QED
  BY <1>1, <1>2, <1>3, <1>4, <1>5, <1>6, <1>7, <1>8, <1>9 DEF FeedStep, FeedWork

------------------------------------------------------------------------------
(* Coordinates.                                                             *)

\* Where legs and watermarks stand: slot, ordinal, signature.
Coordinates == Nat \X Nat \X Nat

\* Coordinates are ordered: nothing is before itself, and what is not after a is not after
\* anything after a.
LEMMA BeforeIsAnOrder ==
    /\ \A a \in Coordinates : ~Before(a, a)
    /\ \A a, b, c \in Coordinates : Before(a, b) /\ Before(b, c) => Before(a, c)
    /\ \A a, b, c \in Coordinates : Before(a, b) /\ ~Before(c, b) => Before(a, c)
    /\ \A a, b, c \in Coordinates : ~Before(a, b) /\ Before(c, b) => Before(c, a)
<1>1. \A a \in Coordinates : a[1] \in Nat /\ a[2] \in Nat /\ a[3] \in Nat
  BY DEF Coordinates
<1>2. QED
  BY <1>1 DEF Before

\* A finite set of legs has a last one.
LEMMA LastLegExists ==
    ASSUME NEW S, IsFiniteSet(S), S # {}, \A leg \in S : Key(leg) \in Coordinates
    PROVE  \E leg \in S : \A other \in S : ~Before(Key(leg), Key(other))
<1> DEFINE After(leg) == {other \in S : Before(Key(leg), Key(other))}
           T == {After(leg) : leg \in S}
<1>1. IsWellFoundedOn(StrictSubsetOrdering(S), FiniteSubsetsOf(S))
  BY FS_StrictSubsetOrderingWellFounded
<1>2. T \subseteq FiniteSubsetsOf(S) /\ T # {}
  <2>1. ASSUME NEW leg \in S
        PROVE  After(leg) \in SUBSET S /\ IsFiniteSet(After(leg))
    <3>1. After(leg) \in SUBSET S
      OBVIOUS
    <3> HIDE DEF After
    <3>2. QED
      BY <3>1, FS_Subset
  <2> HIDE DEF After
  <2>2. T \subseteq FiniteSubsetsOf(S)
    BY <2>1 DEF FiniteSubsetsOf
  <2>3. QED
    BY <2>2
<1>3. PICK U \in T : \A V \in T : ~(<<V, U>> \in StrictSubsetOrdering(S))
  BY <1>1, <1>2, WFMin
<1>4. PICK leg \in S : U = After(leg)
  OBVIOUS
<1>5. ASSUME NEW other \in S, Before(Key(leg), Key(other))
      PROVE  FALSE
  <2>1. other \in After(leg) /\ other \notin After(other)
    BY <1>5, BeforeIsAnOrder
  <2>2. After(other) \subseteq After(leg)
    BY <1>5, BeforeIsAnOrder
  <2>3. <<After(other), After(leg)>> \in StrictSubsetOrdering(S)
    BY <2>1, <2>2 DEF StrictSubsetOrdering
  <2>4. QED
    BY <1>3, <1>4, <2>3
<1>6. QED
  BY <1>5

\* What is said of the legs that are stored.
LEMMA LegFields ==
    ASSUME TypeOK, FeedInv
    PROVE  /\ rows \subseteq 1 .. tip /\ tip \in Nat /\ Len(ledger) = tip
           /\ ledger \in Seq([slot : Nat, signature : Nat, legs : Nat])
           /\ DOMAIN ledger = 1 .. tip
           /\ \A t \in 1 .. tip : /\ ledger[t] \in [slot : Nat, signature : Nat, legs : Nat]
                                  /\ ledger[t].slot \in Nat /\ ledger[t].legs \in Nat
           /\ \A leg : leg \in Legs(rows) <=>
                 \E t \in rows : \E i \in 1 .. ledger[t].legs : leg = <<t, i>>
           /\ \A leg \in Legs(rows) : /\ leg[1] \in rows /\ leg[1] \in 1 .. tip
                                      /\ leg[2] \in 1 .. ledger[leg[1]].legs
                                      /\ leg \in Tx \X Nat /\ Key(leg) \in Coordinates
           /\ IsFiniteSet(Legs(rows))
<1>1. tip \in Nat /\ tip <= MaxTx /\ Len(ledger) = tip /\ rows \subseteq Tx
      /\ ledger \in Seq([slot : Nat, signature : Nat, legs : Nat])
  BY FeedSizes DEF TypeOK, FeedTypeOK
<1>2. rows \subseteq 1 .. tip
  <2>1. PICK k \in 0 .. tip : rows = 1 .. k
    BY DEF FeedInv, StoreIsPrefix
  <2>2. QED
    BY <1>1, <2>1
<1>3. DOMAIN ledger = 1 .. tip
      /\ \A t \in 1 .. tip : ledger[t] \in [slot : Nat, signature : Nat, legs : Nat]
  <2> DEFINE R == [slot : Nat, signature : Nat, legs : Nat]
  <2>1. ledger \in Seq(R) /\ Len(ledger) = tip
    BY <1>1
  <2> HIDE DEF R
  <2>2. DOMAIN ledger = 1 .. tip /\ \A t \in 1 .. tip : ledger[t] \in R
    BY <2>1
  <2>3. QED
    BY <2>2 DEF R
<1>4. \A t \in 1 .. tip : ledger[t].slot \in Nat /\ ledger[t].legs \in Nat
                          /\ ledger[t].signature \in Nat
  BY <1>3
<1>5. \A leg : leg \in Legs(rows) <=>
                 \E t \in rows : \E i \in 1 .. ledger[t].legs : leg = <<t, i>>
  BY DEF Legs
<1>6. ASSUME NEW leg \in Legs(rows)
      PROVE  /\ leg[1] \in rows /\ leg[1] \in 1 .. tip /\ leg[2] \in 1 .. ledger[leg[1]].legs
             /\ leg \in Tx \X Nat /\ Key(leg) \in Coordinates
  <2>1. PICK t \in rows : \E i \in 1 .. ledger[t].legs : leg = <<t, i>>
    BY <1>5
  <2>2. PICK i \in 1 .. ledger[t].legs : leg = <<t, i>>
    BY <2>1
  <2>3. leg[1] = t /\ leg[2] = i /\ t \in 1 .. tip /\ t \in Tx /\ i \in Nat
    BY <1>1, <1>2, <1>4, <2>2
  <2>4. Key(leg) = <<ledger[t].slot, i, ledger[t].signature>>
    BY <2>3 DEF Key
  <2>5. Key(leg) \in Coordinates
    BY <1>4, <2>3, <2>4 DEF Coordinates
  <2>6. QED
    BY <2>2, <2>3, <2>5
<1>7. IsFiniteSet(Legs(rows))
  <2> DEFINE f == [t \in rows |-> ledger[t].legs]
  <2>1. f \in [rows -> Nat]
    BY <1>2, <1>4
  <2>2. IsFiniteSet(rows)
    <3>1. IsFiniteSet(1 .. tip)
      BY <1>1, FS_Interval
    <3>2. QED
      BY <1>2, <3>1, FS_Subset
  <2>3. \A c : c \in Cells(f) <=> \E x \in rows : \E k \in 1 .. f[x] : c = <<x, k>>
    BY <2>1, CellsMember
  <2>4. Cells(f) = Legs(rows)
    BY <1>5, <2>3
  <2>5. IsFiniteSet(Cells(f))
    BY <2>1, <2>2, CellsFinite
  <2>6. QED
    BY <2>4, <2>5
<1>8. QED
  BY <1>1, <1>2, <1>3, <1>4, <1>5, <1>6, <1>7

\* What a pass selects is the first of the new legs.
LEMMA SelectedIsFirst ==
    ASSUME TypeOK, FeedInv, NEW leg \in Selected, NEW other \in NewLegs,
           ~Before(Key(leg), Key(other))
    PROVE  other \in Selected
<1> DEFINE Ahead(x) == {y \in NewLegs : Before(Key(y), Key(x))}
<1>1. leg \in NewLegs /\ Cardinality(Ahead(leg)) < Limit
  BY DEF Selected
<1>2. /\ NewLegs \subseteq Legs(rows) /\ IsFiniteSet(NewLegs)
      /\ \A x \in NewLegs : Key(x) \in Coordinates
  BY LegFields, FS_Subset DEF NewLegs
<1>3. Ahead(other) \subseteq Ahead(leg)
  BY <1>1, <1>2, BeforeIsAnOrder
<1>4. IsFiniteSet(Ahead(leg))
  BY <1>2, FS_Subset
<1>5. /\ Cardinality(Ahead(other)) <= Cardinality(Ahead(leg))
      /\ Cardinality(Ahead(leg)) \in Nat /\ Cardinality(Ahead(other)) \in Nat
  <2>1. IsFiniteSet(Ahead(other))
    BY <1>3, <1>4, FS_Subset
  <2>2. QED
    BY <1>3, <1>4, <2>1, FS_Subset, FS_CardinalityType
<1>6. Limit \in Nat
  BY FeedSizes
<1> DEFINE a == Cardinality(Ahead(other))
           b == Cardinality(Ahead(leg))
<1>7. a \in Nat /\ b \in Nat /\ a <= b /\ b < Limit
  BY <1>1, <1>5
<1> HIDE DEF a, b
<1>8. a < Limit
  BY <1>6, <1>7
<1>9. QED
  BY <1>8 DEF Selected, a

------------------------------------------------------------------------------
(* The steps of the worker.                                                 *)

\* What holds in every behaviour, however pages cut slots.
IndexInv == TypeOK /\ FeedInv /\ FoldInv

\* As long as the store, its legs and the watermark are what they were, so are the new legs.
LEMMA SameLegs ==
    ASSUME TypeOK, FeedInv, rows' = rows, watermark' = watermark,
           \A t \in 1 .. tip : ledger'[t] = ledger[t]
    PROVE  /\ Legs(rows)' = Legs(rows) /\ NewLegs' = NewLegs
           /\ \A leg \in Legs(rows) : Key(leg)' = Key(leg)
<1>1. rows \subseteq 1 .. tip /\ \A leg \in Legs(rows) : leg[1] \in 1 .. tip
  BY LegFields
<1>2. Legs(rows)' = Legs(rows)
  BY <1>1 DEF Legs
<1>3. \A leg \in Legs(rows) : Key(leg)' = Key(leg)
  BY <1>1 DEF Key
<1>4. NewLegs' = NewLegs
  <2>1. \A leg \in Legs(rows) :
           Before(watermark', Key(leg)') <=> Before(watermark, Key(leg))
    BY <1>3
  <2>2. QED
    BY <1>2, <2>1 DEF NewLegs
<1>5. QED
  BY <1>2, <1>3, <1>4

\* And then the pass goes on as it was.
LEMMA SamePass ==
    ASSUME TypeOK, FeedInv, FoldInv, rows' = rows, watermark' = watermark,
           \A t \in 1 .. tip : ledger'[t] = ledger[t], pass' = pass, takes' = takes, pc' = pc
    PROVE  PassIsFirst'
<1>1. /\ NewLegs' = NewLegs /\ NewLegs \subseteq Legs(rows)
      /\ \A leg \in Legs(rows) : Key(leg)' = Key(leg)
  BY SameLegs DEF NewLegs
<1>2. SUFFICES ASSUME pass # NoPass
               PROVE  /\ pc' = "fold" /\ pass'.legs # {} /\ pass'.legs \subseteq NewLegs'
                      /\ \A leg \in pass'.legs, other \in NewLegs' :
                            ~Before(Key(leg), Key(other))' => other \in pass'.legs
                      /\ \A leg \in pass'.legs : leg[1] \in pass'.todo \cup takes'
                      /\ pass'.todo \subseteq rows'
  BY DEF PassIsFirst, NoPass
<1>3. /\ pc = "fold" /\ pass.legs # {} /\ pass.legs \subseteq NewLegs
      /\ \A leg \in pass.legs, other \in NewLegs :
            ~Before(Key(leg), Key(other)) => other \in pass.legs
      /\ \A leg \in pass.legs : leg[1] \in pass.todo \cup takes
      /\ pass.todo \subseteq rows
  BY <1>2 DEF FoldInv, PassIsFirst
<1>4. ASSUME NEW leg \in pass.legs, NEW other \in NewLegs, ~Before(Key(leg), Key(other))'
      PROVE  other \in pass.legs
  <2>1. Key(leg)' = Key(leg) /\ Key(other)' = Key(other)
    BY <1>1, <1>3
  <2>2. ~Before(Key(leg), Key(other))
    BY <1>4, <2>1 DEF Before
  <2>3. QED
    BY <1>3, <2>2
<1>5. QED
  BY <1>1, <1>3, <1>4

\* A block is finalized: a slot of its own, past all others.
LEMMA BlockKeeps ==
    ASSUME IndexInv, FeedTypeOK', NEW n \in BlockSizes, NEW s \in Signatures(n),
           NEW legs \in [1 .. n -> LegCounts], ArriveBlock(n, s, legs)
    PROVE  /\ TypeOK' /\ FoldInv'
           /\ \A t \in 1 .. tip : ledger'[t] = ledger[t]
           /\ \A t \in tip + 1 .. tip', u \in 1 .. tip : SlotOf(u) < SlotOf(t)'
<1> DEFINE R == [slot : Nat, signature : Nat, legs : Nat]
           new == [i \in 1 .. n |-> [slot |-> NextSlot, signature |-> s[i], legs |-> legs[i]]]
<1>1. /\ tip' = tip + n /\ UNCHANGED <<src, pc, batch, rows, saved, pass, takes, rollup, watermark>>
      /\ ledger' = ledger \o new
  BY DEF ArriveBlock, Arrive, foldVars
<1>2. n \in Nat /\ n > 0 /\ tip \in Nat /\ Len(ledger) = tip
  BY FeedSizes, LegFields DEF IndexInv
<1>3. ledger \in Seq(R)
  BY DEF IndexInv, TypeOK
<1>4. \A t \in 1 .. tip : ledger[t] \in R /\ ledger[t].slot \in Nat
  BY LegFields DEF IndexInv
<1>5. NextSlot \in Nat /\ NextSlot > 0 /\ \A t \in 1 .. tip : ledger[t].slot < NextSlot
  <2>1. CASE tip = 0
    <3>1. ledger = << >>
      BY <1>2, <1>3, <2>1
    <3>2. NextSlot = 1
      BY <3>1 DEF NextSlot
    <3>3. 1 .. tip = {}
      BY <2>1
    <3>4. QED
      BY <3>2, <3>3
  <2>2. CASE tip # 0
    <3>1. ledger # << >> /\ tip \in 1 .. tip
      BY <1>2, <1>3, <2>2
    <3>2. NextSlot = ledger[tip].slot + 1
      BY <1>2, <3>1 DEF NextSlot
    <3>3. \A t \in 1 .. tip : ledger[t].slot <= ledger[tip].slot
      BY <1>2, <3>1 DEF IndexInv, FoldInv, SlotsGrow, SlotOf
    <3>4. ledger[tip].slot \in Nat
      BY <1>4, <3>1
    <3>5. QED
      BY <1>4, <3>2, <3>3, <3>4
  <2>3. QED
    BY <2>1, <2>2
<1> DEFINE S == NextSlot
<1>6. new \in Seq(R) /\ Len(new) = n /\ \A i \in 1 .. n : new[i].slot = S
  <2>1. ASSUME NEW i \in 1 .. n
        PROVE  new[i] \in R /\ new[i].slot = S
    <3>1. s[i] \in Nat
      BY <1>2 DEF Signatures
    <3>2. legs[i] \in Nat
      BY LegAssumption
    <3>3. new[i] = [slot |-> S, signature |-> s[i], legs |-> legs[i]]
      OBVIOUS
    <3> HIDE DEF new, S
    <3>4. QED
      BY <1>5, <3>1, <3>2, <3>3 DEF S
  <2>2. new \in [1 .. n -> R]
    <3>1. new = [i \in 1 .. n |-> new[i]]
      OBVIOUS
    <3> HIDE DEF new, R
    <3>2. QED
      BY <2>1, <3>1
  <2> HIDE DEF R, new
  <2>3. QED
    BY <1>2, <2>1, <2>2
<1> HIDE DEF new, R, S
<1>7. /\ ledger' \in Seq(R) /\ Len(ledger') = tip + n
      /\ \A t \in 1 .. tip : ledger'[t] = ledger[t]
      /\ \A t \in tip + 1 .. tip + n : ledger'[t] = new[t - tip]
  <2>1. new \in Seq(R) /\ Len(new) = n
    BY <1>6
  <2>2. /\ ledger \o new \in Seq(R) /\ Len(ledger \o new) = tip + n
        /\ \A t \in 1 .. tip : (ledger \o new)[t] = ledger[t]
        /\ \A t \in tip + 1 .. tip + n : (ledger \o new)[t] = new[t - tip]
    BY <1>2, <1>3, <2>1
  <2>3. QED
    BY <1>1, <2>2
<1>8. \A t \in tip + 1 .. tip + n : ledger'[t].slot = S
  <2>1. ASSUME NEW t \in tip + 1 .. tip + n
        PROVE  ledger'[t].slot = S
    <3>1. t - tip \in 1 .. n
      BY <1>2
    <3>2. QED
      BY <1>6, <1>7, <3>1
  <2>2. QED
    BY <2>1
<1>9. \A t \in tip + 1 .. tip', u \in 1 .. tip : SlotOf(u) < SlotOf(t)'
  BY <1>1, <1>5, <1>8 DEF SlotOf, S
<1>10. SlotsGrow'
  <2>1. \A t \in 1 .. tip + n : t \in 1 .. tip \/ t \in tip + 1 .. tip + n
    BY <1>2
  <2>2. \A t \in 1 .. tip : ledger'[t].slot > 0 /\ ledger'[t].slot < S /\ ledger'[t].slot \in Nat
    BY <1>4, <1>5, <1>7 DEF IndexInv, FoldInv, SlotsGrow, SlotOf, S
  <2>3. \A t \in 1 .. tip + n : ledger'[t].slot > 0
    BY <1>5, <1>8, <2>1, <2>2 DEF S
  <2>4. ASSUME NEW t \in 1 .. tip + n, NEW u \in 1 .. tip + n, t <= u
        PROVE  ledger'[t].slot <= ledger'[u].slot
    <3>1. CASE u \in 1 .. tip
      <4>1. t \in 1 .. tip
        BY <1>2, <2>4, <3>1
      <4>2. ledger[t].slot <= ledger[u].slot
        BY <2>4, <3>1, <4>1 DEF IndexInv, FoldInv, SlotsGrow, SlotOf
      <4>3. QED
        BY <1>7, <3>1, <4>1, <4>2
    <3>2. CASE u \in tip + 1 .. tip + n
      <4>1. ledger'[u].slot = S /\ S \in Nat
        BY <1>5, <1>8, <3>2 DEF S
      <4>2. CASE t \in 1 .. tip
        BY <2>2, <4>1, <4>2
      <4>3. CASE t \in tip + 1 .. tip + n
        BY <1>8, <4>1, <4>3
      <4>4. QED
        BY <2>1, <4>2, <4>3
    <3>3. QED
      BY <2>1, <3>1, <3>2
  <2>5. QED
    BY <1>1, <2>3, <2>4 DEF SlotsGrow, SlotOf
<1>11. PassIsFirst'
  BY <1>1, <1>7, SamePass DEF IndexInv
<1>12. TypeOK'
  BY <1>1, <1>7 DEF IndexInv, TypeOK, R
<1>13. QED
  BY <1>7, <1>9, <1>10, <1>11, <1>12 DEF FoldInv

\* The feed's steps leave the pass alone: none falls inside one, but the crash that ends it.
LEMMA FeedWorkKeeps ==
    ASSUME IndexInv, FeedTypeOK', UNCHANGED <<ledger, takes, rollup, watermark>>,
           \/ (FeedWork \/ EmitFails) /\ pass' = pass
           \/ Crash /\ pass' = NoPass
    PROVE  TypeOK' /\ FoldInv' /\ rows \subseteq rows' /\ tip' = tip
<1>1. rows \subseteq rows' /\ tip' = tip
  BY DEF FeedWork, EmitFails, Enumerate, EmitPage, LosePage, Done, Commit, SaveCursor, Start, Crash
<1>2. pass' = NoPass
  <2>1. CASE pass = NoPass
    BY <2>1
  <2>2. CASE pass # NoPass
    <3>1. pc = "fold"
      BY <2>2 DEF IndexInv, FoldInv, PassIsFirst
    <3>2. ~FeedWork /\ ~EmitFails
      BY <3>1 DEF FeedWork, EmitFails, Enumerate, EmitPage, LosePage, Done, Commit, SaveCursor,
                  Start, Emitting
    <3>3. QED
      BY <3>2
  <2>3. QED
    BY <2>1, <2>2
<1>3. FoldInv'
  <2>1. SlotsGrow'
    BY <1>1 DEF IndexInv, FoldInv, SlotsGrow, SlotOf
  <2>2. PassIsFirst'
    BY <1>2 DEF PassIsFirst, NoPass
  <2>3. QED
    BY <2>1, <2>2 DEF FoldInv
<1>4. TypeOK'
  <2>1. pass'.todo = {} /\ pass'.legs = {}
    BY <1>2 DEF NoPass
  <2>2. takes' \subseteq rows'
    BY <1>1 DEF IndexInv, TypeOK
  <2>3. QED
    BY <1>1, <2>1, <2>2 DEF IndexInv, TypeOK
<1>5. QED
  BY <1>1, <1>3, <1>4

\* The steps of a pass that leave the feed and the watermark alone.
LEMMA PassStepKeeps ==
    ASSUME IndexInv, Select \/ RecomputeRollup \/ \E t \in pass.todo : UpsertTake(t)
    PROVE  /\ TypeOK' /\ FoldInv'
           /\ UNCHANGED <<feedVars, ledger, watermark>>
           /\ takes \subseteq takes' /\ rollup \subseteq rollup'
<1>1. UNCHANGED <<feedVars, ledger, watermark>>
  BY DEF Select, RecomputeRollup, UpsertTake
<1>2. UNCHANGED <<tip, src, pc, batch, rows, saved, ledger, watermark>>
  BY <1>1 DEF feedVars
<1>3. FeedTypeOK' /\ SlotsGrow'
  BY <1>2 DEF IndexInv, TypeOK, FeedTypeOK, FoldInv, SlotsGrow, SlotOf
<1>4. TypeOK /\ FeedInv /\ FoldInv
  BY DEF IndexInv
<1>5. /\ NewLegs' = NewLegs /\ NewLegs \subseteq Legs(rows)
      /\ \A leg \in Legs(rows) : Key(leg)' = Key(leg)
  BY <1>2, <1>4, SameLegs DEF NewLegs
<1>6. \A leg \in Legs(rows) : leg[1] \in rows /\ leg \in Tx \X Nat
  BY <1>4, LegFields
<1>7. rows \subseteq Tx
  BY <1>4 DEF TypeOK, FeedTypeOK
<1>8. CASE Select
  <2>1. /\ pc = "fold" /\ Selected # {} /\ UNCHANGED <<takes, rollup>>
        /\ pass' = [legs |-> Selected, todo |-> {leg[1] : leg \in Selected}]
    BY <1>8 DEF Select
  <2>2. Selected \subseteq NewLegs
    BY DEF Selected
  <2>3. pass'.legs = Selected /\ pass'.todo = {leg[1] : leg \in Selected}
    BY <2>1
  <2>4. pass'.todo \subseteq rows /\ pass'.legs \subseteq Tx \X Nat
    BY <1>5, <1>6, <2>2, <2>3
  <2>5. ASSUME NEW leg \in Selected, NEW other \in NewLegs, ~Before(Key(leg), Key(other))'
        PROVE  other \in Selected
    <3>1. Key(leg)' = Key(leg) /\ Key(other)' = Key(other)
      BY <1>5, <2>2
    <3>2. ~Before(Key(leg), Key(other))
      BY <2>5, <3>1 DEF Before
    <3>3. QED
      BY <1>4, <3>2, SelectedIsFirst
  <2>6. PassIsFirst'
    BY <1>2, <1>5, <2>1, <2>2, <2>3, <2>4, <2>5 DEF PassIsFirst
  <2>7. TypeOK'
    BY <1>2, <1>3, <1>4, <1>7, <2>1, <2>4 DEF TypeOK
  <2>8. QED
    BY <1>1, <1>3, <2>1, <2>6, <2>7 DEF FoldInv
<1>9. CASE RecomputeRollup
  <2>1. rollup' = takes /\ UNCHANGED <<pass, takes>>
    BY <1>9 DEF RecomputeRollup
  <2>2. PassIsFirst'
    BY <1>2, <1>4, <2>1, SamePass
  <2>3. TypeOK'
    BY <1>2, <1>3, <1>4, <2>1 DEF TypeOK
  <2>4. rollup \subseteq rollup'
    BY <1>4, <2>1 DEF TypeOK
  <2>5. QED
    BY <1>1, <1>3, <2>1, <2>2, <2>3, <2>4 DEF FoldInv
<1>10. ASSUME NEW t \in pass.todo, UpsertTake(t)
       PROVE  TypeOK' /\ FoldInv' /\ takes \subseteq takes' /\ rollup \subseteq rollup'
  <2>1. /\ takes' = takes \cup {t} /\ rollup' = rollup
        /\ pass' = [pass EXCEPT !.todo = pass.todo \ {t}]
    BY <1>10 DEF UpsertTake
  <2>2. pass # NoPass
    BY DEF NoPass
  <2>3. /\ pc = "fold" /\ pass.legs # {} /\ pass.legs \subseteq NewLegs
        /\ \A leg \in pass.legs, other \in NewLegs :
              ~Before(Key(leg), Key(other)) => other \in pass.legs
        /\ \A leg \in pass.legs : leg[1] \in pass.todo \cup takes
        /\ pass.todo \subseteq rows
    BY <1>4, <2>2 DEF FoldInv, PassIsFirst
  <2>4. pass'.legs = pass.legs /\ pass'.todo = pass.todo \ {t}
    BY <2>1 DEF IndexInv, TypeOK
  <2>5. ASSUME NEW leg \in pass.legs, NEW other \in NewLegs, ~Before(Key(leg), Key(other))'
        PROVE  other \in pass.legs
    <3>1. Key(leg)' = Key(leg) /\ Key(other)' = Key(other)
      BY <1>5, <2>3
    <3>2. ~Before(Key(leg), Key(other))
      BY <2>5, <3>1 DEF Before
    <3>3. QED
      BY <2>3, <3>2
  <2>6. \A leg \in pass.legs : leg[1] \in pass'.todo \cup takes'
    BY <2>1, <2>3, <2>4
  <2>7. PassIsFirst'
    BY <1>2, <1>5, <2>3, <2>4, <2>5, <2>6 DEF PassIsFirst
  <2>8. TypeOK'
    BY <1>2, <1>3, <1>4, <2>1, <2>3, <2>4 DEF TypeOK
  <2>9. QED
    BY <1>3, <2>1, <2>7, <2>8 DEF FoldInv
<1>11. QED
  BY <1>1, <1>8, <1>9, <1>10

\* The last leg of a pass that folds something.
LEMMA LastFoldedIs ==
    ASSUME IndexInv, pass # NoPass
    PROVE  /\ LastFolded(pass.legs) \in pass.legs
           /\ \A leg \in pass.legs : ~Before(Key(LastFolded(pass.legs)), Key(leg))
<1>1. pass.legs # {} /\ pass.legs \subseteq Legs(rows)
  BY DEF IndexInv, FoldInv, PassIsFirst, NewLegs
<1>2. IsFiniteSet(pass.legs) /\ \A leg \in pass.legs : Key(leg) \in Coordinates
  BY <1>1, LegFields, FS_Subset DEF IndexInv
<1>3. \E leg \in pass.legs : \A other \in pass.legs : ~Before(Key(leg), Key(other))
  BY <1>1, <1>2, LastLegExists
<1>4. QED
  BY <1>3 DEF LastFolded, LastOf

\* A pass ends, with something folded or nothing new.
LEMMA EndOfPassKeeps ==
    ASSUME IndexInv, FeedTypeOK', NothingNew \/ AdvanceWatermark
    PROVE  TypeOK' /\ FoldInv'
<1>1. /\ UNCHANGED <<tip, rows, ledger, takes, rollup>>
      /\ pass' = NoPass
  BY DEF NothingNew, AdvanceWatermark, NextBatch, foldVars
<1>2. watermark' \in Coordinates
  <2>1. CASE NothingNew
    BY <2>1 DEF NothingNew, foldVars, IndexInv, TypeOK, Coordinates
  <2>2. CASE AdvanceWatermark
    <3>1. watermark' = Key(LastFolded(pass.legs)) /\ pass # NoPass
      BY <2>2 DEF AdvanceWatermark, AllWritten
    <3>2. LastFolded(pass.legs) \in Legs(rows)
      BY <3>1, LastFoldedIs DEF IndexInv, FoldInv, PassIsFirst, NewLegs
    <3>3. QED
      BY <3>1, <3>2, LegFields DEF IndexInv
  <2>3. QED
    BY <2>1, <2>2
<1>3. FoldInv'
  BY <1>1 DEF IndexInv, FoldInv, SlotsGrow, SlotOf, PassIsFirst, NoPass
<1>4. TypeOK'
  <2>1. pass'.todo = {} /\ pass'.legs = {}
    BY <1>1 DEF NoPass
  <2>2. QED
    BY <1>1, <1>2, <2>1 DEF IndexInv, TypeOK, Coordinates
<1>5. QED
  BY <1>3, <1>4

------------------------------------------------------------------------------
(* The worker, step by step.                                                *)

\* Every step of the worker is one of its feed.
LEMMA NextFeedSteps ==
    ASSUME IndexInv, Next \/ UNCHANGED vars
    PROVE  FeedStep
<1>1. CASE NothingNew
  BY <1>1 DEF NothingNew, FeedStep
<1>2. CASE AdvanceWatermark
  <2>1. pass # NoPass /\ NextBatch
    BY <1>2 DEF AdvanceWatermark, AllWritten
  <2>2. pc = "fold"
    BY <2>1 DEF IndexInv, FoldInv, PassIsFirst
  <2>3. QED
    BY <2>1, <2>2 DEF FeedStep
<1>3. CASE Select \/ RecomputeRollup \/ \E t \in pass.todo : UpsertTake(t)
  BY <1>3, PassStepKeeps DEF FeedStep
<1>4. CASE UNCHANGED vars
  BY <1>4 DEF FeedStep, vars
<1>5. ASSUME NEW n \in BlockSizes, NEW s \in Signatures(n), NEW legs \in [1 .. n -> LegCounts],
             ArriveBlock(n, s, legs)
      PROVE  FeedStep
  BY <1>5 DEF ArriveBlock, FeedStep
<1>6. CASE FeedWork \/ EmitFails \/ Crash
  BY <1>6 DEF FeedStep
<1>7. QED
  BY <1>1, <1>2, <1>3, <1>4, <1>5, <1>6 DEF Next, Work

\* Nothing has happened yet.
LEMMA InitIsSound == Init => IndexInv
<1> SUFFICES ASSUME Init
             PROVE  IndexInv
  OBVIOUS
<1>1. /\ tip = 0 /\ src = FreshSource /\ pc = "down" /\ batch = Nothing /\ rows = {}
      /\ saved = None /\ ledger = << >> /\ pass = NoPass /\ takes = {} /\ rollup = {}
      /\ watermark = BeforeAll
  BY DEF Init, FeedInit
<1>2. /\ src \in SourceType /\ src.last = 0 /\ src.pending = << >> /\ ~src.reached
      /\ src.before = Tip /\ Len(src.pending) = 0 /\ DOMAIN src.pending = {}
  BY <1>1 DEF FreshSource, SourceType, None, Tip
<1>3. batch \in [txs : SUBSET Tx, cursor : Tx \cup {None}] /\ batch.txs = {}
  BY <1>1 DEF Nothing
<1>4. FeedTypeOK
  BY <1>1, <1>2, <1>3, FeedSizes DEF FeedTypeOK, SourceType
<1>5. TypeOK
  <2>1. pass.todo = {} /\ pass.legs = {}
    BY <1>1 DEF NoPass
  <2>2. watermark \in Nat \X Nat \X Nat
    BY <1>1 DEF BeforeAll
  <2>3. QED
    BY <1>1, <1>4, <2>1, <2>2 DEF TypeOK
<1>6. 1 .. 0 = {}
  OBVIOUS
<1>7. StoreIsPrefix
  BY <1>1, <1>6 DEF StoreIsPrefix
<1>8. BatchFollows
  BY <1>1, <1>2, <1>3, <1>6 DEF BatchFollows, None
<1>9. PagesInLine /\ WalkGoesOn /\ TipPageKept(0)
  BY <1>2 DEF PagesInLine, InLine, WalkGoesOn, TipPageKept
<1>10. FoldInv
  BY <1>1, <1>6 DEF FoldInv, SlotsGrow, PassIsFirst
<1>11. QED
  BY <1>1, <1>2, <1>5, <1>7, <1>8, <1>9, <1>10 DEF IndexInv, FeedInv

\* The invariant of the worker is inductive, and the store moves as delivery allows.
LEMMA StepIsSound ==
    ASSUME ~Races, IndexInv, Next \/ UNCHANGED vars
    PROVE  IndexInv' /\ (Promise!Next \/ UNCHANGED <<tip, rows>>)
<1>1. FeedTypeOK' /\ FeedInv' /\ (Promise!Next \/ UNCHANGED <<tip, rows>>)
  BY NextFeedSteps, FeedStepKeeps DEF IndexInv, TypeOK
<1>2. TypeOK' /\ FoldInv'
  <2>1. CASE NothingNew \/ AdvanceWatermark
    BY <1>1, <2>1, EndOfPassKeeps
  <2>2. CASE Select \/ RecomputeRollup \/ \E t \in pass.todo : UpsertTake(t)
    BY <2>2, PassStepKeeps
  <2>3. CASE (FeedWork \/ EmitFails) /\ UNCHANGED <<ledger, foldVars>>
    BY <1>1, <2>3, FeedWorkKeeps DEF foldVars
  <2>4. CASE Crash /\ pass' = NoPass /\ UNCHANGED <<ledger, takes, rollup, watermark>>
    BY <1>1, <2>4, FeedWorkKeeps
  <2>5. ASSUME NEW n \in BlockSizes, NEW s \in Signatures(n), NEW legs \in [1 .. n -> LegCounts],
               ArriveBlock(n, s, legs)
        PROVE  TypeOK' /\ FoldInv'
    BY <1>1, <2>5, BlockKeeps
  <2>6. CASE UNCHANGED vars
    <3>1. UNCHANGED <<tip, src, pc, batch, rows, saved, ledger, pass, takes, rollup, watermark>>
      BY <2>6 DEF vars, feedVars, foldVars
    <3>2. TypeOK'
      BY <1>1, <3>1 DEF IndexInv, TypeOK
    <3>3. PassIsFirst'
      BY <3>1, SamePass DEF IndexInv
    <3>4. SlotsGrow'
      BY <3>1 DEF IndexInv, FoldInv, SlotsGrow, SlotOf
    <3>5. QED
      BY <3>2, <3>3, <3>4 DEF FoldInv
  <2>7. QED
    BY <2>1, <2>2, <2>3, <2>4, <2>5, <2>6 DEF Next, Work
<1>3. QED
  BY <1>1, <1>2 DEF IndexInv

\* What is said of the worker holds at every moment of every run.
LEMMA IndexInvHolds == ~Races => (Spec => []IndexInv)
<1> SUFFICES ASSUME ~Races
             PROVE  Spec => []IndexInv
  OBVIOUS
<1>1. Init => IndexInv
  BY InitIsSound
<1>2. IndexInv /\ [Next]_vars => IndexInv'
  BY StepIsSound
<1>3. QED
  BY <1>1, <1>2, PTL DEF Spec

\* Nothing is ever left behind a cursor, in whatever state a walk, a batch and the process
\* are, as long as no block displaces part of a pending tip page.
THEOREM NothingIsSkipped == ~Races => (Spec => []FeedIsSound)
<1> SUFFICES ASSUME ~Races
             PROVE  Spec => []FeedIsSound
  OBVIOUS
<1>1. IndexInv => FeedIsSound
  BY DEF IndexInv, FeedInv, BatchFollows, FeedIsSound, NothingLeftBehind
<1>2. QED
  BY <1>1, IndexInvHolds, PTL

\* What reaches the store is what the framework promises to deliver: always a prefix of
\* the ledger, that only grows.
THEOREM DeliveryIsImplemented == ~Races => (Spec => ImplementsDelivery)
<1> SUFFICES ASSUME ~Races
             PROVE  Spec => ImplementsDelivery
  OBVIOUS
<1>1. Init => Promise!Init
  BY DEF Init, FeedInit, Promise!Init
<1>2. IndexInv /\ [Next]_vars => [Promise!Next]_<<tip, rows>>
  BY StepIsSound
<1>3. QED
  BY <1>1, <1>2, IndexInvHolds, PTL DEF Spec, ImplementsDelivery, Promise!Spec, Promise!vars

------------------------------------------------------------------------------
(* Every leg up to the watermark is folded.                                 *)

\* What holds besides where no page cuts a slot.
FoldedUpTo == StoredSlotsAreWhole /\ WatermarkIsStored /\ EveryLegFolded

\* What the folding rests on, in terms of the state it reads.
LEMMA SameFold ==
    ASSUME IndexInv, FoldedUpTo, rows' = rows, watermark' = watermark,
           \A t \in 1 .. tip : ledger'[t] = ledger[t],
           takes \subseteq takes', rollup \subseteq rollup'
    PROVE  WatermarkIsStored' /\ EveryLegFolded'
<1>1. TypeOK /\ FeedInv /\ rows \subseteq 1 .. tip
  BY LegFields DEF IndexInv
<1>2. Legs(rows)' = Legs(rows) /\ \A leg \in Legs(rows) : Key(leg)' = Key(leg)
  BY <1>1, SameLegs
<1>3. WatermarkIsStored'
  BY <1>1 DEF FoldedUpTo, WatermarkIsStored, SlotOf
<1>4. EveryLegFolded'
  <2>1. SUFFICES ASSUME NEW leg \in Legs(rows)', ~Before(watermark, Key(leg))'
                 PROVE  leg[1] \in takes' \cap rollup'
    BY DEF EveryLegFolded
  <2>2. leg \in Legs(rows) /\ ~Before(watermark, Key(leg))
    BY <1>2, <2>1 DEF Before
  <2>3. leg[1] \in takes \cap rollup
    BY <2>2 DEF FoldedUpTo, EveryLegFolded
  <2>4. QED
    BY <2>3
<1>5. QED
  BY <1>3, <1>4

\* A block that arrives is a slot of its own: it cuts none.
LEMMA BlockCutsNoSlot ==
    ASSUME IndexInv, IndexInv', FoldedUpTo, NEW n \in BlockSizes, NEW s \in Signatures(n),
           NEW legs \in [1 .. n -> LegCounts], ArriveBlock(n, s, legs)
    PROVE  FoldedUpTo'
<1>1. /\ tip' = tip + n /\ UNCHANGED <<src, pc, batch, rows, saved, pass, takes, rollup, watermark>>
  BY DEF ArriveBlock, Arrive, foldVars
<1>2. n \in Nat /\ tip \in Nat /\ rows \subseteq 1 .. tip
  BY FeedSizes, LegFields DEF IndexInv
<1>3. /\ \A t \in 1 .. tip : ledger'[t] = ledger[t]
      /\ \A t \in tip + 1 .. tip', u \in 1 .. tip : SlotOf(u) < SlotOf(t)'
  BY BlockKeeps DEF IndexInv, TypeOK
<1>4. WatermarkIsStored' /\ EveryLegFolded'
  BY <1>1, <1>3, SameFold
<1>5. \A u \in 1 .. tip' : u \in 1 .. tip \/ u \in tip + 1 .. tip'
  BY <1>1, <1>2
<1>6. \A t \in 1 .. tip : SlotOf(t)' = SlotOf(t)
  BY <1>3 DEF SlotOf
<1>7. ASSUME NEW e \in Nat, e <= tip, Ends(e)
      PROVE  Ends(e)'
  <2>1. ASSUME NEW t \in 1 .. e, NEW u \in e + 1 .. tip'
        PROVE  SlotOf(t)' < SlotOf(u)'
    <3>1. t \in 1 .. tip /\ SlotOf(t)' = SlotOf(t) /\ u \in 1 .. tip'
      BY <1>1, <1>2, <1>6, <1>7
    <3>2. CASE u \in 1 .. tip
      <4>1. u \in e + 1 .. tip /\ SlotOf(u)' = SlotOf(u)
        BY <1>1, <1>2, <1>6, <1>7, <3>2
      <4>2. QED
        BY <1>7, <3>1, <4>1 DEF Ends
    <3>3. CASE u \in tip + 1 .. tip'
      BY <1>3, <3>1, <3>3
    <3>4. QED
      BY <1>5, <3>1, <3>2, <3>3
  <2>2. QED
    BY <2>1 DEF Ends
<1>8. src.last \in Nat /\ src.last <= tip /\ saved \in Nat /\ saved <= tip
  <2>1. src.last \in Nat /\ src.last <= tip /\ saved \in Nat /\ 1 .. saved \subseteq rows
    BY SourceFields DEF IndexInv, TypeOK, FeedInv, BatchFollows
  <2>2. saved > 0 => saved \in 1 .. saved
    BY <2>1
  <2>3. QED
    BY <1>2, <2>1, <2>2
<1>9. StoredSlotsAreWhole'
  <2>1. Ends(src.last)' /\ Ends(saved)'
    <3>1. Ends(src.last) /\ Ends(saved)
      BY DEF FoldedUpTo, StoredSlotsAreWhole
    <3> DEFINE e == src.last
               f == saved
    <3>2. e \in Nat /\ f \in Nat /\ e <= tip /\ f <= tip /\ Ends(e) /\ Ends(f)
          /\ e' = e /\ f' = f
      BY <1>1, <1>8, <3>1
    <3>3. /\ \A t \in 1 .. e, u \in e + 1 .. tip' : SlotOf(t)' < SlotOf(u)'
          /\ \A t \in 1 .. f, u \in f + 1 .. tip' : SlotOf(t)' < SlotOf(u)'
      BY <1>7, <3>2 DEF Ends
    <3>4. QED
      BY <3>2, <3>3 DEF Ends
  <2>2. ASSUME NEW t \in rows, NEW u \in (1 .. tip') \ rows
        PROVE  SlotOf(t)' < SlotOf(u)'
    <3>1. t \in 1 .. tip /\ SlotOf(t)' = SlotOf(t)
      BY <1>2, <1>6
    <3>2. CASE u \in 1 .. tip
      BY <1>6, <3>1, <3>2 DEF FoldedUpTo, StoredSlotsAreWhole
    <3>3. CASE u \in tip + 1 .. tip'
      BY <1>3, <3>1, <3>3
    <3>4. QED
      BY <1>5, <3>2, <3>3
  <2>3. QED
    BY <1>1, <2>1, <2>2 DEF StoredSlotsAreWhole
<1>10. QED
  BY <1>4, <1>9 DEF FoldedUpTo

\* A batch ends where a slot ends, so its legs are past the watermark.
LEMMA CommitCutsNoSlot ==
    ASSUME IndexInv, FoldedUpTo, Commit, UNCHANGED <<ledger, foldVars>>
    PROVE  FoldedUpTo'
<1> DEFINE d == src.last
<1>1. /\ rows' = rows \cup batch.txs
      /\ UNCHANGED <<tip, src, saved, ledger, pass, takes, rollup, watermark>>
  BY DEF Commit, foldVars
<1>2. 1 .. d \subseteq rows \cup batch.txs /\ batch.txs \subseteq 1 .. d
  BY DEF IndexInv, FeedInv, BatchFollows
<1>3. /\ Ends(d) /\ Ends(saved)
      /\ \A t \in rows, u \in (1 .. tip) \ rows : SlotOf(t) < SlotOf(u)
  BY DEF FoldedUpTo, StoredSlotsAreWhole
<1>4. d \in Nat /\ tip \in Nat /\ d <= tip /\ rows \subseteq 1 .. tip
  BY SourceFields, LegFields DEF IndexInv, TypeOK, FeedInv
<1>5. StoredSlotsAreWhole'
  <2>1. Ends(src.last)' /\ Ends(saved)'
    BY <1>1, <1>3 DEF Ends, SlotOf
  <2>2. ASSUME NEW t \in rows', NEW u \in (1 .. tip) \ rows'
        PROVE  SlotOf(t) < SlotOf(u)
    <3>1. u \notin rows /\ u \notin 1 .. d
      BY <1>1, <1>2
    <3>2. CASE t \in rows
      BY <1>3, <3>1, <3>2
    <3>3. CASE t \in batch.txs
      <4>1. t \in 1 .. d /\ u \in d + 1 .. tip
        BY <1>2, <1>4, <3>1, <3>3
      <4>2. QED
        BY <1>3, <4>1 DEF Ends
    <3>4. QED
      BY <1>1, <3>2, <3>3
  <2>3. QED
    BY <1>1, <2>1, <2>2 DEF StoredSlotsAreWhole, SlotOf
<1>6. WatermarkIsStored'
  BY <1>1 DEF FoldedUpTo, WatermarkIsStored, SlotOf
<1>7. EveryLegFolded'
  <2>1. SUFFICES ASSUME NEW leg \in Legs(rows)', ~Before(watermark, Key(leg))'
                 PROVE  leg[1] \in takes' \cap rollup'
    BY DEF EveryLegFolded
  <2>2. PICK t \in rows' : \E i \in 1 .. ledger[t].legs : leg = <<t, i>>
    BY <1>1 DEF Legs
  <2>3. leg[1] = t
    BY <2>2
  <2>4. ~Before(watermark, Key(leg))
    BY <1>1, <2>1 DEF Before, Key
  <2>5. CASE t \in rows
    <3>1. leg \in Legs(rows)
      BY <2>2, <2>5 DEF Legs
    <3>2. QED
      BY <1>1, <2>4, <3>1 DEF FoldedUpTo, EveryLegFolded
  <2>6. CASE t \notin rows
    <3>1. t \in 1 .. tip
      BY <1>1, <1>2, <1>4, <2>6
    <3>2. Key(leg)[1] = SlotOf(t)
      BY <2>3 DEF Key, SlotOf
    <3>3. SlotOf(t) > 0
      BY <3>1 DEF IndexInv, FoldInv, SlotsGrow
    <3>4. \A u \in rows : SlotOf(u) < SlotOf(t)
      BY <1>3, <2>6, <3>1
    <3>5. watermark[1] < SlotOf(t)
      BY <3>3, <3>4 DEF FoldedUpTo, WatermarkIsStored
    <3>6. QED
      BY <2>4, <3>2, <3>5 DEF Before
  <2>7. QED
    BY <2>5, <2>6
<1>8. QED
  BY <1>5, <1>6, <1>7 DEF FoldedUpTo

\* The source's cursor and the one that is saved end a slot, as the pages did.
LEMMA CursorsCutNoSlot ==
    ASSUME IndexInv, FoldedUpTo, PagesKeepSlots, FeedWork \/ EmitFails \/ Crash, ~Commit,
           UNCHANGED <<ledger, takes, rollup, watermark>>
    PROVE  FoldedUpTo'
<1>1. tip' = tip /\ rows' = rows
  BY DEF FeedWork, EmitFails, Enumerate, EmitPage, LosePage, Done, SaveCursor, Start, Crash
<1>2. WatermarkIsStored' /\ EveryLegFolded'
  BY <1>1, SameFold
<1>3. Ends(src.last) /\ Ends(saved) /\ Ends(0)
  BY DEF FoldedUpTo, StoredSlotsAreWhole, Ends
<1>4. src \in SourceType
  BY DEF IndexInv, TypeOK, FeedTypeOK, SourceType
<1>5. Ends(src'.last) /\ Ends(saved')
  <2>1. CASE Enumerate
    <3>1. src'.last = src.last /\ saved' = saved
      BY <1>4, <2>1 DEF Enumerate, SourceType
    <3>2. QED
      BY <1>3, <3>1
  <2>2. CASE EmitPage
    <3>1. Emitting /\ saved' = saved /\ src'.last = Oldest.newest
      BY <1>4, <2>2 DEF EmitPage, CursorFor, SourceType
    <3>2. Len(src.pending) \in DOMAIN src.pending
      BY <3>1, SourceFields DEF Emitting, IndexInv, TypeOK
    <3>3. Ends(Oldest.newest)
      BY <3>2 DEF PagesKeepSlots, Oldest
    <3>4. QED
      BY <1>3, <3>1, <3>3
  <2>3. CASE LosePage \/ Done
    <3>1. saved' = saved /\ src' = RestartWalk(src.last)
      BY <2>3 DEF LosePage, Done
    <3>2. src'.last = src.last
      BY <3>1 DEF RestartWalk, FreshSource
    <3>3. QED
      BY <1>3, <3>1, <3>2
  <2>4. CASE SaveCursor
    <3>1. src' = src /\ saved' = src.last
      BY <2>4 DEF SaveCursor, IndexInv, FeedInv, BatchFollows
    <3>2. QED
      BY <1>3, <3>1
  <2>5. CASE Start
    <3>1. saved' = saved /\ src' = RestartWalk(saved)
      BY <2>5 DEF Start
    <3>2. src'.last = saved
      BY <3>1 DEF RestartWalk, FreshSource
    <3>3. QED
      BY <1>3, <3>1, <3>2
  <2>6. CASE EmitFails
    <3>1. src'.last = src.last /\ saved' = saved
      BY <1>4, <2>6 DEF EmitFails, SourceType
    <3>2. QED
      BY <1>3, <3>1
  <2>7. CASE Crash
    <3>1. src'.last = 0 /\ saved' = saved
      BY <2>7 DEF Crash, FreshSource, None
    <3>2. QED
      BY <1>3, <3>1
  <2>8. QED
    BY <2>1, <2>2, <2>3, <2>4, <2>5, <2>6, <2>7 DEF FeedWork
<1>6. StoredSlotsAreWhole'
  BY <1>1, <1>5 DEF FoldedUpTo, StoredSlotsAreWhole, Ends, SlotOf
<1>7. QED
  BY <1>2, <1>6 DEF FoldedUpTo

\* The watermark moves to the last leg of a pass, behind which all legs are folded: those
\* before the pass by what was said before, those of the pass by the takes it wrote.
LEMMA AdvanceFolds ==
    ASSUME IndexInv, FoldedUpTo, AdvanceWatermark
    PROVE  FoldedUpTo'
<1> DEFINE last == LastFolded(pass.legs)
<1>1. /\ pass # NoPass /\ pass.todo = {} /\ rollup = takes
      /\ watermark' = Key(last)
      /\ UNCHANGED <<tip, src, rows, saved, ledger, takes, rollup>>
  BY DEF AdvanceWatermark, AllWritten, NextBatch
<1>2. /\ last \in pass.legs
      /\ pass.legs \subseteq NewLegs
      /\ \A leg \in pass.legs, other \in NewLegs :
            ~Before(Key(leg), Key(other)) => other \in pass.legs
      /\ \A leg \in pass.legs : leg[1] \in takes
  BY <1>1, LastFoldedIs DEF IndexInv, FoldInv, PassIsFirst
<1> HIDE DEF last
<1>3. last \in Legs(rows) /\ last[1] \in rows
  BY <1>2, LegFields DEF IndexInv, NewLegs
<1>4. WatermarkIsStored'
  <2>1. watermark'[1] = SlotOf(last[1])
    BY <1>1 DEF Key, SlotOf
  <2>2. QED
    BY <1>1, <1>3, <2>1 DEF WatermarkIsStored, SlotOf
<1>5. StoredSlotsAreWhole'
  BY <1>1 DEF FoldedUpTo, StoredSlotsAreWhole, Ends, SlotOf
<1>6. EveryLegFolded'
  <2>1. SUFFICES ASSUME NEW leg \in Legs(rows)', ~Before(watermark, Key(leg))'
                 PROVE  leg[1] \in takes \cap rollup
    BY <1>1 DEF EveryLegFolded
  <2>2. leg \in Legs(rows) /\ ~Before(Key(last), Key(leg))
    BY <1>1, <2>1 DEF Legs, Before, Key
  <2>3. CASE Before(watermark, Key(leg))
    <3>1. leg \in NewLegs
      BY <2>2, <2>3 DEF NewLegs
    <3>2. leg \in pass.legs
      BY <1>2, <2>2, <3>1
    <3>3. QED
      BY <1>1, <1>2, <3>2
  <2>4. CASE ~Before(watermark, Key(leg))
    BY <2>2, <2>4 DEF FoldedUpTo, EveryLegFolded
  <2>5. QED
    BY <2>3, <2>4
<1>7. QED
  BY <1>4, <1>5, <1>6 DEF FoldedUpTo

\* No step loses a leg, as long as no page that waits to be emitted ends inside a slot.
LEMMA FoldStepKeeps ==
    ASSUME ~Races, IndexInv, IndexInv', FoldedUpTo, PagesKeepSlots, Next \/ UNCHANGED vars
    PROVE  FoldedUpTo'
<1>1. CASE AdvanceWatermark
  BY <1>1, AdvanceFolds
<1>2. CASE NothingNew \/ UNCHANGED vars
  <2>1. UNCHANGED <<tip, src, rows, saved, ledger, takes, rollup, watermark>>
    BY <1>2 DEF NothingNew, NextBatch, vars, feedVars, foldVars
  <2>2. WatermarkIsStored' /\ EveryLegFolded'
    BY <2>1, SameFold
  <2>3. StoredSlotsAreWhole'
    BY <2>1 DEF FoldedUpTo, StoredSlotsAreWhole, Ends, SlotOf
  <2>4. QED
    BY <2>2, <2>3 DEF FoldedUpTo
<1>3. CASE Select \/ RecomputeRollup \/ \E t \in pass.todo : UpsertTake(t)
  <2>1. /\ UNCHANGED <<tip, src, rows, saved, ledger, watermark>>
        /\ takes \subseteq takes' /\ rollup \subseteq rollup'
    BY <1>3, PassStepKeeps DEF feedVars
  <2>2. WatermarkIsStored' /\ EveryLegFolded'
    BY <2>1, SameFold
  <2>3. StoredSlotsAreWhole'
    BY <2>1 DEF FoldedUpTo, StoredSlotsAreWhole, Ends, SlotOf
  <2>4. QED
    BY <2>2, <2>3 DEF FoldedUpTo
<1>4. CASE FeedWork /\ UNCHANGED <<ledger, foldVars>>
  <2>1. CASE Commit
    BY <1>4, <2>1, CommitCutsNoSlot
  <2>2. CASE ~Commit
    BY <1>4, <2>2, CursorsCutNoSlot DEF foldVars
  <2>3. QED
    BY <2>1, <2>2
<1>5. CASE EmitFails /\ UNCHANGED <<ledger, foldVars>>
  <2>1. ~Commit
    BY <1>5 DEF EmitFails, Emitting, Commit
  <2>2. QED
    BY <1>5, <2>1, CursorsCutNoSlot DEF foldVars
<1>6. CASE Crash /\ UNCHANGED <<ledger, takes, rollup, watermark>>
  <2>1. CASE Commit
    BY <1>6, <2>1 DEF Crash, Commit
  <2>2. CASE ~Commit
    BY <1>6, <2>2, CursorsCutNoSlot
  <2>3. QED
    BY <2>1, <2>2
<1>7. ASSUME NEW n \in BlockSizes, NEW s \in Signatures(n), NEW legs \in [1 .. n -> LegCounts],
             ArriveBlock(n, s, legs)
      PROVE  FoldedUpTo'
  BY <1>7, BlockCutsNoSlot
<1>8. QED
  BY <1>1, <1>2, <1>3, <1>4, <1>5, <1>6, <1>7 DEF Next, Work

\* Every leg that is not past the watermark is in its take, and its take in the rollup,
\* wherever batches, passes and crashes fall, as long as no page ends inside a slot.
THEOREM LegsAreFolded == ~Races => (Spec /\ []PagesKeepSlots => []EveryLegFolded)
<1> SUFFICES ASSUME ~Races
             PROVE  Spec /\ []PagesKeepSlots => []EveryLegFolded
  OBVIOUS
<1>1. Init => FoldedUpTo
  <2>1. SUFFICES ASSUME Init
                 PROVE  FoldedUpTo
    OBVIOUS
  <2>2. rows = {} /\ tip = 0 /\ src.last = 0 /\ saved = 0 /\ watermark[1] = 0
    BY <2>1 DEF Init, FeedInit, FreshSource, None, BeforeAll
  <2>3. Legs(rows) = {} /\ 1 .. 0 = {}
    BY <2>2 DEF Legs
  <2>4. QED
    BY <2>2, <2>3 DEF FoldedUpTo, StoredSlotsAreWhole, WatermarkIsStored, EveryLegFolded, Ends
<1>2. IndexInv /\ IndexInv' /\ FoldedUpTo /\ PagesKeepSlots /\ [Next]_vars => FoldedUpTo'
  BY FoldStepKeeps
<1>3. FoldedUpTo => EveryLegFolded
  BY DEF FoldedUpTo
<1>4. QED
  BY <1>1, <1>2, <1>3, IndexInvHolds, PTL DEF Spec

------------------------------------------------------------------------------
(* Blocks of one size, and pages of a whole number of them: then no page    *)
(* ends inside a slot.                                                      *)

Even(B, n) == \E q \in Int : n = q * B

\* Sums, differences and multiples of whole numbers of blocks are such numbers, and two
\* that differ do so by at least a block.
LEMMA EvenSums ==
    ASSUME NEW B \in Nat, NEW m \in Int, NEW n \in Int, Even(B, m), Even(B, n)
    PROVE  /\ Even(B, m + n) /\ Even(B, m - n)
           /\ \A k \in Int : Even(B, k * n)
           /\ m < n => m + B <= n
<1>1. PICK q \in Int, r \in Int : m = q * B /\ n = r * B
  BY DEF Even
<1>2. m + n = (q + r) * B /\ m - n = (q - r) * B
  BY <1>1
<1>3. ASSUME NEW k \in Int
      PROVE  k * n = (k * r) * B /\ k * r \in Int
  BY <1>1
<1>4. ASSUME m < n
      PROVE  m + B <= n
  <2>1. q < r
    <3>1. SUFFICES ASSUME r <= q
                   PROVE  FALSE
      OBVIOUS
    <3>2. q - r \in Nat /\ (q - r) * B = m - n
      BY <1>2, <3>1
    <3>3. (q - r) * B \in Nat
      BY <3>2, TimesType
    <3>4. QED
      BY <1>4, <3>2, <3>3
  <2>2. r - q - 1 \in Nat /\ (r - q - 1) * B = n - m - B
    BY <1>1, <2>1
  <2>3. (r - q - 1) * B \in Nat
    BY <2>2, TimesType
  <2>4. QED
    BY <2>2, <2>3
<1>5. Even(B, m + n) /\ Even(B, m - n)
  <2>1. q + r \in Int /\ q - r \in Int
    OBVIOUS
  <2>2. QED
    BY Zenon, <1>2, <2>1 DEF Even
<1>6. \A k \in Int : Even(B, k * n)
  BY Zenon, <1>3 DEF Even
<1>7. QED
  BY <1>4, <1>5, <1>6

\* The ledger ends where a block does, no slot goes over such a place, and pages end there.
PagesAreEven(B) == \A i \in DOMAIN src.pending : Even(B, src.pending[i].newest)
SlotsAreEven(B) == Even(B, tip) /\ \A n \in 0 .. tip : Even(B, n) => Ends(n)

\* A walk goes on a whole number of blocks further down.
LEMMA PollsAreEven ==
    ASSUME NEW B \in Nat, Even(B, Limit), FeedTypeOK, FeedInv, Even(B, tip), PagesAreEven(B),
           Enumerate
    PROVE  PagesAreEven(B)'
<1> DEFINE p == src.pending
           m == Len(p)
           K == Keys
           N == Newest(src.before)
<1>1. ~src.reached /\ src' = [src EXCEPT !.before = WalkedTo, !.pending = p \o K,
                                         !.reached = Reached]
  BY DEF Enumerate
<1>2. src'.pending = p \o K
  BY <1>1 DEF FeedTypeOK
<1>3. /\ p \in Seq(PageKey) /\ m \in Nat /\ DOMAIN p = 1 .. m /\ Limit \in Nat /\ tip \in Nat
      /\ \A i \in 1 .. m : p[i].newest \in Nat
  BY SourceFields, FeedSizes
<1>4. N \in Nat /\ (p # << >> => N = p[m].newest - Limit)
  BY <1>1, FoundAbove
<1>5. Even(B, N)
  <2>1. CASE p = << >>
    <3>1. src.before = Tip
      BY <1>1, <2>1 DEF FeedInv, WalkGoesOn
    <3>2. QED
      BY <3>1 DEF Newest
  <2>2. CASE p # << >>
    <3>1. m \in 1 .. m
      BY <1>3, <2>2
    <3>2. Even(B, p[m].newest) /\ p[m].newest \in Nat
      BY <1>3, <3>1 DEF PagesAreEven
    <3> DEFINE x == p[m].newest
    <3>3. Even(B, x) /\ x \in Int /\ Limit \in Int /\ N = x - Limit
      BY <1>3, <1>4, <2>2, <3>2
    <3> HIDE DEF x
    <3>4. Even(B, x - Limit)
      BY <3>3, EvenSums
    <3>5. QED
      BY <3>3, <3>4
  <2>3. QED
    BY <2>1, <2>2
<1>6. K \in Seq(PageKey) /\ Len(K) = Pages /\ Pages \in Nat
      /\ \A k \in 1 .. Pages : K[k].newest = TopOf(k)
  BY <1>1, KeysOfPoll, PagesOfPoll
<1>7. ASSUME NEW k \in 1 .. Pages
      PROVE  Even(B, K[k].newest)
  <2>1. (k - 1) * Limit \in Int /\ Even(B, (k - 1) * Limit)
    BY <1>3, EvenSums
  <2>2. K[k].newest = N - (k - 1) * Limit
    BY <1>6 DEF TopOf
  <2> DEFINE down == (k - 1) * Limit
  <2> HIDE DEF N, K, down
  <2>3. Even(B, N - down)
    BY <1>4, <1>5, <2>1, EvenSums DEF down
  <2>4. QED
    BY <2>2, <2>3 DEF down
<1> HIDE DEF K, N
<1>8. ASSUME NEW i \in DOMAIN (p \o K)
      PROVE  Even(B, (p \o K)[i].newest)
  <2>1. i \in 1 .. m + Pages
    BY <1>3, <1>6
  <2>2. CASE i \in 1 .. m
    <3>1. (p \o K)[i] = p[i]
      BY <1>3, <1>6, <2>2
    <3>2. QED
      BY <1>3, <2>2, <3>1 DEF PagesAreEven
  <2>3. CASE i \notin 1 .. m
    <3>1. i - m \in 1 .. Pages /\ (p \o K)[i] = K[i - m]
      BY <1>3, <1>6, <2>1, <2>3
    <3>2. QED
      BY <1>7, <3>1
  <2>4. QED
    BY <2>2, <2>3
<1>9. QED
  BY <1>2, <1>8 DEF PagesAreEven

\* All else that the worker does to its walk is to drop pages.
LEMMA WalksAreEven ==
    ASSUME NEW B \in Nat, Even(B, Limit), FeedTypeOK, FeedInv, Even(B, tip), PagesAreEven(B),
           FeedWork \/ Crash \/ UNCHANGED src
    PROVE  PagesAreEven(B)'
<1>1. ASSUME UNCHANGED src
      PROVE  PagesAreEven(B)'
  BY <1>1 DEF PagesAreEven
<1>2. ASSUME src'.pending = << >>
      PROVE  PagesAreEven(B)'
  BY <1>2 DEF PagesAreEven
<1>3. CASE Enumerate
  BY <1>3, PollsAreEven
<1>4. CASE EmitPage
  <2> DEFINE p == src.pending
             m == Len(p)
  <2>1. p \in Seq(PageKey) /\ p # << >> /\ m \in Nat /\ DOMAIN p = 1 .. m
    BY <1>4, SourceFields DEF EmitPage, Emitting
  <2>2. src'.pending = SubSeq(p, 1, m - 1)
    BY <1>4 DEF EmitPage, RestOf, FeedTypeOK
  <2>3. DOMAIN src'.pending = 1 .. m - 1 /\ \A i \in 1 .. m - 1 : src'.pending[i] = p[i]
    BY <2>1, <2>2
  <2>4. 1 .. m - 1 \subseteq DOMAIN p
    BY <2>1
  <2>5. QED
    BY <2>3, <2>4 DEF PagesAreEven
<1>5. CASE LosePage \/ Done \/ Start
  BY <1>2, <1>5 DEF LosePage, Done, Start, RestartWalk, FreshSource
<1>6. CASE Crash
  BY <1>2, <1>6 DEF Crash, FreshSource
<1>7. CASE Commit \/ SaveCursor
  BY <1>1, <1>7 DEF Commit, SaveCursor
<1>8. QED
  BY <1>1, <1>3, <1>4, <1>5, <1>6, <1>7 DEF FeedWork

\* A block leaves the places where slots end as they are, and adds its own.
LEMMA BlocksAreEven ==
    ASSUME NEW B \in Nat, BlockSizes \subseteq {B}, IndexInv, IndexInv', SlotsAreEven(B),
           NEW n \in BlockSizes, NEW s \in Signatures(n), NEW legs \in [1 .. n -> LegCounts],
           ArriveBlock(n, s, legs)
    PROVE  SlotsAreEven(B)'
<1>1. tip' = tip + B /\ tip \in Nat /\ tip' \in Nat
  <2>1. n = B
    OBVIOUS
  <2>2. tip' = tip + n
    BY DEF ArriveBlock, Arrive
  <2>3. tip \in Nat
    BY LegFields DEF IndexInv
  <2>4. QED
    BY <2>1, <2>2, <2>3
<1>2. /\ \A t \in 1 .. tip : ledger'[t] = ledger[t]
      /\ \A t \in tip + 1 .. tip', u \in 1 .. tip : SlotOf(u) < SlotOf(t)'
  BY BlockKeeps DEF IndexInv, TypeOK
<1>3. Even(B, tip) /\ Even(B, B)
  <2>1. B = 1 * B
    OBVIOUS
  <2>2. QED
    BY <2>1 DEF SlotsAreEven, Even
<1>4. Even(B, tip')
  BY <1>1, <1>3, EvenSums
<1>5. ASSUME NEW x \in 0 .. tip', Even(B, x), NEW t \in 1 .. x, NEW u \in x + 1 .. tip'
      PROVE  SlotOf(t)' < SlotOf(u)'
  <2>1. x <= tip
    <3>1. x < tip + B /\ x \in Int
      BY <1>1, <1>5
    <3>2. ~(tip < x)
      BY <1>1, <1>3, <1>5, <3>1, EvenSums
    <3>3. QED
      BY <1>1, <3>1, <3>2
  <2>2. t \in 1 .. tip /\ SlotOf(t)' = SlotOf(t)
    BY <1>1, <1>2, <2>1 DEF SlotOf
  <2>3. CASE u \in 1 .. tip
    <3>1. x \in 0 .. tip /\ u \in x + 1 .. tip
      BY <1>1, <2>1, <2>3
    <3>2. SlotOf(t) < SlotOf(u)
      BY <1>5, <3>1 DEF SlotsAreEven, Ends
    <3>3. QED
      BY <1>2, <2>2, <2>3, <3>2 DEF SlotOf
  <2>4. CASE u \notin 1 .. tip
    <3>1. u \in tip + 1 .. tip'
      BY <1>1, <2>4
    <3>2. QED
      BY <1>2, <2>2, <3>1
  <2>5. QED
    BY <2>3, <2>4
<1>6. QED
  BY <1>4, <1>5 DEF SlotsAreEven, Ends

\* And nothing but a block touches slots.
LEMMA EvenStep ==
    ASSUME ~Races, NEW B \in Nat, BlockSizes \subseteq {B}, Even(B, Limit), IndexInv, IndexInv',
           SlotsAreEven(B), PagesAreEven(B), Next \/ UNCHANGED vars
    PROVE  SlotsAreEven(B)' /\ PagesAreEven(B)'
<1>1. FeedTypeOK /\ FeedInv /\ Even(B, tip)
  BY DEF IndexInv, TypeOK, SlotsAreEven
<1>2. ASSUME UNCHANGED <<tip, ledger>>, FeedWork \/ Crash \/ UNCHANGED src
      PROVE  SlotsAreEven(B)' /\ PagesAreEven(B)'
  <2>1. SlotsAreEven(B)'
    BY <1>2 DEF SlotsAreEven, Ends, SlotOf
  <2>2. QED
    BY <1>1, <1>2, <2>1, WalksAreEven
<1>3. ASSUME NEW n \in BlockSizes, NEW s \in Signatures(n), NEW legs \in [1 .. n -> LegCounts],
             ArriveBlock(n, s, legs)
      PROVE  SlotsAreEven(B)' /\ PagesAreEven(B)'
  <2>1. UNCHANGED src
    BY <1>3 DEF ArriveBlock, Arrive
  <2>2. QED
    BY <1>1, <1>3, <2>1, BlocksAreEven, WalksAreEven
<1>4. CASE FeedWork /\ UNCHANGED <<ledger, foldVars>>
  <2>1. tip' = tip
    BY <1>4 DEF FeedWork, Enumerate, EmitPage, LosePage, Done, Commit, SaveCursor, Start
  <2>2. QED
    BY <1>2, <1>4, <2>1
<1>5. CASE EmitFails /\ UNCHANGED <<ledger, foldVars>>
  BY <1>1, <1>2, <1>5, EmitFailsKeeps DEF feedVars
<1>6. CASE Crash /\ UNCHANGED <<ledger, takes, rollup, watermark>>
  BY <1>2, <1>6 DEF Crash
<1>7. CASE Select \/ RecomputeRollup \/ \E t \in pass.todo : UpsertTake(t)
  BY <1>2, <1>7, PassStepKeeps DEF feedVars
<1>8. CASE NothingNew \/ AdvanceWatermark \/ UNCHANGED vars
  BY <1>2, <1>8 DEF NothingNew, AdvanceWatermark, NextBatch, vars, feedVars
<1>9. QED
  BY <1>3, <1>4, <1>5, <1>6, <1>7, <1>8 DEF Next, Work

\* And then every leg is folded, without a premise on pages: where a slot has one
\* transaction of the program (B = 1), or always B of them and a page holds a multiple.
THEOREM LegsOfEvenBlocksAreFolded ==
    \A B \in Nat : /\ ~Races /\ BlockSizes \subseteq {B} /\ \E k \in Nat : Limit = k * B
                   => (Spec => []EveryLegFolded)
<1> SUFFICES ASSUME NEW B \in Nat, ~Races, BlockSizes \subseteq {B}, \E k \in Nat : Limit = k * B
             PROVE  Spec => []EveryLegFolded
  OBVIOUS
<1>1. Even(B, Limit)
  BY DEF Even
<1>2. Init => SlotsAreEven(B) /\ PagesAreEven(B)
  <2>1. SUFFICES ASSUME Init
                 PROVE  SlotsAreEven(B) /\ PagesAreEven(B)
    OBVIOUS
  <2>2. tip = 0 /\ src.pending = << >>
    BY <2>1 DEF Init, FeedInit, FreshSource
  <2>3. 0 = 0 * B
    OBVIOUS
  <2>4. Even(B, tip)
    BY <2>2, <2>3 DEF Even
  <2>5. \A n \in 0 .. tip : Ends(n)
    BY <2>2 DEF Ends
  <2>6. QED
    BY <2>2, <2>4, <2>5 DEF SlotsAreEven, PagesAreEven
<1>3. /\ IndexInv /\ IndexInv' /\ SlotsAreEven(B) /\ PagesAreEven(B) /\ [Next]_vars
      => SlotsAreEven(B)' /\ PagesAreEven(B)'
  BY <1>1, EvenStep
<1>4. IndexInv /\ SlotsAreEven(B) /\ PagesAreEven(B) => PagesKeepSlots
  <2>1. SUFFICES ASSUME IndexInv, SlotsAreEven(B), PagesAreEven(B), NEW i \in DOMAIN src.pending
                 PROVE  Ends(src.pending[i].newest)
    BY DEF PagesKeepSlots
  <2>2. src.pending[i].newest \in Nat /\ src.pending[i].newest <= tip /\ tip \in Nat
    BY <2>1, SourceFields DEF IndexInv, TypeOK, FeedInv, PagesInLine, InLine
  <2>3. QED
    BY <2>1, <2>2 DEF SlotsAreEven, PagesAreEven
<1>5. QED
  BY <1>2, <1>3, <1>4, IndexInvHolds, LegsAreFolded, PTL DEF Spec

------------------------------------------------------------------------------
(* The fair-value engine: the greatest and the least of a set.              *)

\* A finite set of numbers has a greatest one.
LEMMA GreatestExists ==
    ASSUME NEW S \in SUBSET Int, IsFiniteSet(S), S # {}
    PROVE  \E m \in S : \A v \in S : v <= m
<1> DEFINE Above(m) == {v \in S : m < v}
           T == {Above(m) : m \in S}
<1>1. IsWellFoundedOn(StrictSubsetOrdering(S), FiniteSubsetsOf(S))
  BY FS_StrictSubsetOrderingWellFounded
<1>2. T \subseteq FiniteSubsetsOf(S) /\ T # {}
  <2>1. ASSUME NEW m \in S
        PROVE  Above(m) \in SUBSET S /\ IsFiniteSet(Above(m))
    <3>1. Above(m) \in SUBSET S
      OBVIOUS
    <3> HIDE DEF Above
    <3>2. QED
      BY <3>1, FS_Subset
  <2> HIDE DEF Above
  <2>2. QED
    BY <2>1 DEF FiniteSubsetsOf
<1>3. PICK U \in T : \A V \in T : ~(<<V, U>> \in StrictSubsetOrdering(S))
  BY <1>1, <1>2, WFMin
<1>4. PICK m \in S : U = Above(m)
  OBVIOUS
<1>5. ASSUME NEW v \in S, m < v
      PROVE  FALSE
  <2> m \in Int /\ v \in Int /\ S \subseteq Int
    OBVIOUS
  <2>4. \A w \in S : v < w => m < w
    BY <1>5
  <2>5. v \in Above(m) /\ v \notin Above(v)
    BY <1>5
  <2>1. v \in Above(m) /\ v \notin Above(v) /\ Above(v) \subseteq Above(m)
    BY <2>4, <2>5
  <2>2. <<Above(v), Above(m)>> \in StrictSubsetOrdering(S)
    BY <2>1 DEF StrictSubsetOrdering
  <2>3. QED
    BY <1>3, <1>4, <2>2
<1>6. QED
  BY <1>5

\* A set of natural numbers has a least one.
LEMMA LeastExists ==
    ASSUME NEW S \in SUBSET Nat, S # {}
    PROVE  \E m \in S : \A v \in S : m <= v
<1>1. PICK m \in S : \A v \in S : ~(<<v, m>> \in OpToRel(<, Nat))
  BY NatLessThanWellFounded, WFMin
<1>2. ASSUME NEW v \in S
      PROVE  m <= v
  <2>1. ~(v < m)
    BY <1>1 DEF OpToRel
  <2>2. QED
    BY <2>1
<1>3. QED
  BY <1>2

\* The image of a finite set is finite.
LEMMA ImageIsFinite ==
    ASSUME NEW S, IsFiniteSet(S), NEW f \in [S -> Int]
    PROVE  IsFiniteSet({f[i] : i \in S})
<1>1. f \in Surjection(S, {f[i] : i \in S})
  BY DEF Surjection
<1>2. QED
  BY <1>1, FS_Surjection

------------------------------------------------------------------------------
(* Places in the order of the values.                                       *)

\* What an offer is made of.
LEMMA OfferFields ==
    ASSUME NEW set, Offers(set)
    PROVE  /\ set = [i \in DOMAIN set |-> set[i]]
           /\ IsFiniteSet(DOMAIN set) /\ DOMAIN set \subseteq Nat
           /\ \A i \in DOMAIN set :
                 /\ i \in Nat /\ set[i].value \in Nat /\ set[i].age \in Nat
                 /\ set[i].class \in {"tape", "reference"}
                 /\ set[i].trusted \in BOOLEAN /\ set[i].source # Nobody
           /\ \A i, j \in DOMAIN set : set[i].source = set[j].source => i = j
           /\ Count(set) \in Nat
           /\ Count(set) = 0 <=> DOMAIN set = {}
           /\ Count(set) >= 1 => DOMAIN set # {}
<1>1. Count(set) \in Nat /\ (Count(set) = 0 <=> DOMAIN set = {})
  BY FS_CardinalityType, FS_EmptySet DEF Offers, Count
<1>2. Count(set) >= 1 => Count(set) # 0
  BY <1>1
<1>3. QED
  BY <1>1, <1>2 DEF Offers

\* The ranks are the places 1 to the number of candidates, one for each candidate.
LEMMA RanksArePlaces ==
    ASSUME NEW set, Offers(set)
    PROVE  /\ \A i \in DOMAIN set : Rank(set, i) \in 1 .. Count(set)
           /\ \A i, j \in DOMAIN set : Rank(set, i) = Rank(set, j) => i = j
           /\ \A i, j \in DOMAIN set :
                 Rank(set, i) <= Rank(set, j) => set[i].value <= set[j].value
           /\ \A k \in 1 .. Count(set) : \E i \in DOMAIN set : Rank(set, i) = k
<1> DEFINE D == DOMAIN set
<1>1. /\ IsFiniteSet(D) /\ D \subseteq Nat /\ Count(set) \in Nat
      /\ \A i \in D : i \in Nat /\ set[i].value \in Nat
  BY OfferFields
<1>2. ASSUME NEW i \in D
      PROVE  /\ UpTo(set, i) \in SUBSET D /\ i \in UpTo(set, i) /\ IsFiniteSet(UpTo(set, i))
             /\ Rank(set, i) \in 1 .. Count(set)
  <2>1. UpTo(set, i) \in SUBSET D /\ i \in UpTo(set, i)
    BY <1>1 DEF UpTo, NotAbove
  <2>2. IsFiniteSet(UpTo(set, i)) /\ Cardinality(UpTo(set, i)) <= Cardinality(D)
    BY <1>1, <2>1, FS_Subset
  <2>3. Cardinality(UpTo(set, i)) \in Nat /\ Cardinality(UpTo(set, i)) # 0
    BY <2>1, <2>2, FS_CardinalityType, FS_EmptySet
  <2>4. QED
    BY <1>1, <2>1, <2>2, <2>3 DEF Rank, Count
<1>3. ASSUME NEW i \in D, NEW j \in D, i # j, NotAbove(set[j], set[i], j, i)
      PROVE  Rank(set, j) < Rank(set, i)
  <2>1. UpTo(set, j) \subseteq UpTo(set, i) /\ i \notin UpTo(set, j)
    BY <1>1, <1>3 DEF UpTo, NotAbove
  <2>2. UpTo(set, j) \in SUBSET UpTo(set, i) /\ UpTo(set, j) # UpTo(set, i)
    BY <2>1, <1>2
  <2>3. IsFiniteSet(UpTo(set, i))
    BY <1>2
  <2>4. /\ Cardinality(UpTo(set, j)) <= Cardinality(UpTo(set, i))
        /\ Cardinality(UpTo(set, j)) # Cardinality(UpTo(set, i))
    BY <2>2, <2>3, FS_Subset
  <2>5. QED
    BY <1>2, <2>4 DEF Rank
<1>4. \A i, j \in D : i = j \/ NotAbove(set[j], set[i], j, i) \/ NotAbove(set[i], set[j], i, j)
  BY <1>1 DEF NotAbove
<1>5. \A i, j \in D : Rank(set, i) = Rank(set, j) => i = j
  <2>1. SUFFICES ASSUME NEW i \in D, NEW j \in D, Rank(set, i) = Rank(set, j), i # j
                 PROVE  FALSE
    OBVIOUS
  <2>2. Rank(set, i) \in Nat /\ Rank(set, j) \in Nat
    BY <1>2, <1>1
  <2>3. CASE NotAbove(set[j], set[i], j, i)
    BY <1>3, <2>1, <2>2, <2>3
  <2>4. CASE NotAbove(set[i], set[j], i, j)
    BY <1>3, <2>1, <2>2, <2>4
  <2>5. QED
    BY <1>4, <2>1, <2>3, <2>4
<1>6. ASSUME NEW i \in D, NEW j \in D, Rank(set, i) <= Rank(set, j)
      PROVE  set[i].value <= set[j].value
  <2>1. SUFFICES ASSUME set[j].value < set[i].value
                 PROVE  FALSE
    BY <1>1
  <2>2. i # j /\ NotAbove(set[j], set[i], j, i)
    BY <2>1, <1>1 DEF NotAbove
  <2>3. Rank(set, j) < Rank(set, i) /\ Rank(set, i) \in Nat /\ Rank(set, j) \in Nat
    BY <2>2, <1>3, <1>2, <1>1
  <2>4. QED
    BY <1>6, <2>3
<1>7. \A k \in 1 .. Count(set) : \E i \in D : Rank(set, i) = k
  <2> DEFINE f == [i \in D |-> Rank(set, i)]
  <2>1. f \in Injection(D, 1 .. Count(set))
    BY <1>2, <1>5 DEF Injection, IsInjective
  <2>2. IsFiniteSet(1 .. Count(set)) /\ Cardinality(1 .. Count(set)) = Count(set)
    BY <1>1, FS_Interval
  <2>3. Cardinality(D) = Count(set)
    BY DEF Count
  <2> HIDE DEF f
  <2>4. f \in Surjection(D, 1 .. Count(set))
    BY <2>1, <2>2, <2>3, FS_Injection
  <2>5. QED
    BY <2>4 DEF Surjection, f
<1>8. QED
  BY <1>2, <1>5, <1>6, <1>7

\* A place is held by the candidate of that rank.
LEMMA RankedHolds ==
    ASSUME NEW set, Offers(set), NEW k \in 1 .. Count(set)
    PROVE  Ranked(set, k) \in DOMAIN set /\ Rank(set, Ranked(set, k)) = k
BY RanksArePlaces DEF Ranked

\* The middles hold the two places next to the middle, the same one where the number is
\* odd; the median lies between their values.
LEMMA MiddlesHold ==
    ASSUME NEW set, Offers(set), Count(set) >= 1
    PROVE  /\ LowMiddle(set) \in DOMAIN set /\ HighMiddle(set) \in DOMAIN set
           /\ Rank(set, LowMiddle(set)) = (Count(set) + 1) \div 2
           /\ Rank(set, HighMiddle(set)) = Count(set) \div 2 + 1
           /\ set[LowMiddle(set)].value <= Median(set)
           /\ Median(set) <= set[HighMiddle(set)].value
           /\ Median(set) \in Nat
           /\ LowMiddle(set) = HighMiddle(set) =>
                 Count(set) # 2 /\ Median(set) = set[LowMiddle(set)].value
<1> DEFINE n == Count(set)
           l == LowMiddle(set)
           h == HighMiddle(set)
<1>1. n \in Nat /\ n >= 1
  BY OfferFields
<1>2. (n + 1) \div 2 \in 1 .. n /\ n \div 2 + 1 \in 1 .. n /\ (n + 1) \div 2 <= n \div 2 + 1
  BY <1>1
<1>3. l \in DOMAIN set /\ Rank(set, l) = (n + 1) \div 2
  BY <1>2, RankedHolds DEF LowMiddle
<1>4. h \in DOMAIN set /\ Rank(set, h) = n \div 2 + 1
  BY <1>2, RankedHolds DEF HighMiddle
<1>5. set[l].value \in Nat /\ set[h].value \in Nat
  BY <1>3, <1>4, OfferFields
<1>6. set[l].value <= set[h].value
  BY <1>2, <1>3, <1>4, RanksArePlaces
<1>7. Median(set) = (set[l].value + set[h].value) \div 2
  BY DEF Median
<1>8. \A a, b \in Nat : a <= b => /\ a <= (a + b) \div 2 /\ (a + b) \div 2 <= b
                                /\ (a + b) \div 2 \in Nat
  OBVIOUS
<1>9. \A a \in Nat : (a + a) \div 2 = a
  OBVIOUS
<1>10. l = h => n # 2
  BY <1>1, <1>3, <1>4
<1> HIDE DEF n, l, h
<1>11. /\ set[l].value <= Median(set) /\ Median(set) <= set[h].value /\ Median(set) \in Nat
       /\ l = h => Median(set) = set[l].value
  BY <1>5, <1>6, <1>7, <1>8, <1>9
<1>12. QED
  BY <1>3, <1>4, <1>10, <1>11 DEF n, l, h

\* No two candidates are further apart than the spread.
LEMMA SpreadCovers ==
    ASSUME NEW set, Offers(set), Count(set) >= 1
    PROVE  /\ Spread(set) \in Nat
           /\ \A i, j \in DOMAIN set : set[i].value - set[j].value <= Spread(set)
<1> DEFINE n == Count(set)
           a == Ranked(set, 1)
           z == Ranked(set, n)
<1>1. n \in Nat /\ n >= 1
  BY OfferFields
<1>2. /\ a \in DOMAIN set /\ z \in DOMAIN set /\ Rank(set, a) = 1 /\ Rank(set, z) = n
  BY <1>1, RankedHolds
<1>3. \A i \in DOMAIN set : Rank(set, a) <= Rank(set, i) /\ Rank(set, i) <= Rank(set, z)
  BY <1>1, <1>2, RanksArePlaces
<1>4. \A i \in DOMAIN set : set[a].value <= set[i].value /\ set[i].value <= set[z].value
  BY <1>2, <1>3, RanksArePlaces
<1>5. \A i \in DOMAIN set : set[i].value \in Nat
  BY OfferFields
<1>6. Spread(set) = set[z].value - set[a].value
  BY DEF Spread
<1> HIDE DEF n, a, z
<1>7. QED
  BY <1>2, <1>4, <1>5, <1>6

\* Whoever lies, a place between the first and the last is at a value between the least
\* and the greatest of the others'.
LEMMA InnerPlacesAreHonest ==
    ASSUME NEW set, Offers(set), NEW liar \in DOMAIN set, NEW lo \in Nat, NEW hi \in Nat,
           \A i \in DOMAIN set \ {liar} : lo <= set[i].value /\ set[i].value <= hi,
           NEW i \in DOMAIN set, Rank(set, i) > 1, Rank(set, i) < Count(set)
    PROVE  lo <= set[i].value /\ set[i].value <= hi
<1> DEFINE n == Count(set)
           a == Ranked(set, 1)
           z == Ranked(set, n)
<1>1. n \in Nat /\ Rank(set, i) \in 1 .. n /\ n > 1
  BY OfferFields, RanksArePlaces
<1>2. /\ a \in DOMAIN set /\ z \in DOMAIN set /\ Rank(set, a) = 1 /\ Rank(set, z) = n
  BY <1>1, RankedHolds
<1>3. a # i /\ z # i /\ Rank(set, a) <= Rank(set, i) /\ Rank(set, i) <= Rank(set, z)
  BY <1>1, <1>2
<1>4. set[a].value <= set[i].value /\ set[i].value <= set[z].value
  BY <1>2, <1>3, RanksArePlaces
<1>5. set[a].value \in Nat /\ set[i].value \in Nat /\ set[z].value \in Nat
  BY <1>2, OfferFields
<1> HIDE DEF n, a, z
<1>6. CASE i = liar
  <2>1. lo <= set[a].value /\ set[z].value <= hi
    BY <1>2, <1>3, <1>6
  <2>2. QED
    BY <2>1, <1>4, <1>5
<1>7. CASE i # liar
  BY <1>7
<1>8. QED
  BY <1>6, <1>7

\* The source that is suspected is one of those furthest away.
LEMMA SuspectIsFurthest ==
    ASSUME NEW set, Offers(set), Count(set) >= 1, NEW v \in Int
    PROVE  \E i \in Furthest(set, v) : FurthestFrom(set, v) = set[i].source
<1> DEFINE D == DOMAIN set
           f == [i \in D |-> Distance(set, i, v)]
<1>1. IsFiniteSet(D) /\ D # {} /\ D \subseteq Nat /\ \A i \in D : set[i].value \in Nat
  BY OfferFields
<1>2. f \in [D -> Int]
  BY <1>1 DEF Distance, Size
<1>3. PICK m \in {f[i] : i \in D} : \A w \in {f[i] : i \in D} : w <= m
  <2> HIDE DEF f
  <2>1. IsFiniteSet({f[i] : i \in D})
    BY <1>1, <1>2, ImageIsFinite
  <2>2. {f[i] : i \in D} \in SUBSET Int /\ {f[i] : i \in D} # {}
    BY <1>1, <1>2
  <2>3. QED
    BY <2>1, <2>2, GreatestExists
<1>4. Furthest(set, v) # {} /\ Furthest(set, v) \subseteq D
  <2>1. PICK i \in D : m = f[i]
    OBVIOUS
  <2>2. \A j \in D : Distance(set, j, v) <= Distance(set, i, v)
    BY <2>1, <1>3
  <2>3. QED
    BY <2>2 DEF Furthest
<1>5. Suspects(set, v) # {} /\ Suspects(set, v) \subseteq Furthest(set, v)
  BY <1>4 DEF Suspects
<1>6. Suspects(set, v) \in SUBSET D /\ Suspects(set, v) \in SUBSET Int
  BY <1>1, <1>4, <1>5
<1>7. IsFiniteSet(Suspects(set, v))
  BY <1>1, <1>6, FS_Subset
<1>8. \E i \in Suspects(set, v) : \A j \in Suspects(set, v) : j <= i
  BY <1>5, <1>6, <1>7, GreatestExists
<1>9. QED
  BY <1>5, <1>8 DEF FurthestFrom

\* A leg shows the age of its oldest candidate.
LEMMA OldestIsOldest ==
    ASSUME NEW set, Offers(set), Count(set) >= 1
    PROVE  OldestAge(set) \in Nat /\ \A i \in DOMAIN set : set[i].age <= OldestAge(set)
<1> DEFINE D == DOMAIN set
           f == [i \in D |-> set[i].age]
           ages == {set[i].age : i \in D}
<1>1. IsFiniteSet(D) /\ D # {} /\ \A i \in D : set[i].age \in Nat
  BY OfferFields
<1>2. f \in [D -> Int] /\ ages = {f[i] : i \in D}
  BY <1>1
<1>3. ages # {} /\ ages \in SUBSET Int
  BY <1>1
<1>4. IsFiniteSet({f[i] : i \in D})
  <2> HIDE DEF f
  <2>1. QED
    BY <1>1, <1>2, ImageIsFinite
<1>5. IsFiniteSet(ages)
  BY <1>2, <1>4
<1>6. \E m \in ages : \A w \in ages : w <= m
  <2> HIDE DEF ages
  <2>1. QED
    BY <1>3, <1>5, GreatestExists
<1>7. \E m \in ages : \A i \in D : set[i].age <= m
  BY <1>6
<1>8. OldestAge(set) \in ages /\ \A i \in D : set[i].age <= OldestAge(set)
  BY <1>7 DEF OldestAge
<1>9. QED
  BY <1>1, <1>8

------------------------------------------------------------------------------
(* One bad source.                                                          *)

\* What is not dispersed is as close together as the band allows.
LEMMA BandBounds ==
    ASSUME NEW set, Offers(set), Count(set) >= 1
    PROVE  /\ Band * Median(set) \in Nat
           /\ ~Dispersed(set) => 1000 * Spread(set) <= Band * Median(set)
           /\ Spread(set) = 0 => ~Dispersed(set)
<1>1. Band \in Nat /\ Median(set) \in Nat /\ Spread(set) \in Nat
  BY BoundsAssumption, MiddlesHold, SpreadCovers
<1>2. Band * Median(set) \in Nat
  BY <1>1, TimesType
<1>3. QED
  BY <1>1, <1>2 DEF Dispersed, Exceeds

\* The designated source is one of the candidates, and a source is found where it is.
LEMMA TrustedIsOffered ==
    ASSUME NEW set, Offers(set)
    PROVE  /\ \A i \in DOMAIN set : At(set, set[i].source) = i
           /\ LoneTrusted(set) # Nobody =>
                 \E i \in DOMAIN set : set[i].trusted /\ set[i].source = LoneTrusted(set)
<1>1. \A i, j \in DOMAIN set : set[i].source = set[j].source => i = j
  BY OfferFields
<1>2. \A i \in DOMAIN set : At(set, set[i].source) = i
  BY <1>1 DEF At
<1>3. ASSUME LoneTrusted(set) # Nobody
      PROVE  \E i \in DOMAIN set : set[i].trusted /\ set[i].source = LoneTrusted(set)
  <2> DEFINE t == {i \in DOMAIN set : set[i].trusted}
  <2>1. \E i \in t : t = {i}
    BY <1>3 DEF LoneTrusted
  <2>2. LoneTrusted(set) = set[CHOOSE i \in t : TRUE].source
    BY <2>1 DEF LoneTrusted
  <2>3. (CHOOSE i \in t : TRUE) \in t
    BY <2>1
  <2> HIDE DEF t
  <2>4. QED
    BY <2>2, <2>3 DEF t
<1>4. QED
  BY <1>2, <1>3

\* With three candidates or more, the value of the answer is that of the median or of the
\* designated source, which then is no outlier.
LEMMA AnswerIs ==
    ASSUME NEW set, Offers(set)
    PROVE  \/ /\ AnchorOf(set) = Nobody /\ ~(Dispersed(set) /\ Count(set) = 2)
              /\ Answer(set) = [value |-> Median(set), age |-> OldestAge(set), by |-> MiddleOf(set)]
           \/ /\ AnchorOf(set) = Nobody /\ Dispersed(set) /\ Count(set) = 2
              /\ Answer(set) = [value |-> 0, age |-> 0, by |-> {}]
           \/ \E i \in DOMAIN set :
                 /\ AnchorOf(set) = set[i].source /\ set[i].source # Outlier(set)
                 /\ set[i].source # Nobody
                 /\ Answer(set) = [value |-> set[i].value, age |-> set[i].age,
                                   by |-> {set[i].source}]
<1>1. CASE AnchorOf(set) = Nobody
  BY <1>1 DEF Answer
<1>2. CASE AnchorOf(set) # Nobody
  <2>1. AnchorOf(set) = LoneTrusted(set) /\ LoneTrusted(set) # Outlier(set)
    BY <1>2 DEF AnchorOf
  <2>2. PICK i \in DOMAIN set : set[i].source = LoneTrusted(set)
    BY <1>2, <2>1, TrustedIsOffered
  <2>3. At(set, AnchorOf(set)) = i
    BY <2>1, <2>2, TrustedIsOffered
  <2>4. Answer(set) = [value |-> set[i].value, age |-> set[i].age, by |-> {set[i].source}]
    BY <1>2, <2>3 DEF Answer
  <2>5. QED
    BY <1>2, <2>1, <2>2, <2>4
<1>3. QED
  BY <1>1, <1>2

\* Whoever lies, the answer of three or more is as the others would have it.
LEMMA LiarIsHarmless ==
    ASSUME NEW set, Offers(set), Count(set) >= 3, NEW liar \in DOMAIN set,
           NEW lo \in Nat, NEW hi \in Nat, lo <= hi,
           \E i \in DOMAIN set \ {liar} : set[i].value = lo,
           \A i \in DOMAIN set \ {liar} : lo <= set[i].value /\ set[i].value <= hi
    PROVE  \/ Answer(set).value \in (2 * lo - hi) .. (2 * hi - lo)
           \/ ~Exceeds(Size(Answer(set).value - lo), Band, hi)
<1> DEFINE n == Count(set)
           m == Median(set)
           a == Answer(set).value
<1>1. n \in Nat /\ n >= 3 /\ Count(set) >= 1
  BY OfferFields
<1>2. m \in Nat /\ lo <= m /\ m <= hi
  <2> DEFINE l == LowMiddle(set)
             h == HighMiddle(set)
  <2>1. /\ l \in DOMAIN set /\ h \in DOMAIN set
        /\ Rank(set, l) = (n + 1) \div 2 /\ Rank(set, h) = n \div 2 + 1
        /\ set[l].value <= m /\ m <= set[h].value /\ m \in Nat
    BY <1>1, MiddlesHold
  <2>2. Rank(set, l) > 1 /\ Rank(set, l) < n /\ Rank(set, h) > 1 /\ Rank(set, h) < n
    BY <1>1, <2>1
  <2>3. lo <= set[l].value /\ set[h].value <= hi
    BY <2>1, <2>2, InnerPlacesAreHonest
  <2>4. set[l].value \in Nat /\ set[h].value \in Nat
    BY <2>1, OfferFields
  <2> HIDE DEF l, h, m
  <2>5. QED
    BY <2>1, <2>3, <2>4
<1>3. n # 2
  BY <1>1
<1>4. CASE AnchorOf(set) = Nobody
  <2>1. a = m
    BY <1>3, <1>4, AnswerIs
  <2> HIDE DEF m, a
  <2>2. a \in (2 * lo - hi) .. (2 * hi - lo)
    BY <1>2, <2>1
  <2>3. QED
    BY <2>2 DEF a
<1>5. CASE AnchorOf(set) # Nobody
  <2>1. PICK i \in DOMAIN set : set[i].source # Outlier(set) /\ a = set[i].value
    BY <1>5, AnswerIs
  <2>2. a \in Nat /\ \A j \in DOMAIN set : set[j].value \in Nat
    BY <2>1, OfferFields
  <2>3. CASE i # liar
    <3>1. lo <= a /\ a <= hi
      BY <2>1, <2>3
    <3> HIDE DEF a
    <3>2. a \in (2 * lo - hi) .. (2 * hi - lo)
      BY <2>2, <3>1
    <3>3. QED
      BY <3>2 DEF a
  <2>4. CASE ~Dispersed(set)
    <3>1. Spread(set) \in Nat /\ 1000 * Spread(set) <= Band * m /\ Band * m \in Nat
      BY <1>1, <2>4, BandBounds, SpreadCovers
    <3>2. m * Band <= hi * Band /\ Band * hi \in Nat
      BY <1>2, BoundsAssumption, TimesMono, TimesType
    <3>3. Band * m = m * Band /\ Band * hi = hi * Band
      BY <1>2, BoundsAssumption
    <3>4. a - lo <= Spread(set) /\ lo - a <= Spread(set)
      BY <1>1, <2>1, SpreadCovers
    <3> HIDE DEF a, m
    <3>5. Size(a - lo) \in Nat /\ Size(a - lo) <= Spread(set)
      BY <2>2, <3>1, <3>4 DEF Size
    <3>6. ~(1000 * Size(a - lo) > Band * hi)
      BY <3>1, <3>2, <3>3, <3>5
    <3>7. QED
      BY <3>6 DEF Exceeds, a
  <2>5. CASE Dispersed(set) /\ i = liar
    <3>1. Outlier(set) = FurthestFrom(set, m)
      BY <1>3, <2>5 DEF Outlier
    <3>2. PICK j \in Furthest(set, m) : Outlier(set) = set[j].source
      BY <1>1, <1>2, <3>1, SuspectIsFurthest
    <3>3. j \in DOMAIN set /\ j # liar /\ Distance(set, i, m) <= Distance(set, j, m)
      BY <2>1, <2>5, <3>2 DEF Furthest
    <3>4. lo <= set[j].value /\ set[j].value <= hi /\ set[j].value \in Nat
      BY <2>2, <3>3
    <3>5. Size(a - m) <= Size(set[j].value - m)
      BY <2>1, <3>3 DEF Distance
    <3> HIDE DEF a, m
    <3>6. a \in (2 * lo - hi) .. (2 * hi - lo)
      BY <1>2, <2>2, <3>4, <3>5 DEF Size
    <3>7. QED
      BY <3>6 DEF a
  <2>6. QED
    BY <2>3, <2>4, <2>5
<1>6. QED
  BY <1>4, <1>5

------------------------------------------------------------------------------
(* What a leg shows.                                                        *)

\* A part of an offer is an offer, of the same candidates.
LEMMA PartIsOffer ==
    ASSUME NEW offer, Offers(offer), NEW S \in SUBSET DOMAIN offer
    PROVE  /\ Offers(Restrict(offer, S)) /\ DOMAIN Restrict(offer, S) = S
           /\ \A i \in S : Restrict(offer, S)[i] = offer[i]
<1>1. IsFiniteSet(S)
  BY FS_Subset DEF Offers
<1>2. DOMAIN Restrict(offer, S) = S /\ \A i \in S : Restrict(offer, S)[i] = offer[i]
  BY DEF Restrict
<1>3. Restrict(offer, S) = [i \in DOMAIN Restrict(offer, S) |-> Restrict(offer, S)[i]]
  BY DEF Restrict
<1> HIDE DEF Restrict
<1>4. QED
  BY <1>1, <1>2, <1>3 DEF Offers

\* The candidates that are heard are fresh ones of the offer, and all of them references
\* when one of them is.
LEMMA HeardAreFresh ==
    ASSUME NEW cands, Offers(cands)
    PROVE  LET all == Healthy(cands)
               set == FastSet(all)
           IN  /\ Offers(all) /\ DOMAIN all = {i \in DOMAIN cands : Fresh(cands[i])}
               /\ \A i \in DOMAIN all : all[i] = cands[i] /\ all[i].value > 0
               /\ Offers(set) /\ DOMAIN set \subseteq DOMAIN all
               /\ \A i \in DOMAIN set : set[i] = all[i]
               /\ DOMAIN all # {} => DOMAIN set # {}
               /\ \A i \in DOMAIN set : set[i].class = "reference" =>
                     \A j \in DOMAIN all : all[j].class = "reference"
<1> DEFINE H == {i \in DOMAIN cands : Fresh(cands[i])}
           all == Healthy(cands)
           T == {i \in DOMAIN all : Tape(all[i])}
           set == FastSet(all)
<1>1. all = Restrict(cands, H)
  BY DEF Healthy
<1>2. H \in SUBSET DOMAIN cands
  OBVIOUS
<1>3. Offers(all) /\ DOMAIN all = H /\ \A i \in H : all[i] = cands[i]
  <2> HIDE DEF H, all
  <2>1. QED
    BY <1>1, <1>2, PartIsOffer
<1>4. \A i \in H : cands[i].value > 0
  BY DEF Fresh
<1>5. \A i \in DOMAIN all : all[i].class \in {"tape", "reference"}
  <2> HIDE DEF H, all
  <2>1. QED
    BY <1>3, OfferFields
<1> HIDE DEF H, all
<1>6. CASE \E i \in DOMAIN all : Tape(all[i])
  <2>1. set = Restrict(all, T)
    BY <1>6 DEF FastSet
  <2>2. T \in SUBSET DOMAIN all /\ T # {}
    BY <1>6
  <2>3. \A i \in T : all[i].class = "tape"
    BY DEF Tape
  <2> HIDE DEF T, set
  <2>4. Offers(set) /\ DOMAIN set = T /\ \A i \in T : set[i] = all[i]
    BY <1>3, <2>1, <2>2, PartIsOffer
  <2>5. QED
    BY <1>3, <1>4, <2>2, <2>3, <2>4 DEF H, all, set
<1>7. CASE ~ \E i \in DOMAIN all : Tape(all[i])
  <2>1. set = all
    BY <1>7 DEF FastSet
  <2>2. \A i \in DOMAIN all : all[i].class = "reference"
    BY <1>5, <1>7 DEF Tape
  <2>3. QED
    BY <1>3, <1>4, <2>1, <2>2 DEF H, all, set
<1>8. QED
  BY <1>6, <1>7

\* The median of several is not composed by the source that is suspected.
LEMMA MiddleIsNoOutlier ==
    ASSUME NEW set, Offers(set), Count(set) >= 2, ~(Dispersed(set) /\ Count(set) = 2)
    PROVE  Outlier(set) = Nobody \/ MiddleOf(set) # {Outlier(set)}
<1> DEFINE m == Median(set)
           l == LowMiddle(set)
           h == HighMiddle(set)
<1> SUFFICES ASSUME Outlier(set) # Nobody, MiddleOf(set) = {Outlier(set)}
             PROVE  FALSE
  OBVIOUS
<1>1. Count(set) \in Nat /\ Count(set) >= 1
  BY OfferFields
<1>2. Dispersed(set) /\ Outlier(set) = FurthestFrom(set, m)
  BY DEF Outlier
<1>3. /\ l \in DOMAIN set /\ h \in DOMAIN set /\ m \in Nat
      /\ l = h => m = set[l].value
  BY <1>1, MiddlesHold
<1>4. set[l].source = Outlier(set) /\ set[h].source = Outlier(set)
  BY DEF MiddleOf
<1>5. l = h
  BY <1>3, <1>4, OfferFields
<1>6. PICK i \in Furthest(set, m) : Outlier(set) = set[i].source
  BY <1>1, <1>2, <1>3, SuspectIsFurthest
<1>7. i = l
  BY <1>3, <1>4, <1>6, OfferFields DEF Furthest
<1>8. \A j \in DOMAIN set : Distance(set, j, m) <= Distance(set, l, m)
  BY <1>6, <1>7 DEF Furthest
<1>9. \A j \in DOMAIN set : set[j].value \in Nat
  BY OfferFields
<1>10. ASSUME NEW j \in DOMAIN set
       PROVE  set[j].value = m
  <2>1. Size(set[j].value - m) <= Size(m - m)
    BY <1>3, <1>5, <1>8 DEF Distance
  <2> HIDE DEF m
  <2>2. QED
    BY <1>3, <1>9, <2>1 DEF Size
<1>11. Spread(set) = 0
  <2>1. Ranked(set, 1) \in DOMAIN set /\ Ranked(set, Count(set)) \in DOMAIN set
    BY <1>1, RankedHolds
  <2>2. QED
    BY <1>3, <1>10, <2>1 DEF Spread
<1>12. QED
  BY <1>1, <1>2, <1>11, BandBounds

States == {"absent", "single_trusted", "single_unverified", "dispersed", "corroborated", "agreed"}

\* What is known of a leg that rests on a set of candidates.
RestsOn(leg, set, all) ==
    /\ leg.value \in Nat /\ leg.age \in Nat /\ leg.state \in States /\ leg.healthy = all
    /\ (leg.value > 0) <=> (leg.by # {})
    /\ \A s \in leg.by : \E i \in DOMAIN set : set[i].source = s /\ set[i].age <= leg.age
    /\ leg.outlier = Nobody \/ leg.by # {leg.outlier}
    /\ leg.state = "agreed" => leg.n = 2
    /\ leg.state = "absent" <=> DOMAIN set = {}
    /\ leg.value = 0 => (leg.state = "dispersed" /\ Count(set) = 2) \/ DOMAIN set = {}
    /\ leg.state = "dispersed" => Count(set) >= 2
    /\ Count(set) >= 2 => leg.value = Answer(set).value

LEMMA SettledRestsOn ==
    ASSUME NEW set, Offers(set), \A i \in DOMAIN set : set[i].value > 0, NEW all
    PROVE  RestsOn(Settled(set, all), set, all)
<1> DEFINE n == Count(set)
           leg == Settled(set, all)
<1>1. /\ n \in Nat /\ (n = 0 <=> DOMAIN set = {}) /\ (n >= 1 => DOMAIN set # {})
      /\ \A i \in DOMAIN set : /\ set[i].value \in Nat /\ set[i].age \in Nat
                               /\ set[i].trusted \in BOOLEAN /\ set[i].source # Nobody
  BY OfferFields
<1>2. CASE n = 0
  <2>1. leg = NoneUsable(all) /\ DOMAIN set = {}
    BY <1>1, <1>2 DEF Settled
  <2>2. QED
    BY <1>2, <2>1 DEF RestsOn, NoneUsable, States
<1>3. CASE n = 1
  <2>9. n >= 1 /\ n # 0
    BY <1>3
  <2>1. DOMAIN set # {}
    BY <1>1, <2>9
  <2>10. leg = Alone(set[CHOOSE i \in DOMAIN set : TRUE], all)
    BY <1>3, <2>9 DEF Settled
  <2>2. PICK i \in DOMAIN set : leg = Alone(set[i], all)
    <3> DEFINE c == CHOOSE i \in DOMAIN set : TRUE
    <3>1. c \in DOMAIN set
      BY <2>1
    <3> HIDE DEF c
    <3>2. leg = Alone(set[c], all)
      BY <2>10 DEF c
    <3>3. QED
      BY <3>1, <3>2
  <2>3. set[i].value > 0 /\ leg.by = {set[i].source} /\ leg.age = set[i].age
    BY <2>2 DEF Alone
  <2>4. leg.state \in {"single_trusted", "single_unverified"}
    BY <2>2 DEF Alone
  <2>5. /\ leg.value = set[i].value /\ leg.healthy = all /\ leg.outlier = Nobody
    BY <2>2 DEF Alone
  <2> HIDE DEF leg
  <2>6. \A s \in leg.by : \E j \in DOMAIN set : set[j].source = s /\ set[j].age <= leg.age
    BY <1>1, <2>3
  <2>7. RestsOn(leg, set, all)
    BY <1>1, <1>3, <2>1, <2>3, <2>4, <2>5, <2>6 DEF RestsOn, States
  <2>8. QED
    BY <2>7 DEF leg
<1>4. CASE n >= 2
  <2>1. leg = Together(set, all)
    BY <1>1, <1>4 DEF Settled
  <2>2. /\ leg.value = Answer(set).value /\ leg.age = Answer(set).age /\ leg.by = Answer(set).by
        /\ leg.outlier = Outlier(set) /\ leg.n = n /\ leg.healthy = all
        /\ leg.state = IF Dispersed(set) THEN "dispersed"
                       ELSE IF n >= 3 THEN "corroborated" ELSE "agreed"
    BY <2>1 DEF Together
  <2> HIDE DEF leg
  <2>3. /\ leg.state \in States /\ leg.state # "absent"
        /\ leg.state = "agreed" => n = 2
        /\ leg.state = "dispersed" <=> Dispersed(set)
    BY <1>1, <1>4, <2>2 DEF States
  <2>9. n >= 1
    BY <1>1, <1>4
  <2>4. DOMAIN set # {} /\ Count(set) >= 1
    BY <1>1, <2>9
  <2> HIDE DEF n
  <2>5. /\ leg.value \in Nat /\ leg.age \in Nat
        /\ (leg.value > 0) <=> (leg.by # {})
        /\ \A s \in leg.by : \E i \in DOMAIN set : set[i].source = s /\ set[i].age <= leg.age
        /\ leg.outlier = Nobody \/ leg.by # {leg.outlier}
        /\ leg.value = 0 => Dispersed(set) /\ Count(set) = 2
    <3>1. CASE /\ ~(Dispersed(set) /\ Count(set) = 2)
               /\ Answer(set) = [value |-> Median(set), age |-> OldestAge(set),
                                 by |-> MiddleOf(set)]
      <4>1. /\ leg.value = Median(set) /\ leg.age = OldestAge(set)
            /\ leg.by = {set[LowMiddle(set)].source, set[HighMiddle(set)].source}
        BY <2>2, <3>1 DEF MiddleOf
      <4>2. /\ LowMiddle(set) \in DOMAIN set /\ HighMiddle(set) \in DOMAIN set
            /\ Median(set) \in Nat /\ set[LowMiddle(set)].value <= Median(set)
        BY <2>4, MiddlesHold
      <4>3. Median(set) > 0
        BY <1>1, <4>2
      <4>4. OldestAge(set) \in Nat /\ \A i \in DOMAIN set : set[i].age <= OldestAge(set)
        BY <2>4, OldestIsOldest
      <4>5. Outlier(set) = Nobody \/ MiddleOf(set) # {Outlier(set)}
        BY <1>4, <3>1, MiddleIsNoOutlier DEF n
      <4>6. \A s \in leg.by : \E i \in DOMAIN set : set[i].source = s /\ set[i].age <= leg.age
        BY <4>1, <4>2, <4>4
      <4>7. QED
        BY <2>2, <4>1, <4>2, <4>3, <4>4, <4>5, <4>6 DEF MiddleOf
    <3>2. CASE /\ Dispersed(set) /\ Count(set) = 2
               /\ Answer(set) = [value |-> 0, age |-> 0, by |-> {}]
      BY <2>2, <3>2
    <3>3. CASE \E i \in DOMAIN set :
                  /\ set[i].source # Outlier(set)
                  /\ Answer(set) = [value |-> set[i].value, age |-> set[i].age,
                                    by |-> {set[i].source}]
      <4>1. PICK i \in DOMAIN set : /\ set[i].source # Outlier(set)
                                    /\ leg.value = set[i].value /\ leg.age = set[i].age
                                    /\ leg.by = {set[i].source}
        BY <2>2, <3>3
      <4>2. set[i].value > 0 /\ set[i].value \in Nat /\ set[i].age \in Nat /\ set[i].age <= leg.age
        BY <1>1, <4>1
      <4>3. QED
        BY <2>2, <4>1, <4>2
    <3>4. QED
      BY <3>1, <3>2, <3>3, AnswerIs
  <2>6. leg.state = "agreed" => leg.n = 2
    BY <2>2, <2>3
  <2>7. RestsOn(leg, set, all)
    BY <1>4, <2>2, <2>3, <2>4, <2>5, <2>6 DEF RestsOn, n
  <2>8. QED
    BY <2>7 DEF leg
<1>5. QED
  BY <1>1, <1>2, <1>3, <1>4

\* Every leg is robust, whatever it is offered.
LEMMA LegsAreRobust ==
    ASSUME NEW cands, Offers(cands)
    PROVE  LegIsRobust(Resolve(cands), cands)
<1> DEFINE all == Healthy(cands)
           set == FastSet(all)
           leg == Resolve(cands)
<1>1. /\ Offers(all) /\ DOMAIN all = {i \in DOMAIN cands : Fresh(cands[i])}
      /\ \A i \in DOMAIN all : all[i] = cands[i] /\ all[i].value > 0
      /\ Offers(set) /\ DOMAIN set \subseteq DOMAIN all
      /\ \A i \in DOMAIN set : set[i] = all[i]
      /\ \A i \in DOMAIN set : set[i].class = "reference" =>
            \A j \in DOMAIN all : all[j].class = "reference"
  BY HeardAreFresh
<1>2. RestsOn(leg, set, all)
  <2>1. \A i \in DOMAIN set : set[i].value > 0
    BY <1>1
  <2>2. leg = Settled(set, all)
    BY DEF Resolve, Voiced
  <2> HIDE DEF all, set, leg
  <2>3. QED
    BY <1>1, <2>1, <2>2, SettledRestsOn
<1>3. leg.healthy = all /\ DOMAIN set \subseteq DOMAIN cands
  BY <1>1, <1>2 DEF RestsOn
<1>4. LegIsHonest(leg, cands)
  <2>1. ASSUME NEW s \in leg.by
        PROVE  LET c == cands[At(cands, s)]
               IN  /\ Fresh(c) /\ c.age <= leg.age
                   /\ c.class = "reference" =>
                         \A i \in DOMAIN cands : Fresh(cands[i]) => cands[i].class = "reference"
    <3>1. PICK i \in DOMAIN set : set[i].source = s /\ set[i].age <= leg.age
      BY <1>2 DEF RestsOn
    <3>2. set[i] = cands[i] /\ i \in DOMAIN cands /\ Fresh(cands[i])
      BY <1>1
    <3>3. At(cands, s) = i
      BY <3>1, <3>2, TrustedIsOffered
    <3>4. set[i].class = "reference" =>
             \A j \in DOMAIN cands : Fresh(cands[j]) => cands[j].class = "reference"
      BY <1>1
    <3> HIDE DEF set, all, leg
    <3>5. QED
      BY <3>1, <3>2, <3>3, <3>4
  <2>2. /\ (leg.value > 0) <=> (leg.by # {})
        /\ leg.outlier = Nobody \/ leg.by # {leg.outlier}
        /\ leg.state = "agreed" => leg.n = 2
    BY <1>2 DEF RestsOn
  <2> HIDE DEF leg, all, set
  <2>3. QED
    BY <2>1, <2>2 DEF LegIsHonest
<1>5. OneLiarIsHarmless(leg, set)
  <2> HIDE DEF leg, set, all
  <2> DEFINE honest(liar) == {set[i].value : i \in DOMAIN set \ {liar}}
             lo(liar) == CHOOSE v \in honest(liar) : \A w \in honest(liar) : v <= w
             hi(liar) == CHOOSE v \in honest(liar) : \A w \in honest(liar) : w <= v
  <2>1. ASSUME NEW liar \in DOMAIN set, Count(set) >= 3
        PROVE  /\ leg.value > 0
               /\ \/ leg.value \in (2 * lo(liar) - hi(liar)) .. (2 * hi(liar) - lo(liar))
                  \/ ~Exceeds(Size(leg.value - lo(liar)), Band, hi(liar))
    <3> DEFINE H == honest(liar)
               D == DOMAIN set \ {liar}
    <3>1. /\ IsFiniteSet(DOMAIN set) /\ Count(set) \in Nat
          /\ \A i \in DOMAIN set : set[i].value \in Nat
      BY <1>1, OfferFields
    <3>2. Count(set) >= 2 /\ Count(set) # 2 /\ Count(set) >= 1 /\ Count(set) - 1 # 0
      BY <2>1, <3>1
    <3>3. D # {} /\ IsFiniteSet(D)
      <4>1. IsFiniteSet(D) /\ Cardinality(D) = Count(set) - 1
        BY <3>1, FS_RemoveElement DEF Count
      <4>2. QED
        BY <3>2, <4>1, FS_EmptySet
    <3>4. IsFiniteSet(H) /\ H \in SUBSET Nat /\ H \in SUBSET Int /\ H # {}
      <4> DEFINE f == [i \in D |-> set[i].value]
      <4>1. f \in [D -> Int] /\ H = {f[i] : i \in D}
        BY <3>1
      <4>2. H \in SUBSET Nat /\ H \in SUBSET Int /\ H # {}
        BY <3>1, <3>3
      <4>3. IsFiniteSet({f[i] : i \in D})
        <5> HIDE DEF f, D
        <5>1. QED
          BY <3>3, <4>1, ImageIsFinite
      <4> HIDE DEF f
      <4>4. QED
        BY <4>1, <4>2, <4>3
    <3>5. lo(liar) \in H /\ \A w \in H : lo(liar) <= w
      <4>1. \E v \in H : \A w \in H : v <= w
        <5> HIDE DEF H
        <5>1. QED
          BY <3>4, LeastExists
      <4>2. QED
        BY <4>1
    <3>6. hi(liar) \in H /\ \A w \in H : w <= hi(liar)
      <4>1. \E v \in H : \A w \in H : w <= v
        <5> HIDE DEF H
        <5>1. QED
          BY <3>4, GreatestExists
      <4>2. QED
        BY <4>1
    <3> HIDE DEF lo, hi
    <3>7. /\ lo(liar) \in Nat /\ hi(liar) \in Nat /\ lo(liar) <= hi(liar)
          /\ \E i \in DOMAIN set \ {liar} : set[i].value = lo(liar)
          /\ \A i \in DOMAIN set \ {liar} :
                lo(liar) <= set[i].value /\ set[i].value <= hi(liar)
      BY <3>4, <3>5, <3>6
    <3> HIDE DEF H, D
    <3>8. \/ Answer(set).value \in (2 * lo(liar) - hi(liar)) .. (2 * hi(liar) - lo(liar))
          \/ ~Exceeds(Size(Answer(set).value - lo(liar)), Band, hi(liar))
      BY <1>1, <2>1, <3>7, LiarIsHarmless
    <3>9. leg.value = Answer(set).value /\ leg.value # 0 /\ leg.value \in Nat
      BY <1>2, <2>1, <3>2 DEF RestsOn
    <3>10. leg.value > 0
      BY <3>9
    <3>11. QED
      BY <3>8, <3>9, <3>10
  <2>2. QED
    BY <2>1 DEF OneLiarIsHarmless
<1>6. QED
  BY <1>3, <1>4, <1>5 DEF LegIsRobust

\* What any source of the peg would raise alone, all of them raise together.
LEMMA BreachIsHeard ==
    ASSUME NEW cands, Offers(cands)
    PROVE  /\ \A i \in DOMAIN cands : UsdcBreach(<<cands[i]>>) => UsdcBreach(cands)
           /\ Resolve(cands).value = 0 /\ HealthyValues(cands) # {} => UsdcBreach(cands)
<1>1. ASSUME NEW i \in DOMAIN cands, UsdcBreach(<<cands[i]>>)
      PROVE  UsdcBreach(cands)
  <2> DEFINE one == <<cands[i]>>
  <2>1. DOMAIN one = {1} /\ one[1] = cands[i]
    OBVIOUS
  <2>2. Offers(one)
    <3>1. IsFiniteSet({1})
      BY FS_Singleton
    <3>2. one = [k \in DOMAIN one |-> one[k]]
      OBVIOUS
    <3> HIDE DEF one
    <3>3. QED
      BY <2>1, <3>1, <3>2, OfferFields DEF Offers
  <2> HIDE DEF one
  <2>3. ~IsDispersed(Resolve(one))
    <3> DEFINE all == Healthy(one)
               set == FastSet(all)
    <3>1. /\ Offers(set) /\ DOMAIN set \subseteq {1}
          /\ \A k \in DOMAIN set : set[k].value > 0
      <4>1. /\ Offers(set) /\ DOMAIN set \subseteq DOMAIN all
            /\ DOMAIN all = {k \in DOMAIN one : Fresh(one[k])}
            /\ \A k \in DOMAIN all : all[k].value > 0
            /\ \A k \in DOMAIN set : set[k] = all[k]
        BY <2>2, HeardAreFresh
      <4> HIDE DEF all, set
      <4>2. QED
        BY <2>1, <4>1
    <3>2. RestsOn(Resolve(one), set, all)
      <4>1. Resolve(one) = Settled(set, all)
        BY DEF Resolve, Voiced
      <4> HIDE DEF all, set
      <4>2. QED
        BY <3>1, <4>1, SettledRestsOn
    <3> HIDE DEF all, set
    <3>3. IsFiniteSet({1}) /\ Cardinality({1}) = 1 /\ DOMAIN set \in SUBSET {1}
      BY <3>1, FS_Singleton
    <3>4. Count(set) <= 1 /\ Count(set) \in Nat
      BY <3>1, <3>3, FS_Subset, OfferFields DEF Count
    <3>5. ~(Count(set) >= 2)
      BY <3>4
    <3>6. QED
      BY <3>2, <3>5 DEF RestsOn, IsDispersed
  <2>4. PICK v \in HealthyValues(one) : v < UsdcLow \/ v > UsdcHigh
    BY <1>1, <2>3 DEF UsdcBreach, one
  <2>5. v \in HealthyValues(cands)
    BY <2>1, <2>4 DEF HealthyValues
  <2>6. QED
    BY <2>4, <2>5 DEF UsdcBreach
<1>2. ASSUME Resolve(cands).value = 0, HealthyValues(cands) # {}
      PROVE  UsdcBreach(cands)
  <2> DEFINE all == Healthy(cands)
             set == FastSet(all)
  <2>1. /\ Offers(set) /\ DOMAIN set # {} /\ \A k \in DOMAIN set : set[k].value > 0
    <3>1. \E i \in DOMAIN cands : Fresh(cands[i])
      BY <1>2 DEF HealthyValues
    <3>2. /\ Offers(set) /\ DOMAIN set \subseteq DOMAIN all
          /\ DOMAIN all = {i \in DOMAIN cands : Fresh(cands[i])}
          /\ \A k \in DOMAIN all : all[k].value > 0
          /\ \A k \in DOMAIN set : set[k] = all[k]
          /\ DOMAIN all # {} => DOMAIN set # {}
      BY HeardAreFresh
    <3> HIDE DEF all, set
    <3>3. QED
      BY <3>1, <3>2
  <2>2. RestsOn(Resolve(cands), set, all)
    <3>1. Resolve(cands) = Settled(set, all)
      BY DEF Resolve, Voiced
    <3> HIDE DEF all, set
    <3>2. QED
      BY <2>1, <3>1, SettledRestsOn
  <2>3. Resolve(cands).state = "dispersed"
    BY <1>2, <2>1, <2>2 DEF RestsOn
  <2>4. QED
    BY <2>3 DEF UsdcBreach, IsDispersed
<1>3. QED
  BY <1>1, <1>2

------------------------------------------------------------------------------
(* The basis.                                                               *)

\* What the gate of a tick lets through is what the basis' age in that tick allows: the
\* cap on the age takes nothing from the widening.
LEMMA GateIsTheAges ==
    ASSUME fv.basis \in Nat, fv.since \in Nat, NEW move \in Nat,
           ~Exceeds(move * HalfLife, Jump * Widening(Older(fv.since)), fv.basis)
    PROVE  WithinGate(move, fv.since + 1)
<1> DEFINE p == fv.basis
           age == fv.since + 1
           wide == Widening(Older(fv.since))
           most == MaxJumpWidening * HalfLife
<1>1. HalfLife \in Nat /\ HalfLife > 0 /\ Jump \in Nat /\ MaxAge \in Nat
  BY EngineAssumption
<1>2. most \in Nat /\ HalfLife <= most /\ most = 10 * HalfLife
  BY <1>1 DEF MaxJumpWidening
<1>3. age \in Nat /\ p \in Nat
  OBVIOUS
<1>4. /\ wide \in Nat /\ wide <= most
      /\ age <= HalfLife => wide = HalfLife
      /\ age >= HalfLife => wide <= age
  <2>1. Older(fv.since) \in Nat /\ Older(fv.since) <= age
        /\ (age <= most => Older(fv.since) = age)
    BY <1>1, <1>2 DEF Older, LongestAge, MinOf, MaxOf
  <2> DEFINE o == Older(fv.since)
  <2>2. wide = MinOf(MaxOf(o, HalfLife), most)
    BY DEF Widening
  <2> HIDE DEF o, age, most, wide
  <2>3. o \in Nat /\ o <= age /\ (age <= most => o = age)
    BY <2>1 DEF o, age
  <2>4. QED
    BY <1>1, <1>2, <1>3, <2>2, <2>3 DEF MinOf, MaxOf
<1> HIDE DEF age, wide, most
<1> DEFINE scaled == 1000 * (move * HalfLife)
<1>5. /\ scaled \in Nat /\ Jump * wide \in Nat /\ (Jump * wide) * p \in Nat
      /\ scaled <= (Jump * wide) * p
  <2>1. move * HalfLife \in Nat /\ Jump * wide \in Nat
    BY <1>1, <1>4, TimesType
  <2>2. 1000 * (move * HalfLife) \in Nat /\ (Jump * wide) * p \in Nat
    BY <1>3, <2>1, TimesType
  <2>3. ~(1000 * (move * HalfLife) > (Jump * wide) * p)
    BY DEF Exceeds, wide, p
  <2>4. QED
    BY <2>1, <2>2, <2>3
<1>6. \A w \in Nat : wide <= w => scaled <= (Jump * w) * p /\ (Jump * w) * p \in Nat
  <2>1. SUFFICES ASSUME NEW w \in Nat, wide <= w
                 PROVE  scaled <= (Jump * w) * p /\ (Jump * w) * p \in Nat
    OBVIOUS
  <2>2. wide * Jump <= w * Jump
    BY <1>1, <1>4, <2>1, TimesMono
  <2>3. Jump * wide \in Nat /\ Jump * w \in Nat /\ Jump * wide <= Jump * w
    BY <1>1, <1>4, <2>2, TimesType
  <2>4. (Jump * wide) * p <= (Jump * w) * p /\ (Jump * w) * p \in Nat
    BY <1>3, <2>3, TimesMono, TimesType
  <2>5. QED
    BY <1>5, <2>4
<1>7. \A k \in Nat : wide <= k * HalfLife => ~Exceeds(move, k * Jump, p)
  <2>1. SUFFICES ASSUME NEW k \in Nat, wide <= k * HalfLife
                 PROVE  ~Exceeds(move, k * Jump, p)
    OBVIOUS
  <2>2. scaled <= (Jump * (k * HalfLife)) * p
    BY <1>1, <1>6, <2>1, TimesType
  <2>3. scaled = (1000 * move) * HalfLife
    BY <1>1
  <2>4. (Jump * (k * HalfLife)) * p = ((k * Jump) * p) * HalfLife
    BY <1>1, <1>3
  <2>5. 1000 * move \in Nat /\ k * Jump \in Nat /\ (k * Jump) * p \in Nat
    BY <1>1, <1>3, TimesType
  <2> HIDE DEF scaled
  <2>6. 1000 * move <= (k * Jump) * p
    BY <1>1, <2>2, <2>3, <2>4, <2>5, TimesCancel
  <2>7. QED
    BY <2>5, <2>6 DEF Exceeds
<1>8. age <= HalfLife => ~Exceeds(move, Jump, p)
  <2>1. HalfLife = 1 * HalfLife /\ 1 * Jump = Jump /\ 1 \in Nat
    BY <1>1
  <2>2. QED
    BY <1>1, <1>4, <1>7, <2>1
<1>9. ~Exceeds(move, 10 * Jump, p)
  BY <1>2, <1>4, <1>7
<1>10. age >= HalfLife => ~Exceeds(move * HalfLife, Jump * age, p)
  <2>1. ASSUME age >= HalfLife
        PROVE  scaled <= (Jump * age) * p /\ (Jump * age) * p \in Nat
    BY <1>3, <1>4, <1>6, <2>1
  <2>2. QED
    BY <1>5, <2>1 DEF Exceeds
<1>11. QED
  BY <1>8, <1>9, <1>10 DEF WithinGate, age, p

\* So many thousandths of a difference.
Part(d, w) == (d * w) \div 1000

\* A fold of an observation that is d away, with the weight w, on the basis p.
CanFold(p, d, w) == p \in Nat /\ p > 0 /\ d \in Int /\ p + d > 0 /\ w \in 0 .. 1000

\* Going e goes part of the way of d from p, and never to nothing.
PartOfTheWay(p, d, e) ==
    /\ e \in Int /\ Size(d) \in Nat /\ Size(e) \in Nat /\ Size(e) <= Size(d)
    /\ p + e \in Nat /\ p + e > 0

\* A fold goes part of the way to what was observed, and never to nothing.
LEMMA FoldGoesPartOfTheWay ==
    \A p, d, w : CanFold(p, d, w) => PartOfTheWay(p, d, Part(d, w))
<1> SUFFICES ASSUME NEW p, NEW d, NEW w, CanFold(p, d, w)
             PROVE  PartOfTheWay(p, d, Part(d, w))
  OBVIOUS
<1>0. p \in Nat /\ p > 0 /\ d \in Int /\ p + d > 0 /\ w \in Nat /\ w <= 1000
  BY DEF CanFold
<1>1. CASE d >= 0
  <2>1. w * d <= 1000 * d /\ w * d \in Nat
    BY <1>0, <1>1, TimesMono, TimesType
  <2>2. d * w \in 0 .. 1000 * d
    BY <1>0, <1>1, <2>1
  <2>3. \A q \in 0 .. 1000 * d : q \div 1000 \in 0 .. d
    BY <1>0, <1>1
  <2>4. Part(d, w) \in 0 .. d
    BY <2>2, <2>3 DEF Part
  <2>5. QED
    BY <1>0, <1>1, <2>4 DEF Size, PartOfTheWay
<1>2. CASE d < 0
  <2>1. -d \in Nat
    BY <1>0, <1>2
  <2>2. w * (-d) <= 1000 * (-d) /\ w * (-d) \in Nat
    BY <1>0, <2>1, TimesMono, TimesType
  <2>3. d * w = -(w * (-d))
    BY <1>0
  <2>4. d * w \in 1000 * d .. 0
    BY <1>0, <2>2, <2>3
  <2>5. \A q \in 1000 * d .. 0 : q \div 1000 \in d .. 0
    BY <1>0, <1>2
  <2>6. Part(d, w) \in d .. 0
    BY <2>4, <2>5 DEF Part
  <2>7. QED
    BY <1>0, <1>2, <2>6 DEF Size, PartOfTheWay
<1>3. QED
  BY <1>0, <1>1, <1>2

\* An observation that is not refused moves the basis by no more than its age allows, and
\* never to nothing; a first one is inside the band.
LEMMA FoldIsBounded ==
    ASSUME fv.basis \in Nat, fv.since \in Nat, NEW o \in Nat, o > 0,
           NEW since \in Nat, since = Older(fv.since), NEW w \in Weights, ~Rejected(o, since)
    PROVE  /\ Folded(o, w) \in Nat /\ Folded(o, w) > 0
           /\ fv.basis = 0 => ~BasisOutOfBand(Folded(o, w))
           /\ fv.basis > 0 => WithinGate(Size(Folded(o, w) - fv.basis), fv.since + 1)
<1>1. HalfLife \in Nat /\ w \in 0 .. 1000
  BY EngineAssumption
<1>2. CASE fv.basis = 0
  <2>1. Folded(o, w) = o /\ ~BasisOutOfBand(o)
    BY <1>2 DEF Folded, Rejected, Seedable
  <2>2. ~(fv.basis > 0)
    BY <1>2
  <2>3. QED
    BY <2>1, <2>2
<1>3. CASE fv.basis > 0
  <2> DEFINE p == fv.basis
             d == o - p
             e == Part(d, w)
             gate == Jump * Widening(since)
  <2>1. p \in Nat /\ p > 0 /\ d \in Int /\ o = p + d
    BY <1>3
  <2>2. Folded(o, w) = p + e
    BY <1>3 DEF Folded, Part
  <2>3. ~(1000 * (Size(d) * HalfLife) > gate * p)
    BY <1>3 DEF Rejected, IsAJump, Exceeds
  <2>4. /\ e \in Int /\ Size(e) <= Size(d) /\ Size(d) \in Nat /\ Size(e) \in Nat
        /\ p + e \in Nat /\ p + e > 0
    <3>1. CanFold(p, d, w)
      BY <1>1, <2>1 DEF CanFold
    <3>2. PartOfTheWay(p, d, e)
      BY <3>1, FoldGoesPartOfTheWay, Zenon
    <3> HIDE DEF p, d, e
    <3>3. QED
      BY <3>2 DEF PartOfTheWay
  <2> HIDE DEF p, d, e
  <2>5. ~Exceeds(Size(e) * HalfLife, gate, p)
    <3>1. Size(e) * HalfLife <= Size(d) * HalfLife
      BY <1>1, <2>4, TimesMono
    <3>2. Size(e) * HalfLife \in Nat /\ Size(d) * HalfLife \in Nat
      BY <1>1, <2>4, TimesType
    <3>3. gate \in Nat /\ gate * p \in Nat
      <4>1. Jump \in Nat
        BY EngineAssumption
      <4>2. Widening(since) \in Nat
        BY <1>1 DEF Widening, MinOf, MaxOf, MaxJumpWidening
      <4>3. gate \in Nat
        BY <4>1, <4>2, TimesType
      <4> HIDE DEF gate
      <4>4. QED
        BY <2>1, <4>3, TimesType
    <3> HIDE DEF gate
    <3>4. QED
      BY <2>3, <3>1, <3>2, <3>3 DEF Exceeds
  <2>6. WithinGate(Size(e), fv.since + 1)
    BY <2>4, <2>5, GateIsTheAges DEF gate, p
  <2>7. Folded(o, w) - p = e
    BY <2>1, <2>2, <2>4
  <2>8. QED
    BY <1>3, <2>2, <2>4, <2>6, <2>7 DEF p
<1>4. QED
  BY <1>2, <1>3

------------------------------------------------------------------------------
(* Fusion.                                                                  *)

\* A filter holds an estimate, and how long ago a reference was taken in.
FilterType(f) ==
    /\ f = [est |-> f.est, absorbed |-> f.absorbed] /\ f.est \in Nat
    /\ f.absorbed \in [DOMAIN f.absorbed -> Nat]

\* A leg has a state that fits its value, and the candidates it may be fused with.
LegType(leg) ==
    /\ leg = [value |-> leg.value, age |-> leg.age, state |-> leg.state, by |-> leg.by,
              outlier |-> leg.outlier, n |-> leg.n, healthy |-> leg.healthy]
    /\ leg.value \in Nat /\ leg.state \in States /\ (leg.value > 0 => leg.state # "absent")
    /\ \A i \in DOMAIN leg.healthy : leg.healthy[i].value \in Nat /\ leg.healthy[i].value > 0

\* No reference is lost from a filter, or taken in before it was due.
KeepsTime(f, g) ==
    \A s \in DOMAIN f.absorbed :
       /\ s \in DOMAIN g.absorbed
       /\ g.absorbed[s] = 0 => f.absorbed[s] + 1 >= Interval

\* What is resolved is a leg.
LEMMA ResolvedIsLeg ==
    ASSUME NEW cands, Offers(cands)
    PROVE  LegType(Resolve(cands))
<1> DEFINE all == Healthy(cands)
           set == FastSet(all)
           leg == Resolve(cands)
<1>1. /\ Offers(all) /\ Offers(set)
      /\ \A i \in DOMAIN all : all[i].value > 0
      /\ \A i \in DOMAIN set : set[i].value > 0
  <2>1. /\ Offers(all) /\ Offers(set) /\ DOMAIN set \subseteq DOMAIN all
        /\ \A i \in DOMAIN all : all[i].value > 0
        /\ \A i \in DOMAIN set : set[i] = all[i]
    BY HeardAreFresh
  <2> HIDE DEF all, set
  <2>2. QED
    BY <2>1
<1>2. leg = Settled(set, all)
  BY DEF Resolve, Voiced
<1> HIDE DEF leg, set, all
<1>3. RestsOn(leg, set, all)
  BY <1>1, <1>2, SettledRestsOn
<1>4. leg = [value |-> leg.value, age |-> leg.age, state |-> leg.state, by |-> leg.by,
             outlier |-> leg.outlier, n |-> leg.n, healthy |-> leg.healthy]
  <2>1. CASE leg = NoneUsable(all)
    BY <2>1 DEF NoneUsable
  <2>2. CASE \E c : leg = Alone(c, all)
    BY <2>2 DEF Alone
  <2>3. CASE leg = Together(set, all)
    BY <2>3 DEF Together
  <2>4. \/ leg = NoneUsable(all) \/ leg = Together(set, all)
        \/ leg = Alone(set[CHOOSE i \in DOMAIN set : TRUE], all)
    BY <1>2 DEF Settled
  <2>5. QED
    BY <2>1, <2>2, <2>3, <2>4
<1>5. leg.value > 0 => leg.state # "absent"
  <2>1. leg.state = "absent" => leg.by = {}
    BY <1>3 DEF RestsOn
  <2>2. QED
    BY <1>3, <2>1 DEF RestsOn
<1>6. /\ leg.value \in Nat /\ leg.state \in States /\ leg.healthy = all
  BY <1>3 DEF RestsOn
<1>7. \A i \in DOMAIN all : all[i].value \in Nat
  BY <1>1, OfferFields
<1>8. LegType(leg)
  BY <1>1, <1>4, <1>5, <1>6, <1>7 DEF LegType
<1>9. QED
  BY <1>8 DEF leg

\* A tick leaves a filter, with a positive estimate where something was fused.
LEMMA FusedIsFilter ==
    ASSUME NEW before, FilterType(before), NEW leg, LegType(leg), NEW r \in Fuse(before, leg)
    PROVE  /\ FilterType(r.filter) /\ KeepsTime(before, r.filter)
           /\ r.step # "carried" => r.filter.est > 0
<1> DEFINE f == AgeAbsorbed(before)
           used == Fusible(f, leg)
<1>1. Interval \in Nat /\ Interval > 0 /\ Grid \subseteq Nat
  BY EngineAssumption
<1>2. /\ FilterType(f) /\ f.est = before.est /\ DOMAIN f.absorbed = DOMAIN before.absorbed
      /\ \A s \in DOMAIN f.absorbed :
            /\ f.absorbed[s] # 0
            /\ f.absorbed[s] >= Interval => before.absorbed[s] + 1 >= Interval
  <2>1. f = [est |-> before.est, absorbed |-> [s \in DOMAIN before.absorbed |->
                                                  MinOf(before.absorbed[s] + 1, Interval)]]
    BY DEF AgeAbsorbed, FilterType
  <2>2. \A x \in Nat : /\ MinOf(x + 1, Interval) \in Nat /\ MinOf(x + 1, Interval) # 0
                       /\ MinOf(x + 1, Interval) >= Interval => x + 1 >= Interval
    BY <1>1 DEF MinOf
  <2>3. /\ before.est \in Nat
        /\ \A s \in DOMAIN before.absorbed : before.absorbed[s] \in Nat
    BY DEF FilterType
  <2> HIDE DEF f
  <2>4. f.est = before.est /\ DOMAIN f.absorbed = DOMAIN before.absorbed
    BY <2>1
  <2>5. \A s \in DOMAIN before.absorbed : f.absorbed[s] = MinOf(before.absorbed[s] + 1, Interval)
    BY <2>1
  <2>6. f = [est |-> f.est, absorbed |-> f.absorbed]
    BY <2>1
  <2>7. f.absorbed \in [DOMAIN f.absorbed -> Nat]
    BY <2>1, <2>2, <2>3
  <2>8. QED
    BY <2>2, <2>3, <2>4, <2>5, <2>6, <2>7 DEF FilterType
<1>3. /\ DOMAIN used \subseteq DOMAIN leg.healthy
      /\ \A i \in DOMAIN used : /\ used[i] = leg.healthy[i] /\ IsNew(f, used[i])
                                /\ used[i].value \in Nat /\ used[i].value > 0
  BY DEF Fusible, Restrict, LegType
<1> DEFINE taken == {used[i].source : i \in {j \in DOMAIN used : Throttled(used[j])}}
<1>4. \A s \in taken : s \in DOMAIN f.absorbed => f.absorbed[s] >= Interval
  <2> HIDE DEF f, used
  <2>1. QED
    BY <1>3 DEF IsNew, AbsorbedSince
<1> DEFINE ab == Absorb(f, used)
<1>5. /\ ab \in [DOMAIN ab -> Nat] /\ DOMAIN f.absorbed \subseteq DOMAIN ab
      /\ \A s \in DOMAIN f.absorbed : ab[s] = 0 => f.absorbed[s] = 0 \/ f.absorbed[s] >= Interval
  <2>1. ab = [s \in DOMAIN f.absorbed \cup taken |-> IF s \in taken THEN 0 ELSE f.absorbed[s]]
    BY DEF Absorb
  <2>2. \A s \in DOMAIN f.absorbed : f.absorbed[s] \in Nat
    BY <1>2 DEF FilterType
  <2> HIDE DEF f, ab, taken
  <2>3. DOMAIN ab = DOMAIN f.absorbed \cup taken
    BY <2>1
  <2>4. \A s \in DOMAIN ab : ab[s] = IF s \in taken THEN 0 ELSE f.absorbed[s]
    BY <2>1, <2>3
  <2>5. ab = [s \in DOMAIN ab |-> ab[s]]
    BY <2>1, <2>3
  <2>6. \A s \in DOMAIN ab : ab[s] \in Nat
    BY <2>2, <2>3, <2>4
  <2>7. QED
    BY <1>4, <2>3, <2>4, <2>5, <2>6
<1>6. KeepsTime(before, f)
  <2> HIDE DEF f
  <2>1. QED
    BY <1>2 DEF KeepsTime
<1>7. ASSUME NEW v \in Nat, r.filter = [est |-> v, absorbed |-> ab]
      PROVE  FilterType(r.filter) /\ KeepsTime(before, r.filter)
  <2> HIDE DEF f, ab, used
  <2>1. r.filter.est = v /\ r.filter.absorbed = ab
    BY <1>7
  <2>2. FilterType(r.filter)
    BY <1>5, <1>7, <2>1 DEF FilterType
  <2>3. KeepsTime(before, r.filter)
    BY <1>2, <1>5, <2>1 DEF KeepsTime
  <2>4. QED
    BY <2>2, <2>3
<1>8. ASSUME NEW values \in SUBSET Nat, \A v \in values : v > 0, NEW v \in Hull(values)
      PROVE  v \in Nat /\ v > 0
  <2>1. v \in Nat
    BY <1>1 DEF Hull
  <2>2. PICK w \in values : w <= v
    BY DEF Hull
  <2>3. w \in Nat /\ w > 0
    BY <1>8
  <2>4. QED
    BY <2>1, <2>2, <2>3
<1>9. Valued(used) \in SUBSET Nat /\ \A v \in Valued(used) : v > 0
  <2> HIDE DEF used
  <2>1. QED
    BY <1>3 DEF Valued
<1> DEFINE with(v, step) == [filter |-> [est |-> v, absorbed |-> ab], step |-> step]
<1>10. \/ r = [filter |-> f, step |-> "carried"]
       \/ \E v \in Hull(Valued(used)) : r = with(v, "seeded")
       \/ f.est # 0 /\ \E v \in Hull(Valued(used) \cup {f.est}) : r = with(v, "fused")
       \/ leg.value > 0 /\ r = with(leg.value, "reseeded")
  <2>1. r \in IF DOMAIN used = {} THEN {[filter |-> f, step |-> "carried"]}
              ELSE IF f.est = 0 THEN {with(v, "seeded") : v \in Hull(Valued(used))}
              ELSE {with(v, "fused") : v \in Hull(Valued(used) \cup {f.est})}
                      \cup (IF Gated(f, leg) THEN {with(leg.value, "reseeded")} ELSE {})
    BY DEF Fuse
  <2>2. Gated(f, leg) => leg.value > 0
    BY DEF Gated
  <2> HIDE DEF f, used, ab
  <2>3. QED
    BY <2>1, <2>2
<1>11. CASE r = [filter |-> f, step |-> "carried"]
  <2> HIDE DEF f
  <2>1. QED
    BY <1>2, <1>6, <1>11
<1>12. CASE \E v \in Nat : v > 0 /\ \E step : r = with(v, step)
  <2> HIDE DEF f, ab, used
  <2>1. PICK v \in Nat : v > 0 /\ r.filter = [est |-> v, absorbed |-> ab]
    BY <1>12
  <2>2. r.filter.est = v
    BY <2>1
  <2>3. QED
    BY <1>7, <2>1, <2>2
<1>13. QED
  <2> HIDE DEF f, ab, used
  <2>1. CASE \E v \in Hull(Valued(used)) : r = with(v, "seeded")
    <3>1. PICK v \in Hull(Valued(used)) : r = with(v, "seeded")
      BY <2>1
    <3>2. v \in Nat /\ v > 0
      BY <1>8, <1>9
    <3> HIDE DEF with
    <3>3. QED
      BY <1>12, <3>1, <3>2
  <2>2. CASE f.est # 0 /\ \E v \in Hull(Valued(used) \cup {f.est}) : r = with(v, "fused")
    <3>1. PICK v \in Hull(Valued(used) \cup {f.est}) : r = with(v, "fused")
      BY <2>2
    <3>2. /\ Valued(used) \cup {f.est} \in SUBSET Nat
          /\ \A w \in Valued(used) \cup {f.est} : w > 0
      BY <1>2, <1>9, <2>2 DEF FilterType
    <3>3. v \in Nat /\ v > 0
      BY <1>8, <3>2
    <3> HIDE DEF with
    <3>4. QED
      BY <1>12, <3>1, <3>3
  <2>3. CASE leg.value > 0 /\ r = with(leg.value, "reseeded")
    <3>1. leg.value \in Nat
      BY DEF LegType
    <3> HIDE DEF with
    <3>2. QED
      BY <1>12, <2>3, <3>1
  <2>4. QED
    BY <1>10, <1>11, <2>1, <2>2, <2>3

\* A fused leg keeps its state, and is there when the leg was.
LEMMA FusedIsLeg ==
    ASSUME NEW leg, LegType(leg), NEW r, FilterType(r.filter),
           r.step # "carried" => r.filter.est > 0
    PROVE  /\ FusedInto(leg, r).value \in Nat /\ FusedInto(leg, r).state = leg.state
           /\ (FusedInto(leg, r).value > 0) <=> (leg.value > 0)
<1>1. CASE r.step = "carried" \/ leg.value = 0
  <2>1. FusedInto(leg, r) = leg
    BY <1>1 DEF FusedInto
  <2>2. QED
    BY <2>1 DEF LegType
<1>2. CASE ~(r.step = "carried" \/ leg.value = 0)
  <2>1. FusedInto(leg, r) = [leg EXCEPT !.value = r.filter.est]
    BY <1>2 DEF FusedInto
  <2>2. FusedInto(leg, r).value = r.filter.est /\ FusedInto(leg, r).state = leg.state
    BY <2>1 DEF LegType
  <2>3. leg.value > 0 /\ r.filter.est > 0 /\ r.filter.est \in Nat
    BY <1>2 DEF LegType, FilterType
  <2>4. QED
    BY <2>2, <2>3
<1>3. QED
  BY <1>1, <1>2

------------------------------------------------------------------------------
(* Composition.                                                             *)

\* What is shown when both legs are there, when one is, and when none is.
LEMMA FallBackShows ==
    \A why \in {"basis_unusable", "static_peg"} :
       FallBack(why).anchor \in {"static", "none"} /\ FallBack(why).health # "ok"
<1>1. SUFFICES ASSUME NEW why \in {"basis_unusable", "static_peg"}
               PROVE  FallBack(why).anchor \in {"static", "none"} /\ FallBack(why).health # "ok"
  OBVIOUS
<1>2. Health(why) = "degraded" /\ Health("paused") = "pause"
  BY DEF Health
<1>3. QED
  BY <1>2 DEF FallBack, Of

LEMMA BothLiveShows ==
    ASSUME NEW fx, NEW crypto, NEW basis, NEW since, NEW outlier \in BOOLEAN, Usable(basis, since)
    PROVE  LET out == BothLive(fx, crypto, basis, since, outlier)
           IN  /\ out.anchor = "fx" /\ out.basis = basis /\ out.age = since
               /\ out.health = "ok" =>
                     /\ ~outlier
                     /\ fx.state \notin {"dispersed", "single_unverified"}
                     /\ crypto.state \notin {"dispersed", "single_unverified"}
               /\ fx.state = "dispersed" => out.health = "degraded"
<1> DEFINE base == IF outlier THEN "no_basis_leg"
                   ELSE IF IsDispersed(fx) \/ IsDispersed(crypto) THEN "leg_dispersed" ELSE "normal"
           regime == UncorroboratedIf(base, Uncorroborated(fx) \/ Uncorroborated(crypto))
<1>1. BothLive(fx, crypto, basis, since, outlier) = Of(regime, "fx", basis, since)
  BY DEF BothLive
<1>2. Health(regime) = "ok" =>
         /\ ~outlier /\ ~IsDispersed(fx) /\ ~IsDispersed(crypto)
         /\ ~Uncorroborated(fx) /\ ~Uncorroborated(crypto)
  BY DEF Health, UncorroboratedIf
<1>3. IsDispersed(fx) => Health(regime) = "degraded"
  BY DEF Health, UncorroboratedIf
<1> HIDE DEF regime
<1>4. QED
  BY <1>1, <1>2, <1>3 DEF Of, IsDispersed, Uncorroborated

LEMMA CryptoAloneShows ==
    ASSUME NEW fx, NEW crypto, NEW offers, NEW weekend \in BOOLEAN
    PROVE  LET out == CryptoAlone(fx, crypto, offers, weekend)
           IN  /\ out.anchor = "crypto"
               /\ out.health = "ok" => crypto.state \notin {"dispersed", "single_unverified"}
               /\ crypto.state = "dispersed" => out.health = "degraded"
<1> DEFINE base == IF IsDispersed(crypto) THEN "leg_dispersed"
                   ELSE IF weekend THEN "crypto_only"
                   ELSE IF AnyInvalid(offers) THEN "fx_invalid"
                   ELSE IF IsDispersed(fx) THEN "leg_dispersed" ELSE "fx_stale"
           regime == UncorroboratedIf(base, Uncorroborated(crypto))
<1>1. CryptoAlone(fx, crypto, offers, weekend) = Of(regime, "crypto", 0, 0)
  BY DEF CryptoAlone
<1>2. Health(regime) = "ok" => ~IsDispersed(crypto) /\ ~Uncorroborated(crypto)
  BY DEF Health, UncorroboratedIf
<1>3. IsDispersed(crypto) => Health(regime) = "degraded"
  BY DEF Health, UncorroboratedIf
<1> HIDE DEF regime
<1>4. QED
  BY <1>1, <1>2, <1>3 DEF Of, IsDispersed, Uncorroborated

\* What a tick makes of two legs, which have states that fit their values.
LEMMA ComposedIsSound ==
    ASSUME fv.pin \in Nat, fv.basis \in Nat, fv.since \in Nat,
           NEW fx, fx.value \in Nat, fx.state \in States, fx.value > 0 => fx.state # "absent",
           NEW crypto, crypto.value \in Nat, crypto.state \in States,
           crypto.value > 0 => crypto.state # "absent",
           fv.pin > 0 => crypto.value = 0,
           NEW offers, NEW weekend \in BOOLEAN, NEW w \in Weights
    PROVE  LET r == Composed(fx, crypto, offers, weekend, w)
           IN  /\ r.left.basis \in Nat /\ r.left.since \in Nat
               /\ r.out.health = "ok" =>
                     /\ crypto.state \in Backed
                     /\ r.out.anchor = "fx" =>
                           fx.state \in Backed /\ r.out.age = 0 /\ r.left.since = 0
               /\ r.out.anchor = "fx" => r.out.basis > 0 /\ r.out.age <= MaxAge
               /\ fv.pin > 0 => ~r.breach /\ r.out.anchor # "crypto"
               /\ r.out.anchor = "fx" /\ fv.pin = 0 /\ BasisOutOfBand(r.out.basis) => r.breach
               /\ fv.pin = 0 =>
                     /\ r.out.anchor = "fx" /\ fx.state = "dispersed" => r.out.health = "degraded"
                     /\ r.out.anchor = "crypto" /\ crypto.state = "dispersed" =>
                           r.out.health = "degraded"
               /\ fv.basis = 0 /\ r.left.basis > 0 => ~BasisOutOfBand(r.left.basis)
               /\ fv.basis > 0 =>
                     /\ r.left.basis > 0
                     /\ WithinGate(Size(r.left.basis - fv.basis), fv.since + 1)
                     /\ r.left.basis # fv.basis => r.left.since = 0
                     /\ r.left.since > fv.since \/ r.left.since \in {0, LongestAge}
<1> DEFINE since == Older(fv.since)
           o     == ObservedBasis(fx, crypto)
           kept  == [basis |-> fv.basis, since |-> since]
           new   == IF Rejected(o, since) THEN kept ELSE [basis |-> Folded(o, w), since |-> 0]
           r     == Composed(fx, crypto, offers, weekend, w)
           Moves(b, s) ==
               /\ b \in Nat /\ s \in Nat
               /\ fv.basis = 0 /\ b > 0 => ~BasisOutOfBand(b)
               /\ fv.basis > 0 =>
                     /\ b > 0
                     /\ WithinGate(Size(b - fv.basis), fv.since + 1)
                     /\ b # fv.basis => s = 0
                     /\ s > fv.since \/ s \in {0, LongestAge}
<1>1. /\ MaxAge \in Nat /\ Par \in Nat /\ since \in Nat
      /\ since > fv.since \/ since = LongestAge
  BY EngineAssumption DEF Older, LongestAge, MinOf, MaxOf, MaxJumpWidening
<1>2. Moves(kept.basis, kept.since)
  <2>1. Size(fv.basis - fv.basis) = 0 /\ 0 * HalfLife = 0
    BY EngineAssumption DEF Size
  <2>2. WithinGate(Size(fv.basis - fv.basis), fv.since + 1)
    <3>1. Jump \in Nat /\ fv.since + 1 \in Nat /\ 10 * Jump \in Nat
      BY EngineAssumption
    <3>2. /\ Jump * fv.basis \in Nat /\ (10 * Jump) * fv.basis \in Nat
          /\ Jump * (fv.since + 1) \in Nat
      BY <3>1, TimesType
    <3>3. (Jump * (fv.since + 1)) * fv.basis \in Nat
      BY <3>2, TimesType
    <3>4. QED
      BY <2>1, <3>2, <3>3 DEF WithinGate, Exceeds
  <2>3. fv.basis = 0 => ~(fv.basis > 0)
    OBVIOUS
  <2> HIDE DEF since
  <2>4. QED
    BY <1>1, <2>2, <2>3
<1>3. ASSUME fx.value > 0
      PROVE  /\ Moves(new.basis, new.since)
             /\ ~Rejected(o, since) => new.since = 0
  <2>1. o \in Nat /\ o > 0
    <3>1. crypto.value * Par \in Nat /\ fx.value \in Nat /\ fx.value > 0
      BY <1>1, <1>3, TimesType
    <3>2. (crypto.value * Par) \div fx.value \in Nat
      BY <3>1, DivFits
    <3>3. \A q \in Nat : MaxOf(q, 1) \in Nat /\ MaxOf(q, 1) > 0
      BY DEF MaxOf
    <3>4. QED
      BY <3>2, <3>3 DEF ObservedBasis
  <2> HIDE DEF o, since
  <2>2. CASE Rejected(o, since)
    <3>1. new = kept
      BY <2>2
    <3> HIDE DEF new, kept, Moves
    <3>2. QED
      BY <1>2, <2>2, <3>1
  <2>3. CASE ~Rejected(o, since)
    <3>1. new.basis = Folded(o, w) /\ new.since = 0
      BY <2>3
    <3>2. /\ Folded(o, w) \in Nat /\ Folded(o, w) > 0
          /\ fv.basis = 0 => ~BasisOutOfBand(Folded(o, w))
          /\ fv.basis > 0 => WithinGate(Size(Folded(o, w) - fv.basis), fv.since + 1)
      <4>1. since = Older(fv.since)
        BY DEF since
      <4>2. QED
        BY <1>1, <2>1, <2>3, <4>1, FoldIsBounded
    <3> HIDE DEF new
    <3>3. QED
      BY <2>3, <3>1, <3>2
  <2>4. QED
    BY <2>2, <2>3
<1> DEFINE Good(left, out, breach) ==
               /\ Moves(left.basis, left.since)
               /\ out.health = "ok" =>
                     /\ crypto.state \in Backed
                     /\ out.anchor = "fx" => fx.state \in Backed /\ out.age = 0 /\ left.since = 0
               /\ out.anchor = "fx" => out.basis > 0 /\ out.age <= MaxAge
               /\ fv.pin > 0 => ~breach /\ out.anchor # "crypto"
               /\ out.anchor = "fx" /\ fv.pin = 0 /\ BasisOutOfBand(out.basis) => breach
               /\ fv.pin = 0 =>
                     /\ out.anchor = "fx" /\ fx.state = "dispersed" => out.health = "degraded"
                     /\ out.anchor = "crypto" /\ crypto.state = "dispersed" =>
                           out.health = "degraded"
<1>4. \A state \in States :
         state \notin {"absent", "dispersed", "single_unverified"} => state \in Backed
  BY DEF States, Backed
<1>5. ASSUME NEW left, Moves(left.basis, left.since), NEW why \in {"basis_unusable", "static_peg"}
      PROVE  Good(left, FallBack(why), FALSE)
  <2>1. FallBack(why).anchor \in {"static", "none"} /\ FallBack(why).health # "ok"
    BY FallBackShows
  <2> HIDE DEF Moves
  <2>2. QED
    BY <1>5, <2>1
<1>6. CASE fv.pin > 0 /\ fx.value > 0
  <2>1. r = [left |-> kept, out |-> Of("fx_pinned", "fx", fv.pin, 0), breach |-> FALSE]
    BY <1>6 DEF Composed
  <2>2. /\ r.left = kept /\ r.breach = FALSE /\ r.out.health = "unverified"
        /\ r.out.anchor = "fx" /\ r.out.basis = fv.pin /\ r.out.age = 0
    BY <2>1 DEF Of, Health
  <2> HIDE DEF r, kept, Moves
  <2>3. fv.pin # 0 /\ 0 <= MaxAge
    BY <1>1, <1>6
  <2>4. Good(r.left, r.out, r.breach)
    BY <1>2, <1>6, <2>2, <2>3
  <2>5. QED
    BY <2>4 DEF r, Moves
<1>7. CASE fv.pin = 0 /\ fx.value > 0 /\ crypto.value > 0
  <2> DEFINE out == BothLive(fx, crypto, new.basis, new.since, Rejected(o, since))
             breach == BasisOutOfBand(o) \/ (Usable(new.basis, new.since) /\ BasisOutOfBand(new.basis))
  <2>1. r = [left |-> new, out |-> out, breach |-> breach]
    <3>1. ~(fv.pin > 0)
      BY <1>7
    <3>2. QED
      BY <1>7, <3>1 DEF Composed
  <2>2. Moves(new.basis, new.since) /\ (~Rejected(o, since) => new.since = 0)
    BY <1>3, <1>7
  <2>3. r.left = new /\ r.out = out /\ (r.breach <=> breach)
    <3> HIDE DEF new, out, breach, r
    <3>1. QED
      BY <2>1
  <2>4. Rejected(o, since) \in BOOLEAN
    BY DEF Rejected, Seedable, IsAJump, Exceeds
  <2> HIDE DEF r, new, o, since, Moves
  <2>5. CASE Usable(new.basis, new.since)
    <3>1. /\ out.anchor = "fx" /\ out.basis = new.basis /\ out.age = new.since
          /\ out.health = "ok" =>
                /\ ~Rejected(o, since)
                /\ fx.state \notin {"dispersed", "single_unverified"}
                /\ crypto.state \notin {"dispersed", "single_unverified"}
          /\ fx.state = "dispersed" => out.health = "degraded"
      BY <2>4, <2>5, BothLiveShows
    <3>2. new.basis > 0 /\ new.since <= MaxAge
      BY <2>5 DEF Usable
    <3>3. fx.state # "absent" /\ crypto.state # "absent" /\ ~(fv.pin > 0)
      BY <1>7
    <3> HIDE DEF out
    <3>4. Good(new, out, breach)
      BY <1>4, <2>2, <2>5, <3>1, <3>2, <3>3
    <3>5. Good(r.left, r.out, r.breach)
      BY <2>3, <3>4
    <3>6. QED
      BY <3>5 DEF r, Moves
  <2>6. CASE ~Usable(new.basis, new.since)
    <3>1. out = FallBack("basis_unusable")
      BY <2>6 DEF BothLive
    <3>2. out.anchor \in {"static", "none"} /\ out.health # "ok"
      BY <3>1, FallBackShows
    <3>3. ~(fv.pin > 0)
      BY <1>7
    <3> HIDE DEF out, breach
    <3>4. Good(r.left, r.out, r.breach)
      BY <2>2, <2>3, <3>2, <3>3
    <3>5. QED
      BY <3>4 DEF r, Moves
  <2>7. QED
    BY <2>5, <2>6
<1>8. CASE fv.pin = 0 /\ fx.value > 0 /\ crypto.value = 0
  <2> DEFINE breach == Usable(kept.basis, since) /\ BasisOutOfBand(kept.basis)
  <2>1. r = [left |-> kept, out |-> FxOnly(kept.basis, since), breach |-> breach]
    <3>1. ~(fv.pin > 0) /\ ~(crypto.value > 0)
      BY <1>8
    <3>2. QED
      BY <1>8, <3>1 DEF Composed
  <2>2. kept.since = since /\ ~(fv.pin > 0)
    BY <1>8
  <2>3. r.left = kept /\ r.out = FxOnly(kept.basis, since) /\ (r.breach <=> breach)
    <3> HIDE DEF kept, breach, r
    <3>1. QED
      BY <2>1
  <2> HIDE DEF r, kept, since, Moves
  <2>4. CASE Usable(kept.basis, since)
    <3>1. FxOnly(kept.basis, since) = Of("no_basis_leg", "fx", kept.basis, since)
      BY <2>4 DEF FxOnly
    <3>2. /\ r.out.anchor = "fx" /\ r.out.basis = kept.basis /\ r.out.age = since
          /\ r.out.health = "degraded"
      BY <2>3, <3>1 DEF Of, Health
    <3>3. kept.basis > 0 /\ since <= MaxAge
      BY <2>4 DEF Usable
    <3>4. Good(r.left, r.out, r.breach)
      BY <1>2, <2>2, <2>3, <2>4, <3>2, <3>3
    <3>5. QED
      BY <3>4 DEF r, Moves
  <2>5. CASE ~Usable(kept.basis, since)
    <3>1. FxOnly(kept.basis, since) = FallBack("basis_unusable")
      BY <2>5 DEF FxOnly
    <3>2. r.out.anchor \in {"static", "none"} /\ r.out.health # "ok"
      BY <2>3, <3>1, FallBackShows
    <3> HIDE DEF breach
    <3>3. Good(r.left, r.out, r.breach)
      BY <1>2, <2>2, <2>3, <3>2
    <3>4. QED
      BY <3>3 DEF r, Moves
  <2>6. QED
    BY <2>4, <2>5
<1>9. CASE fx.value = 0 /\ crypto.value > 0
  <2> DEFINE out == CryptoAlone(fx, crypto, offers, weekend)
  <2>1. r = [left |-> kept, out |-> out, breach |-> FALSE]
    <3>1. ~(fx.value > 0)
      BY <1>9
    <3>2. QED
      BY <1>9, <3>1 DEF Composed
  <2>2. r.left = kept /\ r.out = out /\ r.breach = FALSE
    <3> HIDE DEF kept, out, r
    <3>1. QED
      BY <2>1
  <2>3. /\ out.anchor = "crypto"
        /\ out.health = "ok" => crypto.state \notin {"dispersed", "single_unverified"}
        /\ crypto.state = "dispersed" => out.health = "degraded"
    BY CryptoAloneShows
  <2>4. ~(fv.pin > 0) /\ crypto.state # "absent"
    BY <1>9
  <2> HIDE DEF r, kept, out, Moves
  <2>5. Good(r.left, r.out, r.breach)
    BY <1>2, <1>4, <2>2, <2>3, <2>4
  <2>6. QED
    BY <2>5 DEF r, Moves
<1>10. CASE fx.value = 0 /\ crypto.value = 0
  <2>1. r = [left |-> kept, out |-> FallBack("static_peg"), breach |-> FALSE]
    <3>1. ~(fx.value > 0) /\ ~(crypto.value > 0)
      BY <1>10
    <3>2. QED
      BY <1>10, <3>1 DEF Composed
  <2>2. r.left = kept /\ r.out = FallBack("static_peg") /\ r.breach = FALSE
    <3> HIDE DEF kept, r
    <3>1. QED
      BY <2>1
  <2> HIDE DEF r, kept, Moves, Good
  <2>3. Good(r.left, r.out, r.breach)
    BY <1>2, <1>5, <2>2
  <2>4. QED
    BY <2>3 DEF r, Moves, Good
<1>11. QED
  <2>1. fv.pin = 0 \/ fv.pin > 0
    OBVIOUS
  <2>2. fx.value = 0 \/ fx.value > 0
    OBVIOUS
  <2>3. crypto.value = 0 \/ crypto.value > 0
    OBVIOUS
  <2> HIDE DEF r
  <2>4. QED
    BY <1>6, <1>7, <1>8, <1>9, <1>10, <2>1, <2>2, <2>3 DEF r

------------------------------------------------------------------------------
(* The engine.                                                              *)

EngineType ==
    /\ fv = [pin |-> fv.pin, peg |-> fv.peg, fx |-> fv.fx, crypto |-> fv.crypto,
             basis |-> fv.basis, since |-> fv.since, out |-> fv.out]
    /\ fv.pin \in Nat /\ fv.basis \in Nat /\ fv.since \in Nat
    /\ FilterType(fv.fx) /\ FilterType(fv.crypto)

EngineInv ==
    /\ EngineType
    /\ HealthIsEarned /\ NoSilentPegEvent
    /\ fv.pin = 0 => DispersedDegrades

\* The engine starts with nothing observed and nothing quoted.
LEMMA EngineStarts ==
    ASSUME FairValueInit
    PROVE  EngineInv
<1>1. PICK pin \in Pins, peg \in BOOLEAN :
         fv = [pin |-> pin, peg |-> peg, fx |-> Unseeded, crypto |-> Unseeded,
               basis |-> 0, since |-> 0, out |-> NoOut]
  BY DEF FairValueInit
<1>2. pin \in Nat
  BY EngineAssumption
<1>3. FilterType(Unseeded)
  <2>1. Unseeded.est = 0 /\ Unseeded.absorbed = <<>>
    BY DEF Unseeded
  <2>2. Unseeded = [est |-> Unseeded.est, absorbed |-> Unseeded.absorbed]
    BY DEF Unseeded
  <2>3. <<>> \in [DOMAIN <<>> -> Nat]
    OBVIOUS
  <2>4. QED
    BY <2>1, <2>2, <2>3 DEF FilterType
<1>4. /\ NoOut.anchor = "none" /\ NoOut.health = "pause" /\ NoOut.breach = FALSE
  BY DEF NoOut, Shown, Of, Health
<1>5. /\ fv.pin = pin /\ fv.peg = peg /\ fv.fx = Unseeded /\ fv.crypto = Unseeded
      /\ fv.basis = 0 /\ fv.since = 0 /\ fv.out = NoOut
  <2> HIDE DEF NoOut
  <2>1. QED
    BY <1>1
<1>6. EngineType
  BY <1>1, <1>2, <1>3, <1>5 DEF EngineType
<1>7. HealthIsEarned /\ NoSilentPegEvent /\ DispersedDegrades
  BY <1>4, <1>5 DEF HealthIsEarned, NoSilentPegEvent, DispersedDegrades
<1>8. QED
  BY <1>6, <1>7 DEF EngineInv

\* What is resolved in a tick are legs, and a pinned market has no crypto leg.
LEMMA LegsOfTheTick ==
    /\ \A offers \in FxOffers : LegType(ResolvedLegs[offers])
    /\ \A offers \in CryptoOffers : LegType(CryptoLeg(offers))
    /\ \A offers \in CryptoOffers : fv.pin > 0 => CryptoLeg(offers).value = 0
<1>1. \A offers \in FxOffers \cup CryptoOffers \cup PegOffers :
         /\ Offers(offers) /\ ResolvedLegs[offers] = Resolve(offers)
  BY EngineAssumption DEF ResolvedLegs
<1>2. \A offers \in FxOffers \cup CryptoOffers \cup PegOffers : LegType(ResolvedLegs[offers])
  BY <1>1, ResolvedIsLeg
<1>3. LegType(NoneUsable(<<>>)) /\ NoneUsable(<<>>).value = 0
  BY DEF LegType, NoneUsable, States
<1>4. QED
  BY <1>2, <1>3 DEF CryptoLeg

\* One tick: whatever is offered, health is earned and the basis moves by its age.
LEMMA TickIsSound ==
    ASSUME EngineInv, FairValueNext
    PROVE  EngineInv' /\ BasisStep
<1>1. PICK x \in FxOffers, k \in CryptoOffers, weekend \in BOOLEAN :
         Compose(ResolvedLegs[x], CryptoLeg(k), x, weekend)
  BY DEF FairValueNext
<1> DEFINE fx == ResolvedLegs[x]
           crypto == CryptoLeg(k)
<1>2. PICK f \in Fuse(fv.fx, fx), c \in Fuse(fv.crypto, crypto), w \in Weights :
         fv' = Becomes(fx, crypto, f, c,
                       Composed(FusedInto(fx, f), FusedInto(crypto, c), x, weekend, w))
  BY <1>1 DEF Compose
<1> DEFINE a == FusedInto(fx, f)
           b == FusedInto(crypto, c)
           r == Composed(a, b, x, weekend, w)
<1>3. LegType(fx) /\ LegType(crypto) /\ (fv.pin > 0 => crypto.value = 0)
  BY LegsOfTheTick
<1>4. EngineType
  BY DEF EngineInv
<1>5. /\ FilterType(f.filter) /\ KeepsTime(fv.fx, f.filter)
      /\ f.step # "carried" => f.filter.est > 0
  <2> HIDE DEF fx
  <2>1. QED
    BY <1>3, <1>4, FusedIsFilter DEF EngineType
<1>6. /\ FilterType(c.filter)
      /\ c.step # "carried" => c.filter.est > 0
  <2> HIDE DEF crypto
  <2>1. QED
    BY <1>3, <1>4, FusedIsFilter DEF EngineType
<1>7. /\ a.value \in Nat /\ a.state = fx.state /\ ((a.value > 0) <=> (fx.value > 0))
  <2> HIDE DEF fx
  <2>1. QED
    BY <1>3, <1>5, FusedIsLeg
<1>8. /\ b.value \in Nat /\ b.state = crypto.state /\ ((b.value > 0) <=> (crypto.value > 0))
  <2> HIDE DEF crypto
  <2>1. QED
    BY <1>3, <1>6, FusedIsLeg
<1> HIDE DEF fx, crypto, a, b
<1>9. /\ a.state \in States /\ (a.value > 0 => a.state # "absent")
      /\ b.state \in States /\ (b.value > 0 => b.state # "absent")
      /\ fv.pin > 0 => b.value = 0
  BY <1>3, <1>7, <1>8 DEF LegType
<1>10. /\ r.left.basis \in Nat /\ r.left.since \in Nat
       /\ r.out.health = "ok" =>
             /\ crypto.state \in Backed
             /\ r.out.anchor = "fx" =>
                   fx.state \in Backed /\ r.out.age = 0 /\ r.left.since = 0
       /\ r.out.anchor = "fx" => r.out.basis > 0 /\ r.out.age <= MaxAge
       /\ fv.pin > 0 => ~r.breach /\ r.out.anchor # "crypto"
       /\ r.out.anchor = "fx" /\ fv.pin = 0 /\ BasisOutOfBand(r.out.basis) => r.breach
       /\ fv.pin = 0 =>
             /\ r.out.anchor = "fx" /\ fx.state = "dispersed" => r.out.health = "degraded"
             /\ r.out.anchor = "crypto" /\ crypto.state = "dispersed" =>
                   r.out.health = "degraded"
       /\ fv.basis = 0 /\ r.left.basis > 0 => ~BasisOutOfBand(r.left.basis)
       /\ fv.basis > 0 =>
             /\ r.left.basis > 0
             /\ WithinGate(Size(r.left.basis - fv.basis), fv.since + 1)
             /\ r.left.basis # fv.basis => r.left.since = 0
             /\ r.left.since > fv.since \/ r.left.since \in {0, LongestAge}
  <2>1. fv.pin \in Nat /\ fv.basis \in Nat /\ fv.since \in Nat
    BY <1>4 DEF EngineType
  <2>2. QED
    BY <1>7, <1>8, <1>9, <2>1, ComposedIsSound
<1> HIDE DEF r
<1> DEFINE out == Shown(r.out, r.breach, fx.state, crypto.state, r.left.since = 0)
<1>11. fv' = [fv EXCEPT !.fx = f.filter, !.crypto = c.filter, !.basis = r.left.basis,
                        !.since = r.left.since, !.out = out]
  BY <1>2 DEF Becomes, r, a, b, fx, crypto
<1>12. /\ out.anchor = r.out.anchor /\ out.health = r.out.health /\ out.basis = r.out.basis
       /\ out.age = r.out.age /\ out.breach = r.breach /\ out.fx = fx.state
       /\ out.crypto = crypto.state /\ (out.folded <=> r.left.since = 0)
  BY DEF Shown
<1> HIDE DEF out
<1>13. /\ fv'.pin = fv.pin /\ fv'.fx = f.filter /\ fv'.crypto = c.filter
       /\ fv'.basis = r.left.basis /\ fv'.since = r.left.since /\ fv'.out = out
       /\ fv' = [pin |-> fv'.pin, peg |-> fv'.peg, fx |-> fv'.fx, crypto |-> fv'.crypto,
                 basis |-> fv'.basis, since |-> fv'.since, out |-> fv'.out]
  BY <1>4, <1>11 DEF EngineType
<1>14. EngineType'
  BY <1>4, <1>5, <1>6, <1>10, <1>13 DEF EngineType
<1>15. HealthIsEarned'
  BY <1>10, <1>12, <1>13 DEF HealthIsEarned
<1>16. NoSilentPegEvent'
  BY <1>10, <1>12, <1>13 DEF NoSilentPegEvent
<1>17. (fv.pin = 0 => DispersedDegrades)'
  BY <1>10, <1>12, <1>13 DEF DispersedDegrades
<1>18. BasisStep
  BY <1>5, <1>10, <1>12, <1>13 DEF BasisStep, KeepsTime
<1>19. QED
  BY <1>14, <1>15, <1>16, <1>17, <1>18 DEF EngineInv

\* What is resolved is right, whatever the state.
LEMMA ResolutionIsSound == EveryLegIsRobust /\ DepegIsSeen
<1>1. EveryLegIsRobust
  <2>1. ASSUME NEW offers \in Panels \cup DOMAIN ResolvedLegs
        PROVE  Offers(offers)
    BY EngineAssumption DEF ResolvedLegs
  <2>2. QED
    BY <2>1, LegsAreRobust DEF EveryLegIsRobust
<1>2. DepegIsSeen
  <2>1. SUFFICES ASSUME NEW offers \in PegOffers
                 PROVE  /\ (\E i \in DOMAIN offers : UsdcBreach(<<offers[i]>>)) => UsdcBreach(offers)
                        /\ ResolvedLegs[offers].value = 0 /\ HealthyValues(offers) # {}
                              => UsdcBreach(offers)
    BY DEF DepegIsSeen
  <2>2. Offers(offers) /\ ResolvedLegs[offers] = Resolve(offers)
    BY EngineAssumption DEF ResolvedLegs
  <2>3. QED
    BY <2>2, BreachIsHeard
<1>3. QED
  BY <1>1, <1>2

\* Consensus and FairValue, for every set of offers and every setting of the engine: one
\* bad source moves a leg by no more than the others differ or the band allows, a leg shows
\* only what fresh and unsuspected sources say, a depeg is heard however many sources speak,
\* health is earned, and what is wrong with a basis or a leg is never quoted in silence.
THEOREM TheEngineIsSound == FairValueSpec => []FairValueIsSound
<1>1. FairValueInit => EngineInv
  BY EngineStarts
<1>2. EngineInv /\ [FairValueNext]_fv => EngineInv'
  <2>1. CASE UNCHANGED fv
    BY <2>1 DEF EngineInv, EngineType, HealthIsEarned, NoSilentPegEvent, DispersedDegrades
  <2>2. QED
    BY <2>1, TickIsSound
<1>3. EngineInv => FairValueIsSound
  BY ResolutionIsSound DEF EngineInv, FairValueIsSound
<1>4. QED
  BY <1>1, <1>2, <1>3, PTL DEF FairValueSpec

\* FairValue: no tick moves the basis further than the age it has in that tick allows, up to
\* ten widths after any silence; only a fold makes it young; a first basis lies inside the
\* band; and a reference is taken in once per publication interval.
THEOREM TheBasisMovesByItsAge == FairValueSpec => BasisMovesByItsAge
<1>1. FairValueInit => EngineInv
  BY EngineStarts
<1>2. EngineInv /\ [FairValueNext]_fv => EngineInv' /\ [BasisStep]_fv
  <2>1. CASE UNCHANGED fv
    BY <2>1 DEF EngineInv, EngineType, HealthIsEarned, NoSilentPegEvent, DispersedDegrades
  <2>2. QED
    BY <2>1, TickIsSound
<1>3. QED
  BY <1>1, <1>2, PTL DEF FairValueSpec, BasisMovesByItsAge
=============================================================================
