---------------------------- MODULE ServicesProofs ----------------------------
(***************************************************************************)
(* Proofs about what runs beside the program. For PushHealth, with any     *)
(* capacity of the channel and any size of a batch: what was said of a     *)
(* link is in the channel, in the batch under way, in the row, or known to *)
(* be lost, and no subscription is in two of these places. For FeedHub,    *)
(* with any bounds, rosters and clocks: what is queued was given since the *)
(* last tick, and the cache has what the last answer of the store had. For *)
(* Teardown, with any markets, owners and bounds: what a run that saw      *)
(* everything has not closed yet is still in its plan, and the registry    *)
(* goes last.                                                              *)
(***************************************************************************)
EXTENDS PushHealth, FeedHub, Teardown, FiniteSetTheorems, SequenceTheorems, WellFoundedInduction, TLAPS

\* What a record of the channel can be, what a link or a row can say, and their types.
Updates == {"up", "down", "sample"}
States  == {"none", "up", "down"}
Rows    == [state : States, connects : Nat, disconnects : Nat]
Links   == [latest : States, delivered : BOOLEAN, queue : Seq(Updates), lost : BOOLEAN]

\* The reports of a subscription among a sequence of records.
UpsAt(s) == {i \in DOMAIN s : s[i] = "up"}
Ups(s)   == Cardinality(UpsAt(s))

\* The last transition of a sequence is u.
EndsIn(s, u) ==
    \E i \in DOMAIN s : /\ s[i] = u
                        /\ \A j \in DOMAIN s : j > i => ~IsTransition(s[j])

------------------------------------------------------------------------------
(* Sequences of records.                                                    *)

\* The reports of a sequence can be counted.
LEMMA UpsType ==
    ASSUME NEW s \in Seq(Updates)
    PROVE  IsFiniteSet(UpsAt(s)) /\ Ups(s) \in Nat
<1>1. UpsAt(s) \subseteq 1 .. Len(s)
  BY DEF UpsAt
<1>2. IsFiniteSet(1 .. Len(s))
  BY FS_Interval
<1>3. QED
  BY <1>1, <1>2, FS_Subset, FS_CardinalityType DEF Ups

\* Nothing is reported by the empty sequence.
LEMMA UpsEmpty == Ups(<<>>) = 0
<1>1. UpsAt(<<>>) = {}
  BY DEF UpsAt
<1>2. QED
  BY <1>1, FS_EmptySet DEF Ups

\* Cutting a sequence in two loses and doubles no report.
LEMMA UpsSplit ==
    ASSUME NEW s \in Seq(Updates), NEW n \in 0 .. Len(s)
    PROVE  Ups(SubSeq(s, 1, n)) + Ups(SubSeq(s, n + 1, Len(s))) = Ups(s)
<1> DEFINE a == SubSeq(s, 1, n)
           b == SubSeq(s, n + 1, Len(s))
           B == {i \in UpsAt(s) : i > n}
           f == [i \in UpsAt(b) |-> i + n]
<1>1. /\ a \in Seq(Updates) /\ Len(a) = n
      /\ \A i \in 1 .. n : a[i] = s[i]
  BY SubSeqProperties
<1>2. /\ b \in Seq(Updates) /\ Len(b) = Len(s) - n
      /\ \A i \in 1 .. Len(s) - n : b[i] = s[i + n]
  BY SubSeqProperties
<1>3. UpsAt(s) = UpsAt(a) \cup B /\ UpsAt(a) \cap B = {}
  BY <1>1 DEF UpsAt
<1>4. f \in Bijection(UpsAt(b), B)
  <2>1. \A i \in UpsAt(b) : i + n \in B
    BY <1>2 DEF UpsAt
  <2>2. \A j \in B : j - n \in UpsAt(b) /\ j = (j - n) + n
    BY <1>2 DEF UpsAt
  <2>3. \A i, j \in UpsAt(b) : i + n = j + n => i = j
    BY <1>2 DEF UpsAt
  <2> HIDE DEF a, b, B
  <2>4. f \in Injection(UpsAt(b), B)
    BY <2>1, <2>3 DEF Injection, IsInjective
  <2>5. f \in Surjection(UpsAt(b), B)
    BY <2>1, <2>2 DEF Surjection
  <2>6. QED
    BY <2>4, <2>5 DEF Bijection
<1> HIDE DEF a, b, B, f
<1>5. /\ IsFiniteSet(UpsAt(a)) /\ IsFiniteSet(UpsAt(b))
      /\ Ups(a) \in Nat /\ Ups(b) \in Nat
  BY <1>1, <1>2, UpsType
<1>6. IsFiniteSet(B) /\ Cardinality(B) = Ups(b)
  <2>1. ExistsBijection(UpsAt(b), B)
    BY <1>4 DEF ExistsBijection
  <2>2. QED
    BY <1>5, <2>1, FS_Bijection DEF Ups
<1>7. Cardinality(UpsAt(s)) = Cardinality(UpsAt(a)) + Cardinality(B) - Cardinality({})
  BY <1>3, <1>5, <1>6, FS_Union
<1>8. QED
  BY <1>5, <1>6, <1>7, FS_EmptySet DEF Ups, a, b

\* One more record.
LEMMA UpsAppend ==
    ASSUME NEW s \in Seq(Updates), NEW u \in Updates
    PROVE  /\ Append(s, u) \in Seq(Updates)
           /\ Ups(Append(s, u)) = Ups(s) + (IF u = "up" THEN 1 ELSE 0)
<1> DEFINE t == Append(s, u)
<1>1. /\ t \in Seq(Updates) /\ Len(t) = Len(s) + 1
      /\ \A i \in 1 .. Len(s) : t[i] = s[i]
      /\ t[Len(s) + 1] = u
  OBVIOUS
<1>2. UpsAt(t) = UpsAt(s) \cup (IF u = "up" THEN {Len(s) + 1} ELSE {})
  <2>1. \A i \in DOMAIN t : i \in DOMAIN s \/ i = Len(s) + 1
    BY <1>1
  <2>2. QED
    BY <1>1, <2>1 DEF UpsAt
<1>3. Len(s) + 1 \notin UpsAt(s)
  BY DEF UpsAt
<1> HIDE DEF t
<1>4. CASE u = "up"
  <2>1. UpsAt(t) = UpsAt(s) \cup {Len(s) + 1}
    BY <1>2, <1>4
  <2>2. QED
    BY <1>1, <1>3, <1>4, <2>1, UpsType, FS_AddElement DEF Ups, t
<1>5. CASE u # "up"
  <2>1. UpsAt(t) = UpsAt(s)
    BY <1>2, <1>5
  <2>2. QED
    BY <1>1, <1>5, <2>1, UpsType DEF Ups, t
<1>6. QED
  BY <1>4, <1>5

\* One record less, at the front.
LEMMA UpsTail ==
    ASSUME NEW s \in Seq(Updates), s # <<>>
    PROVE  /\ Head(s) \in Updates /\ Tail(s) \in Seq(Updates)
           /\ Ups(s) = Ups(Tail(s)) + (IF Head(s) = "up" THEN 1 ELSE 0)
<1> DEFINE h == SubSeq(s, 1, 1)
<1>1. Head(s) \in Updates /\ Tail(s) \in Seq(Updates) /\ 1 \in 0 .. Len(s)
  OBVIOUS
<1>2. SubSeq(s, 1 + 1, Len(s)) = Tail(s)
  OBVIOUS
<1>3. h \in Seq(Updates) /\ DOMAIN h = {1} /\ h[1] = Head(s)
  BY <1>1, SubSeqProperties
<1>4. Ups(h) + Ups(Tail(s)) = Ups(s)
  BY <1>1, <1>2, UpsSplit
<1> HIDE DEF h
<1>5. Ups(h) = IF Head(s) = "up" THEN 1 ELSE 0
  <2>1. CASE Head(s) = "up"
    <3>1. UpsAt(h) = {1}
      BY <1>3, <2>1 DEF UpsAt
    <3>2. QED
      BY <2>1, <3>1, FS_Singleton DEF Ups
  <2>2. CASE Head(s) # "up"
    <3>1. UpsAt(h) = {}
      BY <1>3, <2>2 DEF UpsAt
    <3>2. QED
      BY <2>2, <3>1, FS_EmptySet DEF Ups
  <2>3. QED
    BY <2>1, <2>2
<1>6. Ups(Tail(s)) \in Nat
  BY <1>1, UpsType
<1>7. QED
  BY <1>1, <1>4, <1>5, <1>6

\* What a sequence with one more record carries, and how it ends.
LEMMA CarriesAppend ==
    ASSUME NEW s \in Seq(Updates), NEW u \in Updates
    PROVE  /\ Carries(Append(s, u)) <=> Carries(s) \/ IsTransition(u)
           /\ IsTransition(u) => EndsIn(Append(s, u), u)
           /\ \A v \in Updates : EndsIn(s, v) /\ ~IsTransition(u) => EndsIn(Append(s, u), v)
<1> DEFINE t == Append(s, u)
<1>1. /\ Len(t) = Len(s) + 1 /\ DOMAIN t = 1 .. Len(s) + 1
      /\ DOMAIN s = 1 .. Len(s) /\ Len(s) \in Nat
      /\ \A i \in 1 .. Len(s) : t[i] = s[i]
      /\ t[Len(s) + 1] = u
  OBVIOUS
<1> HIDE DEF t
<1>2. Carries(t) <=> Carries(s) \/ IsTransition(u)
  BY <1>1 DEF Carries
<1>3. IsTransition(u) => EndsIn(t, u)
  BY <1>1 DEF EndsIn
<1>4. ASSUME NEW v \in Updates, EndsIn(s, v), ~IsTransition(u) PROVE EndsIn(t, v)
  BY <1>1, <1>4 DEF EndsIn
<1>5. QED
  BY <1>2, <1>3, <1>4 DEF t

\* How a sequence ends is told by its last part that carries anything.
LEMMA CarriesSplit ==
    ASSUME NEW s \in Seq(Updates), NEW n \in 0 .. Len(s)
    PROVE  /\ Carries(s) <=> Carries(SubSeq(s, 1, n)) \/ Carries(SubSeq(s, n + 1, Len(s)))
           /\ \A v \in Updates : EndsIn(s, v) /\ IsTransition(v) =>
                 IF Carries(SubSeq(s, n + 1, Len(s))) THEN EndsIn(SubSeq(s, n + 1, Len(s)), v)
                 ELSE EndsIn(SubSeq(s, 1, n), v)
<1> DEFINE a == SubSeq(s, 1, n)
           b == SubSeq(s, n + 1, Len(s))
<1>1. /\ DOMAIN a = 1 .. n /\ \A i \in 1 .. n : a[i] = s[i]
      /\ DOMAIN s = 1 .. Len(s) /\ Len(s) \in Nat
  BY SubSeqProperties
<1>2. /\ DOMAIN b = 1 .. Len(s) - n
      /\ \A i \in 1 .. Len(s) - n : b[i] = s[i + n]
  BY SubSeqProperties
<1>3. \A i \in (n + 1) .. Len(s) : i - n \in DOMAIN b /\ b[i - n] = s[i]
  BY <1>2
<1> HIDE DEF a, b
<1>4. Carries(s) <=> Carries(a) \/ Carries(b)
  <2>1. ASSUME Carries(s) PROVE Carries(a) \/ Carries(b)
    <3>1. PICK i \in DOMAIN s : IsTransition(s[i])
      BY <2>1 DEF Carries
    <3>2. CASE i <= n
      BY <1>1, <3>1, <3>2 DEF Carries
    <3>3. CASE i > n
      BY <1>1, <1>3, <3>1, <3>3 DEF Carries
    <3>4. QED
      BY <1>1, <3>1, <3>2, <3>3
  <2>2. ASSUME Carries(a) PROVE Carries(s)
    BY <1>1, <2>2 DEF Carries
  <2>3. ASSUME Carries(b) PROVE Carries(s)
    <3>1. PICK i \in DOMAIN b : IsTransition(b[i])
      BY <2>3 DEF Carries
    <3>2. i + n \in DOMAIN s /\ s[i + n] = b[i]
      BY <1>1, <1>2
    <3>3. QED
      BY <3>1, <3>2 DEF Carries
  <2>4. QED
    BY <2>1, <2>2, <2>3
<1>5. ASSUME NEW v \in Updates, EndsIn(s, v), IsTransition(v)
      PROVE  IF Carries(b) THEN EndsIn(b, v) ELSE EndsIn(a, v)
  <2>1. PICK i \in DOMAIN s : s[i] = v /\ \A j \in DOMAIN s : j > i => ~IsTransition(s[j])
    BY <1>5 DEF EndsIn
  <2>2. CASE i <= n
    <3>1. ~Carries(b)
      BY <1>1, <1>2, <2>1, <2>2 DEF Carries
    <3>2. EndsIn(a, v)
      BY <1>1, <2>1, <2>2 DEF EndsIn
    <3>3. QED
      BY <3>1, <3>2
  <2>3. CASE i > n
    <3>1. i - n \in DOMAIN b /\ b[i - n] = v
      BY <1>1, <1>3, <2>1, <2>3
    <3>2. \A j \in DOMAIN b : j > i - n => ~IsTransition(b[j])
      BY <1>1, <1>2, <2>1, <2>3
    <3>3. QED
      BY <1>5, <3>1, <3>2 DEF EndsIn, Carries
  <2>4. QED
    BY <1>1, <2>1, <2>2, <2>3
<1>6. QED
  BY <1>4, <1>5 DEF a, b

\* The same with the first record apart.
LEMMA CarriesTail ==
    ASSUME NEW s \in Seq(Updates), s # <<>>
    PROVE  /\ Carries(s) <=> IsTransition(Head(s)) \/ Carries(Tail(s))
           /\ \A v \in Updates : EndsIn(s, v) /\ IsTransition(v) =>
                 IF Carries(Tail(s)) THEN EndsIn(Tail(s), v) ELSE Head(s) = v
<1> DEFINE h == SubSeq(s, 1, 1)
<1>1. Tail(s) = SubSeq(s, 1 + 1, Len(s)) /\ 1 \in 0 .. Len(s)
  OBVIOUS
<1>2. DOMAIN h = {1} /\ h[1] = Head(s)
  BY <1>1, SubSeqProperties
<1>3. /\ Carries(s) <=> Carries(h) \/ Carries(Tail(s))
      /\ \A v \in Updates : EndsIn(s, v) /\ IsTransition(v) =>
            IF Carries(Tail(s)) THEN EndsIn(Tail(s), v) ELSE EndsIn(h, v)
  BY ZenonT(30), <1>1, CarriesSplit
<1> HIDE DEF h
<1>4. Carries(h) <=> IsTransition(Head(s))
  BY <1>2 DEF Carries
<1>5. \A v \in Updates : EndsIn(h, v) => Head(s) = v
  BY <1>2 DEF EndsIn
<1>6. QED
  BY <1>3, <1>4, <1>5

------------------------------------------------------------------------------
(* The reporter.                                                            *)

\* A subscription the reporter has yet to say.
Owed(l) == IF ~l.delivered /\ l.latest = "up" THEN 1 ELSE 0

\* What was delivered and not lost is the last transition of what is under way to the row,
\* or is what the row r says.
Arrives(l, b, r) ==
    ~l.lost /\ l.delivered /\ l.latest # "none" =>
        IF Carries(l.queue) THEN EndsIn(l.queue, l.latest)
        ELSE IF Carries(b) THEN EndsIn(b, l.latest)
        ELSE r.state = l.latest

\* The link l, the batch b and the row r it is written to account for f subscriptions.
LinkSound(l, b, r, f) ==
    /\ l.latest = "none" => l.delivered
    /\ l.lost => ~Carries(l.queue)
    /\ r.connects + Ups(b) + Ups(l.queue) + Owed(l) <= f
    /\ Arrives(l, b, r)

\* A record of somebody else's changes nothing.
LEMMA SampleOffered ==
    ASSUME NEW l \in Links, NEW b \in Seq(Updates), NEW r \in Rows, NEW f \in Nat,
           LinkSound(l, b, r, f)
    PROVE  /\ Offer(l, "sample") \in Links
           /\ LinkSound(Offer(l, "sample"), b, r, f)
           /\ Offer(l, "sample").latest = l.latest
           /\ Offer(l, "sample").delivered = l.delivered
<1>1. l.queue \in Seq(Updates) /\ l.lost \in BOOLEAN /\ l.delivered \in BOOLEAN /\ l.latest \in States
  BY DEF Links
<1>2. CASE HasRoom(l)
  <2> DEFINE q == Append(l.queue, "sample")
  <2>1. /\ q \in Seq(Updates) /\ Ups(q) = Ups(l.queue)
        /\ Carries(q) <=> Carries(l.queue)
        /\ \A v \in Updates : EndsIn(l.queue, v) => EndsIn(q, v)
    <3>1. "sample" \in Updates /\ ~IsTransition("sample") /\ Ups(l.queue) \in Nat
      BY <1>1, UpsType DEF Updates, IsTransition
    <3>2. QED
      BY <1>1, <3>1, UpsAppend, CarriesAppend
  <2>2. Offer(l, "sample") = [l EXCEPT !.queue = q, !.lost = l.lost /\ TRUE]
    BY <1>2 DEF Offer, IsTransition
  <2> HIDE DEF q
  <2>3. /\ Offer(l, "sample") \in Links
        /\ Offer(l, "sample").queue = q /\ Offer(l, "sample").lost = l.lost
        /\ Offer(l, "sample").latest = l.latest /\ Offer(l, "sample").delivered = l.delivered
    BY <1>1, <2>1, <2>2 DEF Links
  <2>4. Arrives(Offer(l, "sample"), b, r)
    BY <1>1, <2>1, <2>3 DEF Arrives, LinkSound, States, Updates
  <2>5. QED
    BY <2>1, <2>3, <2>4 DEF LinkSound, Owed
<1>3. CASE ~HasRoom(l)
  BY <1>3 DEF Offer
<1>4. QED
  BY <1>2, <1>3

\* Retrying what is retained.
LEMMA FlushSound ==
    ASSUME NEW l \in Links, NEW b \in Seq(Updates), NEW r \in Rows, NEW f \in Nat,
           LinkSound(l, b, r, f)
    PROVE  /\ Flush(l) \in Links /\ LinkSound(Flush(l), b, r, f)
           /\ Flush(l).latest = l.latest
           /\ (Flush(l).delivered <=> l.delivered \/ HasRoom(l))
           /\ Len(Flush(l).queue) <= Len(l.queue) + 1
<1>1. l.queue \in Seq(Updates) /\ l.lost \in BOOLEAN /\ l.delivered \in BOOLEAN /\ l.latest \in States
  BY DEF Links
<1>2. CASE l.delivered \/ l.latest = "none"
  <2>1. Flush(l) = l /\ l.delivered
    BY <1>1, <1>2 DEF Flush, LinkSound
  <2>2. Len(l.queue) \in Nat
    BY <1>1
  <2>3. QED
    BY <1>1, <2>1, <2>2
<1>3. CASE ~(l.delivered \/ l.latest = "none") /\ HasRoom(l)
  <2> DEFINE q == Append(l.queue, l.latest)
             m == [l EXCEPT !.queue = q, !.lost = FALSE, !.delivered = TRUE]
  <2>1. l.latest \in Updates /\ IsTransition(l.latest)
    BY <1>1, <1>3 DEF Updates, States, IsTransition
  <2>2. /\ q \in Seq(Updates) /\ Ups(q) = Ups(l.queue) + (IF l.latest = "up" THEN 1 ELSE 0)
        /\ Carries(q) /\ EndsIn(q, l.latest) /\ Len(q) = Len(l.queue) + 1
    BY <1>1, <2>1, UpsAppend, CarriesAppend
  <2>3. Flush(l) = m
    BY <1>1, <1>3, <2>1 DEF Flush, Offer, HasRoom, Links
  <2> HIDE DEF q
  <2>4. m \in Links /\ m.queue = q /\ m.lost = FALSE /\ m.delivered = TRUE /\ m.latest = l.latest
    BY <1>1, <2>2 DEF Links
  <2> HIDE DEF m
  <2>5. Arrives(m, b, r)
    BY <2>2, <2>4 DEF Arrives
  <2>6. Owed(m) = 0 /\ Owed(l) = IF l.latest = "up" THEN 1 ELSE 0
    BY <1>3, <2>4 DEF Owed
  <2>7. r.connects + Ups(b) + Ups(q) + Owed(m) <= f
    <3>1. r.connects \in Nat /\ Ups(b) \in Nat /\ Ups(l.queue) \in Nat
      BY <1>1, UpsType DEF Rows
    <3>2. Ups(q) + Owed(m) = Ups(l.queue) + Owed(l)
      BY <2>2, <2>6, <3>1
    <3>3. Owed(l) \in {0, 1} /\ Ups(q) \in Nat /\ Owed(m) = 0
      BY <2>2, <2>6, UpsType
    <3>4. r.connects + Ups(b) + Ups(l.queue) + Owed(l) <= f
      BY DEF LinkSound
    <3>5. QED
      BY <3>1, <3>2, <3>3, <3>4
  <2>8. QED
    BY <1>3, <2>2, <2>3, <2>4, <2>5, <2>7 DEF LinkSound
<1>4. CASE ~(l.delivered \/ l.latest = "none") /\ ~HasRoom(l)
  <2>1. Flush(l) = [l EXCEPT !.delivered = FALSE]
    <3>1. HasRoom(l) = FALSE
      BY <1>4 DEF HasRoom
    <3>2. Flush(l) = [Offer(l, l.latest) EXCEPT !.delivered = HasRoom(l)]
      BY <1>4, Zenon DEF Flush
    <3>3. Offer(l, l.latest) = l
      BY <1>4 DEF Offer
    <3>4. QED
      BY <3>1, <3>2, <3>3, Zenon
  <2>2. Flush(l) = l
    BY <1>1, <1>4, <2>1 DEF Links
  <2>3. Len(l.queue) \in Nat
    BY <1>1
  <2>4. QED
    BY <1>1, <1>4, <2>2, <2>3
<1>5. QED
  BY <1>2, <1>3, <1>4

\* A new state: f grows by what it adds.
LEMMA SetSound ==
    ASSUME NEW l \in Links, NEW b \in Seq(Updates), NEW r \in Rows, NEW f \in Nat,
           LinkSound(l, b, r, f), NEW u \in {"up", "down"}
    PROVE  /\ Set(l, u) \in Links
           /\ LinkSound(Set(l, u), b, r, f + (IF u = "up" THEN 1 ELSE 0))
           /\ Set(l, u).latest = u /\ (Set(l, u).delivered <=> HasRoom(l))
<1> DEFINE m == [l EXCEPT !.latest = u, !.delivered = FALSE]
           g == f + (IF u = "up" THEN 1 ELSE 0)
<1>1. l.queue \in Seq(Updates) /\ l.lost \in BOOLEAN /\ l.delivered \in BOOLEAN /\ l.latest \in States
  BY DEF Links
<1>2. m \in Links /\ m.latest = u /\ m.delivered = FALSE /\ m.queue = l.queue /\ m.lost = l.lost
  BY <1>1 DEF Links, States
<1>3. g \in Nat
  OBVIOUS
<1>4. Set(l, u) = Flush(m) /\ (HasRoom(m) <=> HasRoom(l))
  BY <1>2 DEF Set, HasRoom
<1> HIDE DEF m
<1>5. r.connects + Ups(b) + Ups(m.queue) + Owed(m) <= g
  <2>1. r.connects \in Nat /\ Ups(b) \in Nat /\ Ups(l.queue) \in Nat
    BY <1>1, UpsType DEF Rows
  <2>2. Owed(m) = (IF u = "up" THEN 1 ELSE 0) /\ Owed(l) \in {0, 1}
    BY <1>2 DEF Owed
  <2>3. QED
    BY <1>2, <2>1, <2>2 DEF LinkSound
<1>6. LinkSound(m, b, r, g)
  BY <1>2, <1>5 DEF LinkSound, Arrives
<1> HIDE DEF g
<1>7. /\ Flush(m) \in Links /\ LinkSound(Flush(m), b, r, g)
      /\ Flush(m).latest = m.latest /\ (Flush(m).delivered <=> m.delivered \/ HasRoom(m))
  BY <1>2, <1>3, <1>6, FlushSound
<1>8. QED
  BY <1>2, <1>4, <1>7 DEF g

\* The end of the thread. With two free slots its last words are not refused.
LEMMA DropSound ==
    ASSUME NEW l \in Links, NEW b \in Seq(Updates), NEW r \in Rows, NEW f \in Nat,
           LinkSound(l, b, r, f), Capacity \in Nat
    PROVE  /\ Drop(l) \in Links /\ LinkSound(Drop(l), b, r, f)
           /\ Len(l.queue) + 2 <= Capacity /\ Drop(l).latest # "none"
                 => Drop(l).delivered /\ Drop(l).latest # "up"
<1> DEFINE m == Flush(l)
<1>1. /\ m \in Links /\ LinkSound(m, b, r, f)
      /\ m.latest = l.latest /\ (m.delivered <=> l.delivered \/ HasRoom(l))
      /\ Len(m.queue) <= Len(l.queue) + 1
  BY FlushSound
<1>2. Len(m.queue) \in Nat /\ Len(l.queue) \in Nat
  BY <1>1 DEF Links
<1>3. Len(l.queue) + 2 <= Capacity => HasRoom(l) /\ HasRoom(m)
  BY <1>1, <1>2 DEF HasRoom
<1>4. Drop(l) = TakenBack(m)
  BY DEF Drop
<1> HIDE DEF m
<1>5. CASE m.delivered /\ m.latest = "up"
  <2>1. Drop(l) = Set(m, "down")
    BY <1>4, <1>5 DEF TakenBack
  <2>2. f + 0 = f
    OBVIOUS
  <2>3. /\ Set(m, "down") \in Links /\ LinkSound(Set(m, "down"), b, r, f)
        /\ Set(m, "down").latest = "down" /\ (Set(m, "down").delivered <=> HasRoom(m))
    BY <1>1, <2>2, SetSound
  <2>4. QED
    BY <1>3, <2>1, <2>3
<1>6. CASE ~(m.delivered /\ m.latest = "up")
  <2>1. Drop(l) = m
    BY <1>4, <1>6 DEF TakenBack
  <2>2. QED
    BY <1>1, <1>3, <1>6, <2>1
<1>7. QED
  BY <1>5, <1>6

------------------------------------------------------------------------------
(* The invariant.                                                           *)

\* The row a record is written to next.
Basis == IF open THEN work ELSE row

\* The counters of a row differ by what its state allows.
TakesTurns(r) ==
    r.connects - r.disconnects \in
        CASE r.state = "up" -> {0, 1} [] r.state = "down" -> {-1, 0} [] OTHER -> {0}

\* The range of every variable the invariant reads.
PushType ==
    /\ thread \in {"connecting", "subscribed", "sleeping", "ended"}
    /\ link \in Links /\ batch \in Seq(Updates) /\ work \in Rows /\ row \in Rows
    /\ flaps \in Nat

\* Outside a transaction no record is under way; a transaction never counts down; the link
\* accounts for every subscription; and an end with room to speak was heard.
PInv ==
    /\ PushType
    /\ ~open => batch = <<>>
    /\ TakesTurns(row) /\ TakesTurns(work)
    /\ open => row.connects <= work.connects
    /\ LinkSound(link, batch, Basis, flaps)
    /\ thread = "ended" /\ ~mute /\ link.latest # "none" => link.delivered /\ link.latest # "up"

\* What a record adds to a row, and that its counters go on taking turns.
LEMMA UpsertSound ==
    ASSUME NEW r \in Rows, NEW u \in Updates, TakesTurns(r)
    PROVE  /\ Upsert(u, r) \in Rows /\ TakesTurns(Upsert(u, r))
           /\ r.connects <= Upsert(u, r).connects
           /\ Upsert(u, r).connects <= r.connects + (IF u = "up" THEN 1 ELSE 0)
           /\ Upsert(u, r).state = IF IsTransition(u) THEN u ELSE r.state
<1>1. r.state \in States /\ r.connects \in Nat /\ r.disconnects \in Nat
  BY DEF Rows
<1>2. CASE u = "up"
  <2> DEFINE c == IF r.state = "up" THEN r.connects ELSE r.connects + 1
             w == [r EXCEPT !.state = "up", !.connects = c]
  <2>1. Upsert(u, r) = w /\ c \in Nat
    BY <1>1, <1>2 DEF Upsert
  <2> HIDE DEF c
  <2>2. /\ w \in Rows /\ w.state = "up" /\ w.connects = c
        /\ w.disconnects = r.disconnects
    BY <1>1, <2>1 DEF Rows, States
  <2> HIDE DEF w
  <2>3. TakesTurns(w)
    BY <1>1, <2>2 DEF TakesTurns, States, c
  <2>4. QED
    BY <1>1, <1>2, <2>1, <2>2, <2>3 DEF IsTransition, c
<1>3. CASE u = "down"
  <2> DEFINE c == IF r.state = "down" THEN r.disconnects ELSE r.disconnects + 1
             w == [r EXCEPT !.state = "down", !.disconnects = c]
  <2>1. Upsert(u, r) = w /\ c \in Nat
    BY <1>1, <1>3 DEF Upsert
  <2> HIDE DEF c
  <2>2. /\ w \in Rows /\ w.state = "down" /\ w.connects = r.connects
        /\ w.disconnects = c
    BY <1>1, <2>1 DEF Rows, States
  <2> HIDE DEF w
  <2>3. TakesTurns(w)
    BY <1>1, <2>2 DEF TakesTurns, States, c
  <2>4. QED
    BY <1>1, <1>3, <2>1, <2>2, <2>3 DEF IsTransition, c
<1>4. CASE u = "sample"
  BY <1>1, <1>4 DEF Upsert, Rows, IsTransition
<1>5. QED
  BY <1>2, <1>3, <1>4 DEF Updates

\* The invariant gives the property.
LEMMA InvariantGivesHealth == PInv => PushHealthIsSound
<1> SUFFICES ASSUME PInv PROVE PushHealthIsSound
  OBVIOUS
<1>1. /\ link.latest \in States /\ row \in Rows /\ row.connects \in Nat /\ flaps \in Nat
      /\ link.queue \in Seq(Updates) /\ batch \in Seq(Updates)
  BY DEF PInv, PushType, Links, Rows
<1>2. ASSUME Settled PROVE Basis = row /\ ~Carries(batch) /\ ~Carries(link.queue)
  BY <1>2 DEF Settled, Basis, PInv, Carries
<1>3. RowIsCurrent
  BY <1>2 DEF RowIsCurrent, Settled, PInv, LinkSound, Arrives
<1>4. EndIsVisible
  <2> SUFFICES ASSUME Settled, ~link.lost, link.latest # "none", thread = "ended", ~mute
               PROVE  row.state # "up"
    BY DEF EndIsVisible
  <2>1. link.delivered /\ link.latest # "up"
    BY DEF PInv
  <2>2. QED
    BY <1>3, <2>1 DEF RowIsCurrent
<1>5. row.connects <= flaps
  <2>1. Ups(batch) \in Nat /\ Ups(link.queue) \in Nat /\ Owed(link) \in Nat
    BY <1>1, UpsType DEF Owed
  <2>2. row.connects <= Basis.connects /\ Basis.connects \in Nat
    BY <1>1 DEF Basis, PInv, PushType, Rows
  <2>3. Basis.connects + Ups(batch) + Ups(link.queue) + Owed(link) <= flaps
    BY DEF PInv, LinkSound
  <2>4. QED
    BY <1>1, <2>1, <2>2, <2>3
<1>6. CountersTakeTurns
  BY <1>5 DEF CountersTakeTurns, PInv, TakesTurns
<1>7. QED
  BY <1>3, <1>4, <1>6 DEF PushHealthIsSound

\* A new process has said nothing.
LEMMA FreshLinkSound ==
    ASSUME NEW r \in Rows, NEW f \in Nat, r.connects <= f
    PROVE  Link0 \in Links /\ LinkSound(Link0, <<>>, r, f)
<1>1. Link0 \in Links
  BY DEF Link0, Links, States, Updates
<1>2. Owed(Link0) = 0 /\ ~Carries(<<>>)
  BY DEF Link0, Owed, Carries
<1>3. r.connects \in Nat
  BY DEF Rows
<1>4. LinkSound(Link0, <<>>, r, f)
  BY <1>2, <1>3, UpsEmpty DEF LinkSound, Arrives, Link0
<1>5. QED
  BY <1>1, <1>4

\* It holds at the start.
LEMMA PInvInit == PushInit => PInv
<1> SUFFICES ASSUME PushInit PROVE PInv
  OBVIOUS
<1>1. Row0 \in Rows /\ TakesTurns(Row0) /\ Row0.connects <= 0
  BY DEF Row0, Rows, States, TakesTurns
<1>2. Basis = Row0
  BY DEF PushInit, Basis
<1>3. Link0 \in Links /\ LinkSound(Link0, <<>>, Row0, 0)
  BY <1>1, FreshLinkSound
<1>4. QED
  BY <1>1, <1>2, <1>3 DEF PushInit, PInv, PushType, Updates

\* A step of the thread, or of whoever else reports: the link as it leaves it is sound for
\* the subscriptions counted.
LEMMA ThreadKeeps ==
    ASSUME PInv, OfThread, link' \in Links, flaps' \in Nat,
           thread' \in {"connecting", "subscribed", "sleeping", "ended"},
           LinkSound(link', batch, Basis, flaps'),
           thread' = "ended" /\ ~mute' /\ link'.latest # "none"
               => link'.delivered /\ link'.latest # "up"
    PROVE  PInv'
<1>1. UNCHANGED <<open, batch, work, row>>
  BY DEF OfThread
<1>2. Basis' = Basis
  BY <1>1 DEF Basis
<1>3. PushType'
  BY <1>1 DEF PInv, PushType
<1>4. LinkSound(link, batch, Basis, flaps)'
  BY <1>1, <1>2
<1>5. QED
  BY <1>1, <1>3, <1>4 DEF PInv, TakesTurns

\* Every step of the thread keeps the invariant.
LEMMA ThreadStep ==
    ASSUME PushAssumption, PInv, ThreadNext \/ Emit
    PROVE  PInv'
<1>1. /\ link \in Links /\ batch \in Seq(Updates) /\ Basis \in Rows /\ flaps \in Nat
      /\ LinkSound(link, batch, Basis, flaps)
      /\ Capacity \in Nat
  BY DEF PInv, PushType, Basis, PushAssumption
<1>2. CASE Subscribes
  <2>1. /\ Set(link, "up") \in Links
        /\ LinkSound(Set(link, "up"), batch, Basis, flaps + 1)
    BY <1>1, SetSound
  <2>2. link' = Set(link, "up") /\ flaps' = flaps + 1 /\ thread' = "subscribed" /\ OfThread
    BY <1>2 DEF Subscribes
  <2>3. QED
    BY <1>1, <2>1, <2>2, ThreadKeeps
<1>3. LinkSound(Set(link, "down"), batch, Basis, flaps) /\ Set(link, "down") \in Links
  <2>1. flaps + 0 = flaps
    BY <1>1
  <2>2. QED
    BY <1>1, <2>1, SetSound
<1>4. LinkSound(Reassert(link), batch, Basis, flaps) /\ Reassert(link) \in Links
  BY <1>1, FlushSound DEF Reassert
<1>5. CASE SubscribeFails \/ SocketCloses
  <2>1. link' = Set(link, "down") /\ flaps' = flaps /\ thread' = "sleeping" /\ OfThread
    BY <1>5 DEF SubscribeFails, SocketCloses
  <2>2. QED
    BY <1>1, <1>3, <2>1, ThreadKeeps
<1>6. CASE QuietInterval \/ Wakes
  <2>1. /\ link' = Reassert(link) /\ flaps' = flaps /\ OfThread
        /\ thread' \in {"connecting", "subscribed"}
    BY <1>6 DEF QuietInterval, Wakes
  <2>2. QED
    BY <1>1, <1>4, <2>1, ThreadKeeps
<1>7. ASSUME NEW l \in Links, LinkSound(l, batch, Basis, flaps), Ends(l) PROVE PInv'
  <2>1. /\ link' = Drop(l) /\ flaps' = flaps /\ thread' = "ended" /\ OfThread
        /\ mute' = (Len(l.queue) + 2 > Capacity)
    BY <1>7 DEF Ends
  <2>2. /\ Drop(l) \in Links /\ LinkSound(Drop(l), batch, Basis, flaps)
        /\ Len(l.queue) + 2 <= Capacity /\ Drop(l).latest # "none"
              => Drop(l).delivered /\ Drop(l).latest # "up"
    BY <1>1, <1>7, DropSound
  <2>3. ~mute' => Len(l.queue) + 2 <= Capacity
    <3>1. Len(l.queue) \in Nat
      BY <1>7 DEF Links
    <3>2. ~(Len(l.queue) + 2 > Capacity) => Len(l.queue) + 2 <= Capacity
      BY <1>1, <3>1
    <3>3. QED
      BY <2>1, <3>2, Zenon
  <2>4. QED
    BY <1>1, <2>1, <2>2, <2>3, ThreadKeeps
<1>8. CASE Stops
  BY <1>3, <1>7, <1>8 DEF Stops
<1>9. CASE Panics
  BY <1>1, <1>7, <1>9 DEF Panics
<1>10. CASE Emit
  <2>1. /\ Offer(link, "sample") \in Links
        /\ LinkSound(Offer(link, "sample"), batch, Basis, flaps)
        /\ Offer(link, "sample").latest = link.latest
        /\ Offer(link, "sample").delivered = link.delivered
    BY <1>1, SampleOffered
  <2>2. link' = Offer(link, "sample") /\ UNCHANGED <<thread, flaps, mute>> /\ OfThread
    BY <1>10 DEF Emit
  <2>3. thread' = "ended" /\ ~mute' /\ link'.latest # "none"
            => link'.delivered /\ link'.latest # "up"
    BY <2>1, <2>2 DEF PInv
  <2>4. thread' \in {"connecting", "subscribed", "sleeping", "ended"}
    BY <2>2 DEF PInv, PushType
  <2>5. QED
    BY <1>1, <2>1, <2>2, <2>3, <2>4, ThreadKeeps
<1>11. QED
  BY <1>2, <1>5, <1>6, <1>8, <1>9, <1>10 DEF ThreadNext

\* Every step of the drain keeps the invariant.
LEMMA DrainStep ==
    ASSUME PushAssumption, PInv, DrainNext
    PROVE  PInv'
<1> USE DEF OfDrain
<1>1. /\ link \in Links /\ batch \in Seq(Updates) /\ work \in Rows /\ row \in Rows
      /\ link.queue \in Seq(Updates) /\ link.lost \in BOOLEAN /\ link.latest \in States
      /\ flaps \in Nat
      /\ LinkSound(link, batch, Basis, flaps)
  BY DEF PInv, PushType, Links
<1>2. /\ Ups(batch) \in Nat /\ Ups(link.queue) \in Nat /\ Owed(link) \in Nat
      /\ row.connects \in Nat /\ work.connects \in Nat
  BY <1>1, UpsType DEF Owed, Rows
<1>3. CASE Takes
  <2> DEFINE n == Lesser(Len(link.queue), DrainCap)
             a == SubSeq(link.queue, 1, n)
             b == SubSeq(link.queue, n + 1, Len(link.queue))
  <2>1. n \in 0 .. Len(link.queue)
    BY <1>1 DEF Lesser, PushAssumption
  <2> HIDE DEF n
  <2>2. /\ a \in Seq(Updates) /\ b \in Seq(Updates)
        /\ Ups(a) + Ups(b) = Ups(link.queue)
        /\ Carries(link.queue) <=> Carries(a) \/ Carries(b)
        /\ \A v \in Updates : EndsIn(link.queue, v) /\ IsTransition(v) =>
              IF Carries(b) THEN EndsIn(b, v) ELSE EndsIn(a, v)
    BY <1>1, <2>1, SubSeqProperties, UpsSplit, CarriesSplit
  <2>3. /\ batch' = a /\ link' = [link EXCEPT !.queue = b]
        /\ open' = TRUE /\ work' = row /\ ~open
        /\ UNCHANGED <<thread, mute, flaps, row>>
    BY <1>3 DEF Takes, n
  <2> HIDE DEF a, b
  <2>4. /\ link' \in Links /\ link'.queue = b /\ link'.latest = link.latest
        /\ link'.lost = link.lost /\ link'.delivered = link.delivered
    BY <1>1, <2>2, <2>3 DEF Links
  <2>5. Basis = row /\ Basis' = row /\ batch = <<>>
    BY <2>3 DEF Basis, PInv
  <2>6. Owed(link') = Owed(link) /\ Ups(a) \in Nat /\ Ups(b) \in Nat
    BY <2>2, <2>4, UpsType DEF Owed
  <2>7. row.connects + Ups(a) + Ups(b) + Owed(link') <= flaps
    BY <1>1, <1>2, <2>2, <2>5, <2>6, UpsEmpty DEF LinkSound
  <2>8. Arrives(link', a, row)
    <3>1. ~Carries(<<>>)
      BY DEF Carries
    <3>2. link.latest # "none" => link.latest \in Updates /\ IsTransition(link.latest)
      BY <1>1 DEF States, Updates, IsTransition
    <3>3. Arrives(link, <<>>, row)
      BY <1>1, <2>5 DEF LinkSound
    <3>4. QED
      BY <2>2, <2>4, <3>1, <3>2, <3>3 DEF Arrives
  <2>9. LinkSound(link', a, row, flaps)
    BY <1>1, <2>2, <2>4, <2>7, <2>8 DEF LinkSound
  <2>10. LinkSound(link, batch, Basis, flaps)'
    BY <2>3, <2>5, <2>9
  <2>11. PushType'
    BY <1>1, <2>2, <2>3, <2>4 DEF PInv, PushType
  <2>12. QED
    BY <1>2, <2>3, <2>4, <2>10, <2>11 DEF PInv, TakesTurns
<1>4. CASE Writes
  <2> DEFINE u == Head(batch)
             w == Upsert(u, work)
  <2>1. /\ open /\ batch # <<>> /\ work' = w /\ batch' = Tail(batch)
        /\ UNCHANGED <<thread, mute, flaps, link, open, row>>
    BY <1>4 DEF Writes
  <2>2. /\ u \in Updates /\ Tail(batch) \in Seq(Updates)
        /\ Ups(batch) = Ups(Tail(batch)) + (IF u = "up" THEN 1 ELSE 0)
        /\ Carries(batch) <=> IsTransition(u) \/ Carries(Tail(batch))
        /\ \A v \in Updates : EndsIn(batch, v) /\ IsTransition(v) =>
              IF Carries(Tail(batch)) THEN EndsIn(Tail(batch), v) ELSE u = v
    BY <1>1, <2>1, UpsTail, CarriesTail
  <2>3. /\ w \in Rows /\ TakesTurns(w)
        /\ work.connects <= w.connects
        /\ w.connects <= work.connects + (IF u = "up" THEN 1 ELSE 0)
        /\ w.state = IF IsTransition(u) THEN u ELSE work.state
    <3>1. TakesTurns(work)
      BY DEF PInv
    <3>2. QED
      BY <1>1, <2>2, <3>1, UpsertSound
  <2> HIDE DEF u, w
  <2>4. Basis = work /\ Basis' = w
    BY <2>1 DEF Basis
  <2>5. w.connects + Ups(Tail(batch)) + Ups(link.queue) + Owed(link) <= flaps
    <3>1. w.connects \in Nat /\ Ups(Tail(batch)) \in Nat
      BY <2>2, <2>3, UpsType DEF Rows
    <3>2. w.connects + Ups(Tail(batch)) <= work.connects + Ups(batch)
      BY <1>2, <2>2, <2>3, <3>1
    <3>3. work.connects + Ups(batch) + Ups(link.queue) + Owed(link) <= flaps
      BY <1>1, <2>4 DEF LinkSound
    <3>4. flaps \in Nat
      BY <1>1
    <3>5. QED
      BY <1>2, <3>1, <3>2, <3>3, <3>4
  <2>6. Arrives(link, Tail(batch), w)
    <3>1. link.latest # "none" => link.latest \in Updates /\ IsTransition(link.latest)
      BY <1>1 DEF States, Updates, IsTransition
    <3>2. Arrives(link, batch, work)
      BY <1>1, <2>4 DEF LinkSound
    <3>3. QED
      BY <2>2, <2>3, <3>1, <3>2 DEF Arrives
  <2>7. LinkSound(link, Tail(batch), w, flaps)
    BY <1>1, <2>5, <2>6 DEF LinkSound
  <2>8. LinkSound(link, batch, Basis, flaps)'
    BY <2>1, <2>4, <2>7
  <2>9. PushType'
    BY <1>1, <2>1, <2>2, <2>3 DEF PInv, PushType
  <2>10. row.connects <= w.connects
    <3>1. row.connects <= work.connects /\ w.connects \in Nat
      BY <2>1, <2>3 DEF PInv, Rows
    <3>2. QED
      BY <1>2, <2>3, <3>1
  <2>11. QED
    BY <2>1, <2>3, <2>8, <2>9, <2>10 DEF PInv, TakesTurns
<1>5. CASE Commits \/ ReplyIsLost
  <2>1. /\ open /\ batch = <<>> /\ row' = work /\ open' = FALSE
        /\ UNCHANGED <<thread, mute, flaps, link, batch, work>>
    BY <1>5 DEF Commits, ReplyIsLost
  <2>2. Basis = work /\ Basis' = work
    BY <2>1 DEF Basis
  <2>3. LinkSound(link, batch, Basis, flaps)'
    BY <1>1, <2>1, <2>2
  <2>4. PushType'
    BY <1>1, <2>1 DEF PInv, PushType
  <2>5. QED
    BY <2>1, <2>3, <2>4 DEF PInv, TakesTurns
<1>6. CASE BatchFails
  <2> DEFINE gone == (link.lost \/ Carries(batch) \/ work # row) /\ ~Carries(link.queue)
  <2>1. /\ open /\ link' = [link EXCEPT !.lost = gone]
        /\ open' = FALSE /\ batch' = <<>>
        /\ UNCHANGED <<thread, mute, flaps, work, row>>
    BY <1>6 DEF BatchFails
  <2>2. gone \in BOOLEAN
    BY <1>1
  <2> HIDE DEF gone
  <2>3. /\ link' \in Links /\ link'.queue = link.queue /\ link'.latest = link.latest
        /\ link'.delivered = link.delivered /\ link'.lost = gone
    BY <1>1, <2>1, <2>2 DEF Links
  <2>4. Basis = work /\ Basis' = row /\ row.connects <= work.connects
    BY <2>1 DEF Basis, PInv
  <2>5. row.connects + Ups(<<>>) + Ups(link.queue) + Owed(link') <= flaps
    <3>1. Owed(link') = Owed(link)
      BY <2>3 DEF Owed
    <3>2. work.connects + Ups(batch) + Ups(link.queue) + Owed(link) <= flaps
      BY <1>1, <2>4 DEF LinkSound
    <3>3. QED
      BY <1>1, <1>2, <2>4, <3>1, <3>2, UpsEmpty
  <2>6. Arrives(link', <<>>, row)
    <3>1. ~Carries(<<>>)
      BY DEF Carries
    <3>2. Arrives(link, batch, work) /\ (link.lost => ~Carries(link.queue))
      BY <1>1, <2>4 DEF LinkSound
    <3>3. QED
      BY <2>3, <3>1, <3>2 DEF Arrives, gone
  <2>7. link'.lost => ~Carries(link'.queue)
    BY <2>3 DEF gone
  <2>8. LinkSound(link', <<>>, row, flaps)
    BY <1>1, <2>3, <2>5, <2>6, <2>7 DEF LinkSound
  <2>9. LinkSound(link, batch, Basis, flaps)'
    BY <2>1, <2>4, <2>8
  <2>10. PushType'
    BY <1>1, <2>1, <2>3 DEF PInv, PushType
  <2>11. QED
    BY <2>1, <2>3, <2>9, <2>10 DEF PInv, TakesTurns
<1>7. QED
  BY <1>3, <1>4, <1>5, <1>6 DEF DrainNext

\* So does what happens to the process and the database.
LEMMA WorldStep ==
    ASSUME PushAssumption, PInv, WorldNext
    PROVE  PInv'
<1>1. CASE Emit
  BY <1>1, ThreadStep
<1>2. CASE DbFails \/ DbRecovers
  <2>1. UNCHANGED <<thread, link, open, batch, work, row, mute, flaps>>
    BY <1>2 DEF DbFails, DbRecovers, OfWorld
  <2>2. QED
    BY <2>1 DEF PInv, PushType, Basis, TakesTurns
<1>3. CASE Killed
  <2>1. /\ thread' = "connecting" /\ link' = Link0 /\ open' = FALSE /\ batch' = <<>>
        /\ UNCHANGED <<work, flaps>>
        /\ row' = row \/ (open /\ batch = <<>> /\ row' = work)
    BY <1>3 DEF Killed, OfWorld
  <2>2. row.connects <= flaps /\ (open => work.connects <= flaps)
    <3>1. /\ link.queue \in Seq(Updates) /\ batch \in Seq(Updates)
          /\ row.connects \in Nat /\ work.connects \in Nat /\ flaps \in Nat
      BY DEF PInv, PushType, Links, Rows
    <3>2. Ups(batch) \in Nat /\ Ups(link.queue) \in Nat /\ Owed(link) \in Nat
      BY <3>1, UpsType DEF Owed
    <3>3. Basis.connects + Ups(batch) + Ups(link.queue) + Owed(link) <= flaps
      BY DEF PInv, LinkSound
    <3>4. row.connects <= Basis.connects /\ (open => Basis = work)
      BY <3>1 DEF Basis, PInv
    <3>5. Basis.connects \in Nat
      BY <3>1 DEF Basis
    <3>6. QED
      BY <3>1, <3>2, <3>3, <3>4, <3>5
  <2>3. row' \in Rows /\ row'.connects <= flaps /\ TakesTurns(row')
    BY <2>1, <2>2 DEF PInv, PushType
  <2>4. Link0 \in Links /\ LinkSound(Link0, <<>>, row', flaps)
    BY <2>3, FreshLinkSound DEF PInv, PushType
  <2>5. LinkSound(link, batch, Basis, flaps)'
    BY <2>1, <2>4 DEF Basis
  <2>6. PushType'
    BY <2>1, <2>3, <2>4 DEF PInv, PushType, Updates
  <2>7. QED
    BY <2>1, <2>3, <2>5, <2>6 DEF PInv, TakesTurns
<1>4. QED
  BY <1>1, <1>2, <1>3 DEF WorldNext

\* Every step keeps it.
LEMMA PushStep ==
    ASSUME PushAssumption
    PROVE  PInv /\ [PushNext]_pvars => PInv'
<1> SUFFICES ASSUME PInv, [PushNext]_pvars PROVE PInv'
  OBVIOUS
<1>1. CASE PushNext
  BY <1>1, ThreadStep, DrainStep, WorldStep DEF PushNext
<1>2. CASE UNCHANGED pvars
  BY <1>2 DEF pvars, PInv, PushType, Basis, TakesTurns
<1>3. QED
  BY <1>1, <1>2

\* Whatever the channel refuses, the database drops or a crash cuts off: once nothing is
\* under way the row says what the reporter of liveness.rs last delivered, unless the batch
\* that carried it was dropped; a thread of fills.rs that ended with room for its last words
\* is not left shown as up; and the upsert of telemetry.rs counts no connection twice.
THEOREM PushLinksAreShown == PushSpec => []PushHealthIsSound
<1>1. PushInit => PInv
  BY PInvInit
<1>2. PInv /\ [PushNext]_pvars => PInv'
  BY PushAssumption, PushStep
<1>3. PInv => PushHealthIsSound
  BY InvariantGivesHealth
<1>4. QED
  BY <1>1, <1>2, <1>3, PTL DEF PushSpec

------------------------------------------------------------------------------
(* The feed hub: its invariant.                                             *)

\* What a venue, a snapshot and the cache hold, and what the tick has been told.
Prints    == [made : Nat, stamp : Int \cup {NoStamp}]
Snapshots == [given : Nat, prints : UNION {[S -> Prints] : S \in SUBSET Sources}]
Queues    == [queue : Seq(Snapshots), lagged : BOOLEAN]
Entries   == [made : Nat, stamp : Int \cup {NoStamp}, given : Nat, at : Nat,
              since : Nat \cup {None}]

FeedTypeOK ==
    /\ clock \in Nat /\ offset \in Offsets /\ roster \in Rosters
    /\ DOMAIN venue \subseteq roster /\ \A s \in DOMAIN venue : venue[s] \in Prints
    /\ channel \in [Tiers -> Queues]
    /\ DOMAIN hub \subseteq roster /\ \A s \in DOMAIN hub : hub[s] \in Entries
    /\ {answered, sent, started, ticked} \subseteq Nat \cup {None}
    /\ longest \in Nat /\ starts \in Nat

\* The sources whose every print says when it was made.
AlwaysStamped == Stamped \ {"frankfurter"}
Dated(s, p)   == s \in AlwaysStamped => p.stamp \in Int

\* What the tick knows is no later than now, and the store's last answer waited no longer than
\* a cycle.
TickedSince ==
    /\ started # None => started <= clock /\ ticked # None
    /\ ticked # None => ticked <= clock
    /\ answered # None => sent # None /\ sent <= answered /\ answered <= clock
                            /\ answered - sent <= longest

VenuesAreDated == \A s \in DOMAIN venue : Dated(s, venue[s])

\* A snapshot of the store has every row that was there before it was given, unless a later
\* one has replaced it.
ShowsTheRows(q) ==
    \A s \in DOMAIN venue \cap Store :
        venue[s].made < q.given => s \in DOMAIN q.prints /\ q.prints[s] = venue[s]

\* A snapshot still queued was given since the last tick.
QueuedSince(t) ==
    \A i \in DOMAIN channel[t].queue :
        LET q == channel[t].queue[i]
        IN  /\ ticked # None /\ ticked <= q.given /\ q.given <= clock
            /\ \A s \in DOMAIN q.prints : Dated(s, q.prints[s])
            /\ t = "store" => ShowsTheRows(q)

\* An entry waited no longer than a cycle, and what was found fresh was not far ahead of the
\* wall as it stood then.
EntryIsSound(s) ==
    LET e == hub[s]
    IN  /\ e.given <= e.at /\ e.at <= clock /\ e.at - e.given <= longest
        /\ Dated(s, e)
        /\ s \in AlwaysStamped /\ e.since # None =>
             \E o \in Offsets : e.stamp - (e.since + o) <= Skew(s)

\* The cache has the store's rows as the last answer had them.
RowsAreCached ==
    answered # None =>
        \A s \in DOMAIN venue \cap Store :
            venue[s].made < sent => /\ s \in DOMAIN hub
                                    /\ hub[s].made = venue[s].made /\ hub[s].stamp = venue[s].stamp
                                    /\ hub[s].at = answered

FeedInv ==
    /\ FeedTypeOK /\ TickedSince /\ VenuesAreDated
    /\ \A t \in Tiers : QueuedSince(t)
    /\ \A s \in DOMAIN hub : EntryIsSound(s)
    /\ RowsAreCached

------------------------------------------------------------------------------
(* Channels, and what a drain reads of them.                                *)

\* What is assumed of the constants, in the form the proofs use.
LEMMA ConstantsFit ==
    /\ {StaleTape, StaleReference, MaxVenueSkew, MaxPublicationSkew, MaxPythAge, MaxErapiAge,
        PublishInterval, MaxSilence, Grace, MaxStep} \subseteq Nat
    /\ \A r \in Rosters : r \subseteq Sources
    /\ Offsets \subseteq Int /\ Claims \subseteq Int
    /\ NoStamp \notin Int
BY FeedAssumption

\* The venues' prints of a tier make a snapshot.
LEMMA SnapshotFits ==
    ASSUME FeedTypeOK, NEW t \in Tiers
    PROVE  /\ Snapshot(t) \in Snapshots
           /\ Snapshot(t).given = clock
           /\ DOMAIN Snapshot(t).prints = {r \in DOMAIN venue : TierOf(r) = t}
           /\ \A s \in DOMAIN Snapshot(t).prints : Snapshot(t).prints[s] = venue[s]
<1> DEFINE S == {r \in DOMAIN venue : TierOf(r) = t}
           p == [s \in S |-> venue[s]]
<1>1. S \in SUBSET Sources
  BY ConstantsFit DEF FeedTypeOK
<1>2. p \in [S -> Prints]
  BY DEF FeedTypeOK
<1>3. p \in UNION {[R -> Prints] : R \in SUBSET Sources}
  BY <1>1, <1>2
<1>4. Snapshot(t) = [given |-> clock, prints |-> p]
  BY DEF Snapshot
<1> HIDE DEF p
<1>5. Snapshot(t) \in Snapshots
  BY <1>3, <1>4 DEF Snapshots, FeedTypeOK
<1>6. QED
  BY <1>4, <1>5 DEF p

\* A channel that has taken a snapshot holds it, and else only what it held.
LEMMA ForwardedFits ==
    ASSUME NEW c \in Queues, NEW x \in Snapshots
    PROVE  /\ Forwarded(c, x) \in Queues
           /\ \A i \in DOMAIN Forwarded(c, x).queue :
                 \/ Forwarded(c, x).queue[i] = x
                 \/ \E j \in DOMAIN c.queue : Forwarded(c, x).queue[i] = c.queue[j]
<1> DEFINE q == c.queue
<1>1. q \in Seq(Snapshots) /\ c = [queue |-> q, lagged |-> c.lagged] /\ c.lagged \in BOOLEAN
  BY DEF Queues
<1>2. CASE Len(q) < ChannelCap
  <2>1. Forwarded(c, x) = [queue |-> Append(q, x), lagged |-> c.lagged]
    BY <1>1, <1>2 DEF Forwarded
  <2>2. /\ Append(q, x) \in Seq(Snapshots)
        /\ \A i \in DOMAIN Append(q, x) :
              Append(q, x)[i] = x \/ \E j \in DOMAIN q : Append(q, x)[i] = q[j]
    BY <1>1
  <2>3. QED
    BY <1>1, <2>1, <2>2 DEF Queues
<1>3. CASE ~(Len(q) < ChannelCap)
  <2>1. Forwarded(c, x) = [queue |-> Append(Tail(q), x), lagged |-> TRUE]
    BY <1>1, <1>3 DEF Forwarded
  <2>2. q # << >>
    BY <1>1, <1>3, FeedAssumption
  <2>3. /\ Tail(q) \in Seq(Snapshots)
        /\ \A i \in DOMAIN Tail(q) : i + 1 \in DOMAIN q /\ Tail(q)[i] = q[i + 1]
    BY <1>1, <2>2
  <2>4. /\ Append(Tail(q), x) \in Seq(Snapshots)
        /\ \A i \in DOMAIN Append(Tail(q), x) :
              \/ Append(Tail(q), x)[i] = x
              \/ i \in DOMAIN Tail(q) /\ Append(Tail(q), x)[i] = Tail(q)[i]
    BY <2>3
  <2>5. QED
    BY <2>1, <2>3, <2>4 DEF Queues
<1>4. QED
  BY <1>2, <1>3

\* What is queued is a snapshot, given at some instant.
LEMMA QueuedFits ==
    ASSUME FeedTypeOK, NEW t \in Tiers, NEW i \in DOMAIN channel[t].queue
    PROVE  channel[t].queue[i] \in Snapshots /\ channel[t].queue[i].given \in Nat
<1>1. channel[t].queue \in Seq(Snapshots)
  BY DEF FeedTypeOK, Queues
<1>2. channel[t].queue[i] \in Snapshots
  BY <1>1
<1>3. QED
  BY <1>2 DEF Snapshots

\* A drain leaves nothing.
LEMMA NothingIsLeft ==
    ASSUME NEW c \in Queues
    PROVE  Left(c) = [queue |-> << >>, lagged |-> FALSE] /\ Left(c) \in Queues
<1>1. c.queue \in Seq(Snapshots)
  BY DEF Queues
<1>2. Len(c.queue) \in Int /\ Len(c.queue) + 1 \in Int /\ Len(c.queue) < Len(c.queue) + 1
  BY <1>1
<1>3. SubSeq(c.queue, Len(c.queue) + 1, Len(c.queue)) = << >>
  BY <1>2, SubSeqEmpty
<1>4. Left(c) = [queue |-> << >>, lagged |-> FALSE]
  BY <1>3 DEF Left, Drained
<1>5. << >> \in Seq(Snapshots)
  OBVIOUS
<1>6. QED
  BY <1>4, <1>5 DEF Queues

\* Of the snapshots that name a source, one is the last.
LEMMA LastNamingFits ==
    ASSUME NEW q \in Seq(Snapshots), NEW s, Naming(q, s) # {}
    PROVE  /\ LastNaming(q, s) \in Naming(q, s)
           /\ \A j \in Naming(q, s) : j <= LastNaming(q, s)
<1> DEFINE N == Naming(q, s)
           T == {Len(q) - i : i \in N}
<1>1. N \subseteq 1 .. Len(q) /\ Len(q) \in Nat
  BY DEF Naming
<1>2. T \subseteq Nat
  BY <1>1
<1>3. T # {}
  BY Zenon
<1>4. PICK x \in T : \A y \in T : ~(<<y, x>> \in OpToRel(<, Nat))
  BY <1>2, <1>3, NatLessThanWellFounded, WFMin
<1>5. \A y \in T : ~(y < x)
  BY <1>2, <1>4 DEF OpToRel
<1>6. PICK i \in N : x = Len(q) - i
  BY <1>4
<1>7. \A j \in N : j <= i
  <2>1. ASSUME NEW j \in N
        PROVE  j <= i
    <3>1. Len(q) - j \in T
      BY <2>1
    <3>2. ~(Len(q) - j < x)
      BY <1>5, <3>1
    <3>3. Len(q) \in Nat /\ i \in Nat /\ j \in Nat
      BY <1>1, <1>6, <2>1
    <3> HIDE DEF N, T
    <3>4. QED
      BY <1>6, <3>2, <3>3
  <2>2. QED
    BY <2>1
<1>8. QED
  BY <1>6, <1>7 DEF LastNaming

------------------------------------------------------------------------------
(* Ages.                                                                    *)

\* What an entry of the cache is made of.
LEMMA EntryFits ==
    ASSUME FeedTypeOK, NEW s \in DOMAIN hub, EntryIsSound(s)
    PROVE  /\ s \in roster /\ s \in Sources /\ hub[s] \in Entries
           /\ clock \in Nat /\ offset \in Int /\ Wall = clock + offset /\ longest \in Nat
           /\ Received(hub[s]) = clock - hub[s].at
           /\ {hub[s].given, hub[s].at} \subseteq Nat
           /\ s \in AlwaysStamped => hub[s].stamp \in Int
BY ConstantsFit DEF FeedTypeOK, Entries, EntryIsSound, Dated, Wall, Received

\* A fresh entry's age counts the time since it was received, and it is below its bound: the
\* cap on Pyth's, which could hide that time, is no fresh age.
LEMMA FreshIsReceived ==
    ASSUME FeedTypeOK, NEW s \in DOMAIN hub, EntryIsSound(s), Fresh(s)
    PROVE  /\ AgeOf(s, hub[s]) \in Int
           /\ Received(hub[s]) <= AgeOf(s, hub[s])
           /\ AgeOf(s, hub[s]) < StaleFor(s)
<1> DEFINE e == hub[s]
<1>1. /\ s \in Sources /\ e.at \in Nat /\ clock \in Nat /\ Wall \in Int
      /\ Received(e) = clock - e.at
      /\ s \in AlwaysStamped => e.stamp \in Int
      /\ e.stamp \in Int \cup {NoStamp}
  BY EntryFits DEF Entries
<1>2. AgeOf(s, e) < StaleFor(s)
  BY DEF Fresh, IsFresh
<1>3. {StaleTape, StaleReference, MaxPythAge, MaxVenueSkew, PublishInterval} \subseteq Nat
      /\ StaleTape <= MaxPythAge
  BY FeedAssumption
<1> HIDE DEF e
<1>4. CASE s = "pyth"
  <2>1. AgeOf(s, e) = PythAge(e)
    BY <1>4 DEF AgeOf
  <2>2. StaleFor(s) = StaleTape /\ e.stamp \in Int
    BY <1>1, <1>4 DEF StaleFor, Reference, Daily, AlwaysStamped, Stamped
  <2>3. QED
    BY <1>1, <1>2, <1>3, <2>1, <2>2 DEF PythAge, PublishedAge, Larger, e
<1>5. CASE s = "frankfurter"
  <2>1. AgeOf(s, e) = FrankfurterAge(e)
    BY <1>5 DEF AgeOf
  <2>2. QED
    BY <1>1, <1>2, <1>3, <2>1 DEF FrankfurterAge, AgedByBoth, PublishedAge, Larger, e
<1>6. CASE s \in Store \cup {"erapi"}
  <2>1. AgeOf(s, e) = AgedByBoth(e) /\ e.stamp \in Int
    BY <1>1, <1>6 DEF AgeOf, AlwaysStamped, Stamped, Store, Daily
  <2>2. QED
    BY <1>1, <1>2, <2>1 DEF AgedByBoth, PublishedAge, Larger, e
<1>7. CASE s \notin Store \cup {"erapi", "pyth", "frankfurter"}
  <2>1. AgeOf(s, e) = Received(e)
    BY <1>7 DEF AgeOf
  <2>2. QED
    BY <1>1, <1>2, <2>1 DEF e
<1>8. QED
  BY <1>4, <1>5, <1>6, <1>7

\* A fresh entry of a source that always says when is not far ahead of the wall, and was
\* published within its bound.
LEMMA FreshIsPublished ==
    ASSUME FeedTypeOK, NEW s \in AlwaysStamped, NEW e, e.stamp \in Int, e.at \in Nat, IsFresh(s, e)
    PROVE  /\ e.stamp - Wall <= Skew(s)
           /\ Wall - e.stamp < StaleFor(s)
<1>1. clock \in Nat /\ Wall \in Int /\ Received(e) \in Int
  BY ConstantsFit DEF FeedTypeOK, Wall, Received
<1>2. {StaleTape, StaleReference, MaxPythAge, MaxVenueSkew, MaxPublicationSkew, MaxErapiAge}
         \subseteq Nat
      /\ StaleTape <= MaxPythAge
  BY FeedAssumption
<1>3. CASE s = "pyth"
  <2>1. PythAge(e) < StaleTape /\ Skew(s) = MaxVenueSkew /\ StaleFor(s) = StaleTape
    BY <1>3 DEF IsFresh, AgeOf, StaleFor, Reference, Daily, Skew, Store
  <2>2. QED
    BY <1>1, <1>2, <2>1 DEF PythAge, PublishedAge, Larger
<1>4. CASE s \in Store
  <2>1. AgedByBoth(e) < StaleFor(s) /\ ~FutureStamped(e) /\ Skew(s) = MaxPublicationSkew
        /\ StaleFor(s) \in Nat
    BY <1>2, <1>4 DEF IsFresh, Offered, AgeOf, StaleFor, Skew, Store
  <2>2. QED
    BY <1>1, <1>2, <2>1 DEF AgedByBoth, PublishedAge, Larger, FutureStamped
<1>5. CASE s = "erapi"
  <2>1. AgedByBoth(e) < StaleFor(s) /\ ~ProviderStalled(e) /\ Skew(s) = MaxVenueSkew
        /\ StaleFor(s) \in Nat
    BY <1>2, <1>5 DEF IsFresh, Offered, AgeOf, StaleFor, Skew, Store
  <2>2. QED
    BY <1>1, <1>2, <2>1 DEF AgedByBoth, PublishedAge, Larger, ProviderStalled
<1>6. QED
  BY <1>3, <1>4, <1>5 DEF AlwaysStamped, Stamped, Daily

------------------------------------------------------------------------------
(* The five properties, in any state of the invariant.                      *)

\* Every age counts what was fetched, since an entry waited at most a cycle.
LEMMA HonestAges ==
    ASSUME FeedTypeOK, \A s \in DOMAIN hub : EntryIsSound(s)
    PROVE  AgesAreHonest
<1>1. ASSUME NEW s \in DOMAIN hub, Fresh(s)
      PROVE  Age(s) \in Int /\ clock - hub[s].given <= Age(s) + longest
  <2>1. /\ AgeOf(s, hub[s]) \in Int /\ clock - hub[s].at <= AgeOf(s, hub[s])
    BY <1>1, FreshIsReceived, EntryFits
  <2>2. hub[s].at - hub[s].given <= longest /\ {hub[s].at, hub[s].given, clock, longest} \subseteq Nat
    BY <1>1, EntryFits DEF EntryIsSound
  <2>3. QED
    BY <2>1, <2>2 DEF Age
<1>2. ASSUME KrakenFresh, NEW s \in FreshPegs \cup {"kraken"}
      PROVE  clock - hub[s].given <= ConvertedAge(OldestPeg) + longest
  <2>1. /\ FreshPegs # {} /\ "kraken" \in DOMAIN hub
        /\ ConvertedAge(OldestPeg) < StaleTape
    BY <1>2 DEF KrakenFresh, KrakenOffered, Cached
  <2>2. \A r \in FreshPegs : r \in DOMAIN hub /\ Fresh(r) /\ Age(r) \in Int
    BY <1>1 DEF FreshPegs, Fresh, Cached
  <2>3. \E a \in {Age(r) : r \in FreshPegs} : \A r \in FreshPegs : Age(r) <= a
    <3>1. FreshPegs \subseteq {"usdc@kraken", "usdc@coingecko"}
      BY DEF FreshPegs, PegSources
    <3>2. CASE FreshPegs = {"usdc@kraken", "usdc@coingecko"}
      BY <2>2, <3>2
    <3>3. CASE \E r \in FreshPegs : FreshPegs = {r}
      BY <2>2, <3>3
    <3>4. QED
      BY <2>1, <3>1, <3>2, <3>3
  <2>4. OldestPeg \in Int /\ \A r \in FreshPegs : Age(r) <= OldestPeg
    BY <2>2, <2>3 DEF OldestPeg
  <2>5. Age("kraken") = Received(hub["kraken"])
    BY DEF Age, AgeOf, Store
  <2>6. /\ Age("kraken") = clock - hub["kraken"].at
        /\ hub["kraken"].at - hub["kraken"].given <= longest
        /\ {hub["kraken"].at, hub["kraken"].given, clock, longest} \subseteq Nat
    BY <2>1, <2>5, EntryFits DEF EntryIsSound
  <2>7. CASE s = "kraken"
    BY <2>4, <2>6, <2>7 DEF ConvertedAge, Larger
  <2>8. CASE s \in FreshPegs
    <3>1. clock - hub[s].given <= Age(s) + longest /\ hub[s].given \in Nat /\ Age(s) \in Int
      BY <1>1, <2>2, <2>8, EntryFits
    <3>2. QED
      BY <2>4, <2>6, <2>8, <3>1 DEF ConvertedAge, Larger
  <2>9. QED
    BY <1>2, <2>7, <2>8
<1>3. QED
  BY <1>1, <1>2 DEF AgesAreHonest

\* What the tick knows of the store's last answer is a cycle old at most.
LEMMA SilenceHalts ==
    ASSUME FeedTypeOK, TickedSince
    PROVE  StoreSilenceHalts
BY ConstantsFit DEF FeedTypeOK, TickedSince, StoreSilenceHalts, StoreSilent

\* A guard that is armed lets a tape through only if a contributor is one, and is fresh.
LEMMA LivePairs ==
    ASSUME FeedTypeOK, \A s \in DOMAIN hub : EntryIsSound(s)
    PROVE  LivePairsRestOnTape
<1> SUFFICES ASSUME started # None, clock - started > Grace, NEW by \in Answers,
                    ~HaltsOnFeeds(TRUE, by)
             PROVE  \E s \in by : IsTapeSource(s) /\ clock - hub[s].given < StaleTape + longest
  BY DEF LivePairsRestOnTape
<1>1. TapeGuardArmed
  BY DEF TapeGuardArmed
<1>2. PICK s \in by : IsTapeSource(s)
  BY <1>1 DEF HaltsOnFeeds, TapeShortfall
<1>3. by \subseteq Heard
  BY DEF Answers
<1>4. Fresh(s) /\ s \in DOMAIN hub
  BY <1>3 DEF Heard, FreshTapes, FreshReferences, Fresh, Cached
<1>5. StaleFor(s) = StaleTape
  BY <1>2 DEF IsTapeSource, StaleFor, Reference, Daily
<1>6. /\ AgeOf(s, hub[s]) \in Int /\ Received(hub[s]) <= AgeOf(s, hub[s])
      /\ AgeOf(s, hub[s]) < StaleTape
  BY <1>4, <1>5, FreshIsReceived
<1>7. /\ Received(hub[s]) = clock - hub[s].at /\ hub[s].at - hub[s].given <= longest
      /\ {hub[s].at, hub[s].given, clock, longest} \subseteq Nat
  BY <1>4, EntryFits DEF EntryIsSound
<1>8. clock - hub[s].given < StaleTape + longest
  BY <1>6, <1>7, ConstantsFit
<1>9. QED
  BY <1>2, <1>8

\* A print found fresh before now is older now by the time that has passed, but for a step
\* of the wall.
LEMMA NoPrintStays ==
    ASSUME FeedTypeOK, \A s \in DOMAIN hub : EntryIsSound(s)
    PROVE  NoPrintStaysFresh
<1> SUFFICES ASSUME NEW s \in DOMAIN hub \cap AlwaysStamped, Fresh(s), hub[s].since # None
             PROVE  clock - hub[s].since < StaleFor(s) + Skew(s) + MaxStep
  BY DEF NoPrintStaysFresh, StopsBeingFresh, AlwaysStamped
<1> DEFINE e == hub[s]
<1>1. e.stamp \in Int /\ e.at \in Nat /\ e.since \in Nat /\ clock \in Nat /\ Wall = clock + offset
  BY EntryFits DEF Entries
<1>2. IsFresh(s, e)
  BY DEF Fresh
<1>3. Wall - e.stamp < StaleFor(s)
  BY <1>1, <1>2, FreshIsPublished
<1>4. PICK o \in Offsets : e.stamp - (e.since + o) <= Skew(s)
  BY DEF EntryIsSound
<1>5. offset \in Offsets /\ o \in Int /\ offset \in Int /\ o - offset <= MaxStep
  BY FeedAssumption DEF FeedTypeOK
<1>6. StaleFor(s) \in Nat /\ Skew(s) \in Nat /\ MaxStep \in Nat
  BY FeedAssumption DEF StaleFor, Skew
<1> HIDE DEF e
<1>7. clock - e.since < StaleFor(s) + Skew(s) + MaxStep
  BY <1>1, <1>3, <1>4, <1>5, <1>6
<1>8. QED
  BY <1>7 DEF e

\* A row of the store older than its last answer is in the cache, where it is fresh.
LEMMA TapesAreHeard ==
    ASSUME FeedInv
    PROVE  StoreTapesAreHeard
<1> SUFFICES ASSUME NEW s \in DOMAIN venue \cap {"oanda", "twelvedata"},
                    answered # None,
                    clock - venue[s].made > MaxSilence + longest,
                    Wall - venue[s].stamp < StaleTape,
                    venue[s].stamp - Wall <= MaxPublicationSkew,
                    ~StoreSilent
             PROVE  Heard \subseteq {r \in FxSources : IsTapeSource(r)}
  BY DEF StoreTapesAreHeard
<1>1. /\ FeedTypeOK /\ TickedSince /\ RowsAreCached /\ VenuesAreDated
      /\ \A r \in DOMAIN hub : EntryIsSound(r)
  BY DEF FeedInv
<1>2. s \in Store /\ s \in AlwaysStamped /\ StaleFor(s) = StaleTape /\ s \in FxSources \ Reference
  BY DEF Store, AlwaysStamped, Stamped, StaleFor, Reference, Daily, FxSources
<1>3. /\ clock - answered <= MaxSilence
      /\ {clock, answered, sent, longest, venue[s].made} \subseteq Nat
      /\ venue[s].stamp \in Int
  BY <1>1, <1>2, ConstantsFit
     DEF StoreSilent, FeedTypeOK, TickedSince, VenuesAreDated, Dated, Prints
<1>4. venue[s].made < sent
  BY <1>1, <1>3, ConstantsFit DEF TickedSince
<1>5. s \in DOMAIN hub /\ hub[s].stamp = venue[s].stamp /\ hub[s].at = answered
  BY <1>1, <1>2, <1>4 DEF RowsAreCached
<1>6. Wall \in Int /\ Received(hub[s]) <= MaxSilence /\ Received(hub[s]) \in Int
  BY <1>1, <1>3, <1>5, ConstantsFit DEF Wall, Received, FeedTypeOK
<1>7. Offered(s, hub[s])
  BY <1>2, <1>3, <1>5, <1>6, ConstantsFit DEF Offered, FutureStamped, Store, Daily
<1>8. AgeOf(s, hub[s]) = AgedByBoth(hub[s])
  BY <1>2 DEF AgeOf, Store
<1>9. AgedByBoth(hub[s]) < StaleTape
  BY <1>3, <1>5, <1>6, FeedAssumption DEF AgedByBoth, PublishedAge, Larger
<1>10. Fresh(s)
  BY <1>2, <1>5, <1>7, <1>8, <1>9 DEF Fresh, Cached, IsFresh
<1>11. Heard = FreshTapes
  BY <1>2, <1>10 DEF Heard, FreshTapes
<1>12. FxSources \ Reference = {"pyth", "oanda", "twelvedata"}
  BY DEF FxSources, Reference, Store, Daily
<1>13. QED
  BY <1>11, <1>12 DEF FreshTapes, IsTapeSource

------------------------------------------------------------------------------
(* The invariant, step by step.                                             *)

\* Nothing is queued, cached or answered at first.
LEMMA FeedInvHoldsFirst == FeedInit => FeedInv
<1> SUFFICES ASSUME FeedInit
             PROVE  FeedInv
  OBVIOUS
<1>1. << >> \in Seq(Snapshots) /\ DOMAIN << >> = {}
  OBVIOUS
<1>2. Nothing \in [Tiers -> Queues] /\ \A t \in Tiers : DOMAIN Nothing[t].queue = {}
  BY <1>1 DEF Nothing, Queues
<1>3. FeedTypeOK
  BY <1>1, <1>2 DEF FeedInit, FeedTypeOK
<1>4. TickedSince /\ VenuesAreDated /\ RowsAreCached
  BY <1>1 DEF FeedInit, TickedSince, VenuesAreDated, RowsAreCached
<1>5. \A t \in Tiers : QueuedSince(t)
  BY <1>2 DEF FeedInit, QueuedSince
<1>6. \A s \in DOMAIN hub : EntryIsSound(s)
  BY <1>1 DEF FeedInit
<1>7. QED
  BY <1>3, <1>4, <1>5, <1>6 DEF FeedInv

\* What a venue answers is new, or what it answered before, and its stamps are dated.
LEMMA PublishFits ==
    ASSUME FeedInv, NEW s \in Sources, Publish(s)
    PROVE  /\ DOMAIN venue' = DOMAIN venue \cup {s} /\ s \in roster
           /\ \A r \in DOMAIN venue : r # s => venue'[r] = venue[r]
           /\ venue'[s] \in Prints /\ Dated(s, venue'[s])
           /\ venue'[s].made = clock \/ (s \in DOMAIN venue /\ venue'[s] = venue[s])
<1>1. PICK stamp \in StampsOf(s) :
         venue' = [r \in DOMAIN venue \cup {s} |->
                     IF r = s THEN Shown(s, [made |-> clock, stamp |-> stamp]) ELSE venue[r]]
  BY DEF Publish
<1>2. clock \in Nat /\ Wall \in Int /\ Claims \subseteq Int
  BY ConstantsFit DEF FeedInv, FeedTypeOK, Wall
<1>3. stamp \in Int \cup {NoStamp} /\ (s \in AlwaysStamped => stamp \in Int)
  BY <1>2 DEF StampsOf, AlwaysStamped
<1> DEFINE p == [made |-> clock, stamp |-> stamp]
<1>4. p \in Prints /\ Dated(s, p) /\ p.made = clock
  BY <1>2, <1>3 DEF Prints, Dated
<1>5. venue'[s] = p \/ (s \in DOMAIN venue /\ venue'[s] = venue[s])
  BY <1>1 DEF Shown
<1>6. s \in DOMAIN venue => venue[s] \in Prints /\ Dated(s, venue[s])
  BY DEF FeedInv, FeedTypeOK, VenuesAreDated
<1>7. s \in roster
  BY DEF Publish
<1> HIDE DEF p
<1>8. QED
  BY <1>1, <1>4, <1>5, <1>6, <1>7

\* A new print is later than every snapshot queued, so none of them had to show it.
LEMMA PublishKeeps ==
    ASSUME FeedInv, NEW s \in Sources, Publish(s)
    PROVE  FeedInv'
<1>1. UNCHANGED <<clock, offset, roster, channel, hub, answered, sent, started, ticked,
                  longest, starts>>
  BY DEF Publish
<1>2. /\ FeedTypeOK /\ TickedSince /\ VenuesAreDated /\ RowsAreCached
      /\ \A t \in Tiers : QueuedSince(t)
      /\ \A r \in DOMAIN hub : EntryIsSound(r)
  BY DEF FeedInv
<1>3. FeedTypeOK'
  BY <1>1, <1>2, PublishFits DEF FeedTypeOK
<1>4. TickedSince'
  BY <1>1, <1>2 DEF TickedSince
<1>5. VenuesAreDated'
  BY <1>2, PublishFits DEF VenuesAreDated, Dated
<1>6. \A t \in Tiers : QueuedSince(t)'
  <2> SUFFICES ASSUME NEW t \in Tiers, NEW i \in DOMAIN channel[t].queue
               PROVE  LET q == channel[t].queue[i]
                      IN  /\ ticked # None /\ ticked <= q.given /\ q.given <= clock
                          /\ \A r \in DOMAIN q.prints : Dated(r, q.prints[r])
                          /\ t = "store" => ShowsTheRows(q)'
    BY <1>1 DEF QueuedSince, ShowsTheRows, Dated
  <2> DEFINE q == channel[t].queue[i]
  <2>1. /\ ticked # None /\ ticked <= q.given /\ q.given <= clock
        /\ \A r \in DOMAIN q.prints : Dated(r, q.prints[r])
        /\ t = "store" => ShowsTheRows(q)
    BY <1>2 DEF QueuedSince
  <2>2. q.given \in Nat /\ clock \in Nat
    BY <1>2, QueuedFits DEF FeedTypeOK
  <2> HIDE DEF q
  <2>3. ASSUME t = "store", NEW r \in DOMAIN venue' \cap Store, venue'[r].made < q.given
        PROVE  r \in DOMAIN q.prints /\ q.prints[r] = venue'[r]
    <3>1. venue'[r].made # clock
      BY <2>1, <2>2, <2>3
    <3>2. r \in DOMAIN venue /\ venue'[r] = venue[r]
      BY <2>3, <3>1, PublishFits
    <3>3. QED
      BY <2>1, <2>3, <3>2 DEF ShowsTheRows
  <2>4. t = "store" => ShowsTheRows(q)'
    BY <1>1, <2>3 DEF ShowsTheRows, q
  <2>5. QED
    BY <2>1, <2>4 DEF q
<1>7. \A r \in DOMAIN hub' : EntryIsSound(r)'
  BY <1>1, <1>2 DEF EntryIsSound, Dated
<1>8. RowsAreCached'
  <2> SUFFICES ASSUME answered # None, NEW r \in DOMAIN venue' \cap Store, venue'[r].made < sent
               PROVE  /\ r \in DOMAIN hub /\ hub[r].made = venue'[r].made
                      /\ hub[r].stamp = venue'[r].stamp /\ hub[r].at = answered
    BY <1>1 DEF RowsAreCached
  <2>1. sent <= clock /\ sent \in Nat /\ clock \in Nat
    BY <1>2 DEF TickedSince, FeedTypeOK
  <2>2. venue'[r].made # clock
    BY <2>1
  <2>3. r \in DOMAIN venue /\ venue'[r] = venue[r]
    BY <2>2, PublishFits
  <2>4. QED
    BY <1>2, <2>3 DEF RowsAreCached
<1>9. QED
  BY <1>3, <1>4, <1>5, <1>6, <1>7, <1>8 DEF FeedInv

\* A poll queues what the venues answer now, which is later than the last tick.
LEMMA PollKeeps ==
    ASSUME FeedInv, NEW t \in Tiers, Poll(t)
    PROVE  FeedInv'
<1>1. UNCHANGED <<clock, offset, roster, venue, hub, answered, sent, started, ticked,
                  longest, starts>>
      /\ started # None
      /\ channel' = [channel EXCEPT ![t] = Forwarded(channel[t], Snapshot(t))]
  BY DEF Poll
<1>2. /\ FeedTypeOK /\ TickedSince /\ VenuesAreDated /\ RowsAreCached
      /\ \A u \in Tiers : QueuedSince(u)
      /\ \A r \in DOMAIN hub : EntryIsSound(r)
  BY DEF FeedInv
<1> DEFINE x == Snapshot(t)
           q == Forwarded(channel[t], x)
<1>3. x \in Snapshots /\ channel[t] \in Queues /\ channel \in [Tiers -> Queues]
  BY <1>2, SnapshotFits DEF FeedTypeOK
<1>4. /\ q \in Queues
      /\ \A i \in DOMAIN q.queue :
            q.queue[i] = x \/ \E j \in DOMAIN channel[t].queue : q.queue[i] = channel[t].queue[j]
  BY <1>3, ForwardedFits
<1>5. /\ channel'[t] = q /\ channel' \in [Tiers -> Queues]
      /\ \A u \in Tiers \ {t} : channel'[u] = channel[u]
  <2> HIDE DEF q
  <2>1. channel' = [channel EXCEPT ![t] = q]
    BY <1>1 DEF q
  <2>2. QED
    BY <1>3, <1>4, <2>1
<1>6. /\ ticked # None /\ ticked <= x.given /\ x.given <= clock
      /\ \A r \in DOMAIN x.prints : Dated(r, x.prints[r])
  BY <1>1, <1>2, SnapshotFits DEF TickedSince, VenuesAreDated, FeedTypeOK
<1>7. t = "store" => ShowsTheRows(x)
  <2>1. \A s \in Store : TierOf(s) = "store"
    BY DEF TierOf
  <2>2. QED
    BY <1>2, <2>1, SnapshotFits DEF ShowsTheRows
<1>8. \A u \in Tiers : QueuedSince(u)'
  <2> SUFFICES ASSUME NEW u \in Tiers, NEW i \in DOMAIN channel'[u].queue
               PROVE  LET y == channel'[u].queue[i]
                      IN  /\ ticked # None /\ ticked <= y.given /\ y.given <= clock
                          /\ \A r \in DOMAIN y.prints : Dated(r, y.prints[r])
                          /\ u = "store" => ShowsTheRows(y)
    BY <1>1 DEF QueuedSince, ShowsTheRows, Dated
  <2> HIDE DEF q, x
  <2>1. CASE u = t /\ channel'[u].queue[i] = x
    BY <1>6, <1>7, <2>1
  <2>2. CASE \E j \in DOMAIN channel[u].queue : channel'[u].queue[i] = channel[u].queue[j]
    BY <1>2, <2>2 DEF QueuedSince
  <2>3. QED
    BY <1>4, <1>5, <2>1, <2>2
<1>9. FeedTypeOK'
  BY <1>1, <1>2, <1>5 DEF FeedTypeOK
<1>10. TickedSince' /\ VenuesAreDated' /\ RowsAreCached'
  BY <1>1, <1>2 DEF TickedSince, VenuesAreDated, RowsAreCached, Dated
<1>11. \A r \in DOMAIN hub' : EntryIsSound(r)'
  BY <1>1, <1>2 DEF EntryIsSound, Dated
<1>12. QED
  BY <1>8, <1>9, <1>10, <1>11 DEF FeedInv

\* A process that starts knows nothing.
LEMMA StartKeeps ==
    ASSUME FeedInv, Start
    PROVE  FeedInv'
<1>1. << >> \in Seq(Snapshots) /\ DOMAIN << >> = {}
  OBVIOUS
<1>2. Nothing \in [Tiers -> Queues] /\ \A t \in Tiers : DOMAIN Nothing[t].queue = {}
  BY <1>1 DEF Nothing, Queues
<1>3. FeedTypeOK'
  BY <1>1, <1>2 DEF Start, FeedInv, FeedTypeOK
<1>4. TickedSince' /\ VenuesAreDated' /\ RowsAreCached'
  BY <1>1 DEF FeedInv, FeedTypeOK, Start, TickedSince, VenuesAreDated, RowsAreCached, Dated
<1>5. \A t \in Tiers : QueuedSince(t)'
  BY <1>2 DEF Start, QueuedSince
<1>6. \A s \in DOMAIN hub' : EntryIsSound(s)'
  BY <1>1 DEF Start
<1>7. QED
  BY <1>3, <1>4, <1>5, <1>6 DEF FeedInv

\* Time makes nothing in the cache later than now; what was fresh had its own wall.
LEMMA TimeKeeps ==
    ASSUME FeedInv, Pass \/ WallIsSet
    PROVE  FeedInv'
<1>1. UNCHANGED <<roster, venue, channel, hub, answered, sent, started, ticked, longest, starts>>
      /\ clock \in Nat /\ clock' \in Nat /\ clock <= clock' /\ offset' \in Offsets
  BY DEF Pass, WallIsSet, FeedInv, FeedTypeOK
<1>2. /\ FeedTypeOK /\ TickedSince /\ VenuesAreDated /\ RowsAreCached
      /\ \A u \in Tiers : QueuedSince(u)
      /\ \A r \in DOMAIN hub : EntryIsSound(r)
  BY DEF FeedInv
<1>3. FeedTypeOK'
  BY <1>1, <1>2 DEF FeedTypeOK
<1>4. TickedSince' /\ VenuesAreDated' /\ RowsAreCached'
  BY <1>1, <1>2 DEF FeedTypeOK, TickedSince, VenuesAreDated, RowsAreCached, Dated
<1>5. \A t \in Tiers : QueuedSince(t)'
  <2> SUFFICES ASSUME NEW t \in Tiers, NEW i \in DOMAIN channel[t].queue
               PROVE  channel[t].queue[i].given <= clock'
    BY <1>1, <1>2 DEF QueuedSince, ShowsTheRows, Dated
  <2>1. channel[t].queue[i].given \in Nat /\ channel[t].queue[i].given <= clock
    BY <1>2, QueuedFits DEF QueuedSince
  <2>2. QED
    BY <1>1, <2>1
<1>6. \A s \in DOMAIN hub' : EntryIsSound(s)'
  <2> SUFFICES ASSUME NEW s \in DOMAIN hub
               PROVE  EntryIsSound(s)'
    BY <1>1
  <2>1. EntryIsSound(s) /\ hub[s].at \in Nat
    BY <1>2 DEF FeedTypeOK, Entries
  <2>2. QED
    BY <1>1, <2>1 DEF EntryIsSound, Dated
<1>7. QED
  BY <1>3, <1>4, <1>5, <1>6 DEF FeedInv

\* What the tick reads of a source is an entry of the cache, or one it makes of a snapshot
\* given since the last tick.
LEMMA ReadFits ==
    ASSUME FeedInv, started # None, NEW s \in roster,
           Cached(s) \/ Naming(Drained(channel[TierOf(s)]), s) # {}
    PROVE  /\ Read(s) \in Entries /\ Dated(s, Read(s))
           /\ Read(s).given <= Read(s).at /\ Read(s).at <= clock
           /\ Read(s).at - Read(s).given <= Larger(longest, clock - ticked)
<1> DEFINE q == Drained(channel[TierOf(s)])
<1>1. s \in Sources /\ TierOf(s) \in Tiers
  <2>1. s \in Sources
    BY ConstantsFit DEF FeedInv, FeedTypeOK
  <2>2. QED
    BY <2>1 DEF Sources, FxSources, PegSources, Store, Daily, Tiers, TierOf
<1>2. /\ FeedTypeOK /\ TickedSince /\ QueuedSince(TierOf(s))
      /\ \A r \in DOMAIN hub : EntryIsSound(r)
  BY <1>1 DEF FeedInv
<1>3. clock \in Nat /\ ticked \in Nat /\ ticked <= clock /\ longest \in Nat
  BY <1>2 DEF FeedTypeOK, TickedSince
<1>4. CASE Naming(q, s) = {}
  <2>1. Read(s) = hub[s] /\ s \in DOMAIN hub
    BY <1>4 DEF Read, Cached
  <2>2. EntryIsSound(s) /\ hub[s] \in Entries
    BY <1>2, <2>1 DEF FeedTypeOK
  <2>3. hub[s].at \in Nat /\ hub[s].given \in Nat
    BY <2>2 DEF Entries
  <2>4. QED
    BY <1>3, <2>1, <2>2, <2>3 DEF EntryIsSound, Larger
<1>5. CASE Naming(q, s) # {}
  <2> DEFINE i == LastNaming(q, s)
             x == q[i]
  <2>1. q = channel[TierOf(s)].queue /\ q \in Seq(Snapshots)
    BY <1>1, <1>2 DEF Drained, FeedTypeOK, Queues
  <2>2. i \in Naming(q, s)
    BY <1>5, <2>1, LastNamingFits
  <2>3. i \in DOMAIN q /\ s \in DOMAIN x.prints
    BY <2>2 DEF Naming
  <2>4. x \in Snapshots
    BY <2>1, <2>3
  <2>5. x.prints[s] \in Prints /\ x.given \in Nat
    <3>1. x.given \in Nat /\ x.prints \in UNION {[S -> Prints] : S \in SUBSET Sources}
      BY <2>4 DEF Snapshots
    <3>2. PICK S \in SUBSET Sources : x.prints \in [S -> Prints]
      BY <3>1
    <3>3. QED
      BY <2>3, <3>1, <3>2
  <2>6. ticked <= x.given /\ x.given <= clock /\ Dated(s, x.prints[s])
    BY <1>2, <2>1, <2>3 DEF QueuedSince
  <2>7. Read(s) = [made |-> x.prints[s].made, stamp |-> x.prints[s].stamp,
                   given |-> x.given, at |-> clock, since |-> None]
    BY <1>5 DEF Read
  <2> HIDE DEF x
  <2>8. Read(s) \in Entries
    BY <1>3, <2>5, <2>7 DEF Entries, Prints
  <2>9. QED
    BY <1>3, <2>5, <2>6, <2>7, <2>8 DEF Dated, Larger
<1>6. QED
  BY <1>4, <1>5

\* The entry the tick caches is the one it read, and if it counts as fresh, its stamp was not
\* far ahead of the wall when it first did.
LEMMA CachedFits ==
    ASSUME FeedInv, started # None, NEW s \in roster,
           Cached(s) \/ Naming(Drained(channel[TierOf(s)]), s) # {},
           NEW e, e = [Read(s) EXCEPT !.since = Since(s, Read(s))]
    PROVE  /\ e \in Entries /\ Dated(s, e)
           /\ e.given <= e.at /\ e.at <= clock
           /\ e.at - e.given <= Larger(longest, clock - ticked)
           /\ s \in AlwaysStamped /\ e.since # None =>
                \E o \in Offsets : e.stamp - (e.since + o) <= Skew(s)
<1> DEFINE r == Read(s)
<1>1. /\ r \in Entries /\ Dated(s, r) /\ r.given <= r.at /\ r.at <= clock
      /\ r.at - r.given <= Larger(longest, clock - ticked)
  BY ReadFits
<1>2. FeedTypeOK /\ clock \in Nat /\ offset \in Offsets /\ offset \in Int
  BY ConstantsFit DEF FeedInv, FeedTypeOK
<1>3. Known(s, r) => /\ s \in DOMAIN hub /\ EntryIsSound(s) /\ hub[s] \in Entries
                     /\ hub[s].stamp = r.stamp /\ Since(s, r) = hub[s].since
  BY DEF Known, Cached, Since, FeedInv, FeedTypeOK
<1>4. ~Known(s, r) => Since(s, r) = None \/ (Since(s, r) = clock /\ IsFresh(s, r))
  BY DEF Since
<1> HIDE DEF r
<1>5. Since(s, r) \in Nat \cup {None}
  BY <1>2, <1>3, <1>4 DEF Entries
<1>6. /\ e \in Entries /\ e.since = Since(s, r)
      /\ e.made = r.made /\ e.stamp = r.stamp /\ e.given = r.given /\ e.at = r.at
  BY <1>1, <1>5 DEF Entries, r
<1>7. ASSUME s \in AlwaysStamped, e.since # None
      PROVE  \E o \in Offsets : e.stamp - (e.since + o) <= Skew(s)
  <2>1. CASE Known(s, r)
    BY <1>3, <1>6, <1>7, <2>1 DEF EntryIsSound
  <2>2. CASE ~Known(s, r)
    <3>1. Since(s, r) = clock /\ IsFresh(s, r)
      BY <1>4, <1>6, <1>7, <2>2
    <3>2. r.stamp \in Int /\ r.at \in Nat
      BY <1>1, <1>7 DEF Dated, Entries
    <3>3. r.stamp - Wall <= Skew(s)
      BY <1>2, <1>7, <3>1, <3>2, FreshIsPublished
    <3>4. e.stamp - (e.since + offset) <= Skew(s)
      BY <1>6, <3>1, <3>3 DEF Wall
    <3>5. QED
      BY <1>2, <3>4
  <2>3. QED
    BY <2>1, <2>2
<1>8. QED
  BY <1>1, <1>6, <1>7 DEF Dated

\* What a drain of the store's channel tells of a row that was there when the last answer was
\* given.
LEMMA LastAnswerShows ==
    ASSUME FeedInv, channel["store"].queue # << >>,
           NEW s \in DOMAIN venue \cap Store,
           venue[s].made < channel["store"].queue[Len(channel["store"].queue)].given
    PROVE  /\ s \in roster /\ Naming(Drained(channel[TierOf(s)]), s) # {}
           /\ Read(s).made = venue[s].made /\ Read(s).stamp = venue[s].stamp
           /\ Read(s).at = clock
<1> DEFINE q == channel["store"].queue
           n == Len(q)
<1>1. TierOf(s) = "store" /\ "store" \in Tiers
  BY DEF TierOf, Tiers
<1>2. FeedTypeOK /\ QueuedSince("store") /\ q \in Seq(Snapshots) /\ s \in roster
  BY <1>1 DEF FeedInv, FeedTypeOK, Queues
<1>3. n \in DOMAIN q /\ \A j \in DOMAIN q : j \in Nat /\ j <= n
  BY <1>2
<1>4. s \in DOMAIN q[n].prints /\ q[n].prints[s] = venue[s]
  BY <1>2, <1>3 DEF QueuedSince, ShowsTheRows
<1>5. n \in Naming(q, s) /\ Naming(q, s) \subseteq DOMAIN q
  BY <1>3, <1>4 DEF Naming
<1>6. LastNaming(q, s) \in Naming(q, s) /\ n <= LastNaming(q, s)
  BY <1>2, <1>5, LastNamingFits
<1>7. LastNaming(q, s) = n
  BY <1>3, <1>5, <1>6
<1>8. Drained(channel[TierOf(s)]) = q
  BY <1>1 DEF Drained
<1> HIDE DEF q, n
<1>9. Read(s) = [made |-> q[n].prints[s].made, stamp |-> q[n].prints[s].stamp,
                 given |-> q[n].given, at |-> clock, since |-> None]
  BY <1>5, <1>7, <1>8 DEF Read
<1>10. QED
  BY <1>2, <1>4, <1>5, <1>8, <1>9

\* The tick caches what was queued, no older than the cycle that ends with it.
LEMMA TickKeeps ==
    ASSUME FeedInv, Tick
    PROVE  FeedInv'
<1> DEFINE q == channel["store"].queue
           Kept == {r \in roster : Cached(r) \/ Naming(Drained(channel[TierOf(r)]), r) # {}}
<1>1. /\ UNCHANGED <<clock, offset, roster, venue, started, starts>>
      /\ started # None
      /\ hub' = [s \in Kept |-> [Read(s) EXCEPT !.since = Since(s, Read(s))]]
      /\ answered' = AnsweredBy(q)
      /\ sent' = IF q = << >> THEN sent ELSE q[Len(q)].given
      /\ channel' = [t \in Tiers |-> Left(channel[t])]
      /\ longest' = Larger(longest, clock - ticked) /\ ticked' = clock
  BY DEF Tick, Drained
<1>2. /\ FeedTypeOK /\ TickedSince /\ VenuesAreDated /\ RowsAreCached
      /\ \A u \in Tiers : QueuedSince(u)
      /\ \A r \in DOMAIN hub : EntryIsSound(r)
  BY DEF FeedInv
<1>3. clock \in Nat /\ ticked \in Nat /\ ticked <= clock /\ started \in Nat /\ started <= clock
      /\ longest \in Nat
  BY <1>1, <1>2 DEF FeedTypeOK, TickedSince
<1>4. longest' \in Nat /\ longest <= longest' /\ clock - ticked <= longest'
  BY <1>1, <1>3 DEF Larger
<1>5. /\ channel' \in [Tiers -> Queues]
      /\ \A t \in Tiers : DOMAIN channel'[t].queue = {}
  <2>1. \A t \in Tiers : Left(channel[t]) = [queue |-> << >>, lagged |-> FALSE]
                         /\ Left(channel[t]) \in Queues
    BY <1>2, NothingIsLeft DEF FeedTypeOK
  <2>2. QED
    BY <1>1, <2>1
<1>6. DOMAIN hub' = Kept /\ Kept \subseteq roster
  BY <1>1
<1>7. ASSUME NEW s \in DOMAIN hub'
      PROVE  /\ hub'[s] \in Entries /\ Dated(s, hub'[s])
             /\ hub'[s].given <= hub'[s].at /\ hub'[s].at <= clock
             /\ hub'[s].at - hub'[s].given <= longest'
             /\ s \in AlwaysStamped /\ hub'[s].since # None =>
                  \E o \in Offsets : hub'[s].stamp - (hub'[s].since + o) <= Skew(s)
  <2>1. /\ s \in roster /\ hub'[s] = [Read(s) EXCEPT !.since = Since(s, Read(s))]
        /\ Cached(s) \/ Naming(Drained(channel[TierOf(s)]), s) # {}
    BY <1>1, <1>6, <1>7
  <2>2. QED
    BY <1>1, <2>1, CachedFits
<1>8. q # << >> => /\ q[Len(q)].given \in Nat /\ ticked <= q[Len(q)].given
                   /\ q[Len(q)].given <= clock
  <2> SUFFICES ASSUME q # << >>
               PROVE  /\ q[Len(q)].given \in Nat /\ ticked <= q[Len(q)].given
                      /\ q[Len(q)].given <= clock
    OBVIOUS
  <2>1. "store" \in Tiers
    BY DEF Tiers
  <2>2. q \in Seq(Snapshots)
    BY <1>2, <2>1 DEF FeedTypeOK, Queues
  <2>3. Len(q) \in DOMAIN q
    BY <2>2
  <2>4. QED
    BY <1>2, <2>1, <2>3, QueuedFits DEF QueuedSince
<1> HIDE DEF q, Kept
<1>9. FeedTypeOK'
  <2>1. {answered', sent', started', ticked'} \subseteq Nat \cup {None}
    BY <1>1, <1>2, <1>3, <1>8 DEF FeedTypeOK, AnsweredBy
  <2>2. DOMAIN hub' \subseteq roster' /\ \A s \in DOMAIN hub' : hub'[s] \in Entries
    BY <1>1, <1>6, <1>7
  <2>3. QED
    BY <1>1, <1>2, <1>4, <1>5, <2>1, <2>2 DEF FeedTypeOK
<1>10. TickedSince'
  <2>1. CASE q = << >>
    <3>1. answered' = answered /\ sent' = sent
      BY <1>1, <2>1 DEF AnsweredBy
    <3>2. {answered, sent} \subseteq Nat \cup {None}
      BY <1>2 DEF FeedTypeOK
    <3>3. QED
      BY <1>1, <1>2, <1>3, <1>4, <3>1, <3>2 DEF TickedSince, None
  <2>2. CASE q # << >>
    <3>1. answered' = clock /\ sent' = q[Len(q)].given
      BY <1>1, <2>2 DEF AnsweredBy
    <3>2. QED
      BY <1>1, <1>3, <1>4, <1>8, <2>2, <3>1 DEF TickedSince, None
  <2>3. QED
    BY <2>1, <2>2
<1>11. VenuesAreDated'
  BY <1>1, <1>2 DEF VenuesAreDated, Dated
<1>12. \A t \in Tiers : QueuedSince(t)'
  BY <1>5 DEF QueuedSince
<1>13. \A s \in DOMAIN hub' : EntryIsSound(s)'
  BY <1>1, <1>7 DEF EntryIsSound, Dated
<1>14. RowsAreCached'
  <2> SUFFICES ASSUME answered' # None, NEW s \in DOMAIN venue \cap Store,
                      venue[s].made < sent'
               PROVE  /\ s \in DOMAIN hub' /\ hub'[s].made = venue[s].made
                      /\ hub'[s].stamp = venue[s].stamp /\ hub'[s].at = answered'
    BY <1>1 DEF RowsAreCached
  <2>1. s \in roster
    BY <1>2 DEF FeedTypeOK
  <2>2. ASSUME Cached(s) \/ Naming(Drained(channel[TierOf(s)]), s) # {}
        PROVE  /\ s \in DOMAIN hub' /\ hub'[s].made = Read(s).made
               /\ hub'[s].stamp = Read(s).stamp /\ hub'[s].at = Read(s).at
    <3>1. s \in Kept
      BY <2>1, <2>2 DEF Kept
    <3>2. hub'[s] = [Read(s) EXCEPT !.since = Since(s, Read(s))] /\ s \in DOMAIN hub'
      BY <1>1, <3>1
    <3>3. Read(s) \in Entries
      BY <1>1, <2>1, <2>2, ReadFits
    <3>4. QED
      BY <3>2, <3>3 DEF Entries
  <2>3. CASE q = << >>
    <3>1. answered' = answered /\ sent' = sent
      BY <1>1, <2>3 DEF AnsweredBy
    <3>2. /\ s \in DOMAIN hub /\ hub[s].made = venue[s].made /\ hub[s].stamp = venue[s].stamp
          /\ hub[s].at = answered
      BY <1>2, <3>1 DEF RowsAreCached
    <3>3. TierOf(s) = "store"
      BY DEF TierOf
    <3>4. Naming(Drained(channel[TierOf(s)]), s) = {}
      BY <2>3, <3>3 DEF Naming, Drained, q
    <3>5. Read(s) = hub[s]
      BY <3>4 DEF Read
    <3>6. QED
      BY <2>2, <3>1, <3>2, <3>5 DEF Cached
  <2>4. CASE q # << >>
    <3>1. answered' = clock /\ sent' = q[Len(q)].given
      BY <1>1, <2>4 DEF AnsweredBy
    <3>2. /\ Naming(Drained(channel[TierOf(s)]), s) # {}
          /\ Read(s).made = venue[s].made /\ Read(s).stamp = venue[s].stamp
          /\ Read(s).at = clock
      BY <2>4, <3>1, LastAnswerShows DEF q
    <3>3. QED
      BY <2>2, <3>1, <3>2
  <2>5. QED
    BY <2>3, <2>4
<1>15. QED
  BY <1>9, <1>10, <1>11, <1>12, <1>13, <1>14 DEF FeedInv

\* The invariant holds in every behaviour.
LEMMA FeedInvHolds == FeedSpec => []FeedInv
<1>1. FeedInv /\ [FeedNext]_fvars => FeedInv'
  <2> SUFFICES ASSUME FeedInv, [FeedNext]_fvars
               PROVE  FeedInv'
    OBVIOUS
  <2>1. ASSUME NEW s \in Sources, Publish(s)
        PROVE  FeedInv'
    BY <2>1, PublishKeeps
  <2>2. ASSUME NEW t \in Tiers, Poll(t)
        PROVE  FeedInv'
    BY <2>2, PollKeeps
  <2>3. CASE Tick
    BY <2>3, TickKeeps
  <2>4. CASE Start
    BY <2>4, StartKeeps
  <2>5. CASE Pass \/ WallIsSet
    BY <2>5, TimeKeeps
  <2>6. CASE UNCHANGED fvars
    BY <2>6
       DEF fvars, FeedInv, FeedTypeOK, TickedSince, VenuesAreDated, QueuedSince, ShowsTheRows,
           EntryIsSound, RowsAreCached, Dated
  <2>7. QED
    BY <2>1, <2>2, <2>3, <2>4, <2>5, <2>6 DEF FeedNext
<1>2. QED
  BY <1>1, FeedInvHoldsFirst, PTL DEF FeedSpec

------------------------------------------------------------------------------

\* main.rs and tasks.rs: a store that has not answered within the bound halts every market,
\* whatever its channel still holds when the tick looks.
THEOREM SilentStoreHalts == FeedSpec => []StoreSilenceHalts
<1>1. FeedInv => StoreSilenceHalts
  BY SilenceHalts DEF FeedInv
<1>2. QED
  BY <1>1, FeedInvHolds, PTL

\* tasks.rs tape_shortfall: once the grace is over, no leg that must have a live tape is
\* quoted without a tape read within the bound, of whichever contributors consensus names.
THEOREM LivePairsHaveTapes == FeedSpec => []LivePairsRestOnTape
<1>1. FeedInv => LivePairsRestOnTape
  BY LivePairs DEF FeedInv
<1>2. QED
  BY <1>1, FeedInvHolds, PTL

\* fx_store.rs MAX_STORE_SILENCE: the bound is inside the staleness of a tape, so a market
\* never falls through to a fix while the store holds a fresh row of a tape.
THEOREM TapesOfTheStoreAreHeard == FeedSpec => []StoreTapesAreHeard
<1>1. FeedInv => StoreTapesAreHeard
  BY TapesAreHeard
<1>2. QED
  BY <1>1, FeedInvHolds, PTL

\* tasks.rs pyth_reading and erapi_provider_stalled, fx_store.rs future_stamped: no print of
\* a source that always says when stays fresh, whatever it claims and however the wall is set.
THEOREM FrozenPrintsExpire == FeedSpec => []NoPrintStaysFresh
<1>1. FeedInv => NoPrintStaysFresh
  BY NoPrintStays DEF FeedInv
<1>2. QED
  BY <1>1, FeedInvHolds, PTL

\* tasks.rs, the readings: an age is never younger than the fetch it stands for, a converted
\* price's never younger than either fetch it stands for.
THEOREM FeedAgesAreHonest == FeedSpec => []AgesAreHonest
<1>1. FeedInv => AgesAreHonest
  BY HonestAges DEF FeedInv
<1>2. QED
  BY <1>1, FeedInvHolds, PTL

\* The guards of the tick (tasks.rs): a silent store, a leg without a tape, a tape lost from
\* sight. Whatever is lost, queued or restarted, none of them lets a market be quoted.
THEOREM FeedGuardsAlwaysHold == FeedSpec => []FeedGuardsHold
  BY SilentStoreHalts, LivePairsHaveTapes, TapesOfTheStoreAreHeard, PTL DEF FeedGuardsHold

\* The ages of tasks.rs and fx_store.rs: no reading passes for a younger one, whatever its
\* stamp claims, however often it is fetched and however the wall is set.
THEOREM FeedAgesAlwaysHold == FeedSpec => []FeedAgesHold
  BY FrozenPrintsExpire, FeedAgesAreHonest, PTL DEF FeedAgesHold

------------------------------------------------------------------------------
(* Teardown.                                                                *)

\* What a step can be, of a market's task and of any, and the type of the state.
MarketStep(p) == [op : {"depositor", "leader", "treasury", "market"}, pair : {p},
                  who : Owners \cup {"base", "quote", "leader", "all"}]
RegistryStep  == [op : {"fee_vault", "registry"}, pair : {"none"}, who : {"all"}]
AnyStep       == {s \in [op : {"depositor", "leader", "treasury", "market", "fee_vault", "registry"},
                        pair : Pairs \cup {"none"},
                        who : Owners \cup {"base", "quote", "leader", "all"}] :
                   s \in RegistryStep \/ \E p \in Pairs : s \in MarketStep(p)}
TdState       == [markets : [Pairs -> Market \cup {Gone}], registry : BOOLEAN, feeVault : BOOLEAN,
                  plan : Seq(Seq(AnyStep)), run : {"none", "running", "failed", "complete"},
                  whole : BOOLEAN, sink : Nat, stranded : Nat, faults : Nat, joins : Nat]

\* What is left of the task of a market, and of the registry's: its fee vault is closed first.
MarketTask(x, p) ==
    x \in Seq(MarketStep(p)) /\ x # <<>> /\ x[Len(x)] = Step("market", p, "all")
RegistryTask(x, kept) ==
    x = TeardownRegistry \/ (x = Tail(TeardownRegistry) /\ ~kept)
Task(x, kept) == (\E p \in Pairs : MarketTask(x, p)) \/ RegistryTask(x, kept)

\* A run that saw everything still has in its plan whatever is not yet closed, and the
\* registry outlives the markets and its fee vault.
NothingForgotten ==
    td.run = "running" /\ td.whole =>
       /\ \A p \in Live : \E i \in DOMAIN td.plan : MarketTask(td.plan[i], p)
       /\ td.registry => \E i \in DOMAIN td.plan : RegistryTask(td.plan[i], td.feeVault)
RegistryIsLast == ~td.registry => NoMarkets /\ ~td.feeVault
TeardownInv ==
    /\ td \in TdState
    /\ \A i \in DOMAIN td.plan : Task(td.plan[i], td.feeVault)
    /\ NothingForgotten /\ RegistryIsLast /\ CompleteMeansGone

\* A finite set as a sequence: all of it, and nothing else.
LEMMA SetToSeqIs ==
    ASSUME NEW S, IsFiniteSet(S)
    PROVE  SetToSeq(S) \in Seq(S) /\ \A x \in S : \E i \in DOMAIN SetToSeq(S) : SetToSeq(S)[i] = x
<1> DEFINE n == Cardinality(S)
           q == SetToSeq(S)
<1>1. n \in Nat /\ IsFiniteSet(1 .. n) /\ Cardinality(1 .. n) = n
  BY FS_CardinalityType, FS_Interval
<1>2. \E f \in [1 .. n -> S] : IsInjective(f)
  BY FS_CardinalityType DEF ExistsBijection, Bijection, Injection
<1>3. q \in [1 .. n -> S] /\ IsInjective(q)
  <2> DEFINE P(f) == IsInjective(f)
  <2>1. \E f \in [1 .. n -> S] : P(f)
    BY <1>2
  <2>2. q = CHOOSE f \in [1 .. n -> S] : P(f)
    BY DEF SetToSeq
  <2> HIDE DEF P, q
  <2>3. q \in [1 .. n -> S] /\ P(q)
    BY <2>1, <2>2
  <2>4. QED
    BY <2>3 DEF P
<1>4. q \in Injection(1 .. n, S)
  BY <1>3 DEF Injection
<1>5. q \in Surjection(1 .. n, S)
  BY <1>1, <1>4, FS_Injection
<1>6. \A x \in S : \E i \in 1 .. n : q[i] = x
  BY <1>5 DEF Surjection
<1> HIDE DEF q, n
<1>7. q \in Seq(S) /\ DOMAIN q = 1 .. n
  BY <1>1, <1>3, IsASeq
<1>8. QED
  BY <1>6, <1>7 DEF q

\* So is what is made of each element of one.
LEMMA StepsAre ==
    ASSUME NEW p, NEW S \in SUBSET Owners
    PROVE  Steps("depositor", p, S) \in Seq(MarketStep(p))
<1> DEFINE T == {Step("depositor", p, x) : x \in S}
           f == [x \in S |-> Step("depositor", p, x)]
<1>1. IsFiniteSet(S)
  BY TeardownAssumption, FS_Subset
<1>2. f \in Surjection(S, T)
  BY DEF Surjection
<1>3. IsFiniteSet(T)
  BY <1>1, <1>2, FS_Surjection
<1>4. T \subseteq MarketStep(p)
  BY DEF Step, MarketStep
<1> HIDE DEF T
<1>5. SetToSeq(T) \in Seq(T)
  BY <1>3, SetToSeqIs
<1>6. SetToSeq(T) \in Seq(MarketStep(p))
  BY <1>4, <1>5, SeqMonotonic
<1>7. QED
  BY <1>6 DEF Steps, T

\* The task of a market closes it in the end.
LEMMA TeardownMarketIs ==
    ASSUME td \in TdState, NEW p \in Live
    PROVE  MarketTask(TeardownMarket(p), p) /\ TeardownMarket(p) \in Seq(AnyStep)
<1> DEFINE A == Steps("depositor", p, td.markets[p].owners)
           B == Leader(p)
           C == Treasuries(p)
           z == Step("market", p, "all")
           x == A \o B \o C \o <<z>>
           M == MarketStep(p)
<1>1. p \in Pairs /\ td.markets[p] \in Market
  BY DEF Live, Exists, TdState
<1>2. A \in Seq(M)
  BY <1>1, StepsAre DEF Market
<1>3. z \in M /\ Step("leader", p, "leader") \in M
      /\ Step("treasury", p, "base") \in M /\ Step("treasury", p, "quote") \in M
  BY DEF Step, MarketStep
<1>4. B \in Seq(M) /\ C \in Seq(M)
  <2> HIDE DEF M
  <2>1. QED
    BY <1>3 DEF Leader, Treasuries
<1> HIDE DEF A, B, C, z, M
<1>5. x \in Seq(M) /\ x # <<>> /\ x[Len(x)] = z
  <2>1. A \o B \o C \in Seq(M)
    BY <1>2, <1>4
  <2> DEFINE y == A \o B \o C
  <2> HIDE DEF y
  <2>2. y \in Seq(M)
    BY <2>1 DEF y
  <2>3. y \o <<z>> \in Seq(M) /\ y \o <<z>> # <<>> /\ (y \o <<z>>)[Len(y \o <<z>>)] = z
    BY <1>3, <2>2
  <2>4. QED
    BY <2>3 DEF y
<1>6. x = TeardownMarket(p)
  BY DEF TeardownMarket, A, B, C, z
<1>7. M \subseteq AnyStep
  BY <1>1 DEF AnyStep, M, MarketStep
<1> HIDE DEF x
<1>8. x \in Seq(AnyStep)
  BY <1>5, <1>7, SeqMonotonic
<1>9. QED
  BY <1>5, <1>6, <1>8 DEF MarketTask, M, z

\* A step the program accepts: what it closes is gone, and nothing else is touched that the
\* plan is about.
LEMMA DoneKeeps ==
    ASSUME td \in TdState, NEW t \in TdState, t.markets = td.markets, NEW s \in AnyStep, Accepted(s)
    PROVE  /\ Done(s, t) \in TdState
           /\ Done(s, t).plan = t.plan /\ Done(s, t).run = t.run /\ Done(s, t).whole = t.whole
           /\ \A p \in Pairs : Done(s, t).markets[p] = Gone
                                 <=> t.markets[p] = Gone \/ (s.op = "market" /\ p = s.pair)
           /\ Done(s, t).registry <=> (t.registry /\ s.op # "registry")
           /\ Done(s, t).feeVault <=> (t.feeVault /\ s.op # "fee_vault")
<1>1. CASE s \in RegistryStep
  <2>1. CASE s.op = "fee_vault"
    <3> DEFINE n == t.sink + 1
               u == [t EXCEPT !.feeVault = FALSE, !.sink = n]
    <3>0. n \in Nat
      BY DEF TdState
    <3>1. Done(s, t) = u
      BY <2>1 DEF Done
    <3>2. /\ u \in TdState /\ u.plan = t.plan /\ u.run = t.run /\ u.whole = t.whole
          /\ u.markets = t.markets /\ ~u.feeVault /\ u.registry = t.registry
      <4> HIDE DEF n
      <4>1. QED
        BY <3>0 DEF TdState
    <3> HIDE DEF u
    <3>3. QED
      BY <2>1, <3>1, <3>2 DEF TdState
  <2>2. CASE s.op = "registry"
    <3> DEFINE n == t.sink + 1
               u == [t EXCEPT !.registry = FALSE, !.sink = n]
    <3>0. n \in Nat
      BY DEF TdState
    <3>1. Done(s, t) = u
      BY <2>2 DEF Done
    <3>2. /\ u \in TdState /\ u.plan = t.plan /\ u.run = t.run /\ u.whole = t.whole
          /\ u.markets = t.markets /\ ~u.registry /\ u.feeVault = t.feeVault
      <4> HIDE DEF n
      <4>1. QED
        BY <3>0 DEF TdState
    <3> HIDE DEF u
    <3>3. QED
      BY <2>2, <3>1, <3>2 DEF TdState
  <2>3. QED
    BY <1>1, <2>1, <2>2 DEF RegistryStep
<1>2. ASSUME NEW p \in Pairs, s \in MarketStep(p)
      PROVE  /\ Done(s, t) \in TdState
             /\ Done(s, t).plan = t.plan /\ Done(s, t).run = t.run /\ Done(s, t).whole = t.whole
             /\ \A k \in Pairs : Done(s, t).markets[k] = Gone
                                   <=> t.markets[k] = Gone \/ (s.op = "market" /\ k = s.pair)
             /\ Done(s, t).registry <=> (t.registry /\ s.op # "registry")
             /\ Done(s, t).feeVault <=> (t.feeVault /\ s.op # "fee_vault")
  <2>1. s.pair = p /\ s.op \in {"depositor", "leader", "treasury", "market"}
    BY <1>2 DEF MarketStep
  <2>2. t.markets[p] \in Market /\ t.markets[p] # Gone
    <3>1. td.markets[p] # Gone
      BY <2>1 DEF Accepted
    <3>2. QED
      BY <3>1 DEF TdState
  <2>3. /\ WithoutOwner(t.markets[p], s.who) \in Market
        /\ WithoutLeader(t.markets[p]) \in Market
        /\ [t.markets[p] EXCEPT !.treasuries = @ \ {s.who}] \in Market
    BY <2>2 DEF Market, WithoutOwner, WithoutLeader
  <2> DEFINE v == IF s.op = "depositor" THEN WithoutOwner(t.markets[p], s.who)
                  ELSE IF s.op = "leader" THEN WithoutLeader(t.markets[p])
                  ELSE IF s.op = "treasury" THEN [t.markets[p] EXCEPT !.treasuries = @ \ {s.who}]
                  ELSE Gone
             n == IF s.op \in {"treasury", "market"} THEN t.sink + 1 ELSE t.sink
             u == [t EXCEPT !.markets = [t.markets EXCEPT ![p] = v], !.sink = n]
  <2>4. v \in Market \cup {Gone} /\ (v = Gone <=> s.op = "market")
    BY <2>1, <2>3, GoneAssumption
  <2>5. n \in Nat
    BY DEF TdState
  <2>6. Done(s, t) = u
    <3>1. CASE s.op = "depositor"
      BY <2>1, <3>1 DEF Done, TdState
    <3>2. CASE s.op = "leader"
      BY <2>1, <3>2 DEF Done, TdState
    <3>3. CASE s.op = "treasury"
      BY <2>1, <3>3 DEF Done, TdState
    <3>4. CASE s.op = "market"
      BY <2>1, <3>4 DEF Done, TdState
    <3>5. QED
      BY <2>1, <3>1, <3>2, <3>3, <3>4
  <2> HIDE DEF v, n
  <2>7. /\ u \in TdState /\ u.plan = t.plan /\ u.run = t.run /\ u.whole = t.whole
        /\ u.registry = t.registry /\ u.feeVault = t.feeVault
        /\ \A k \in Pairs : u.markets[k] = IF k = p THEN v ELSE t.markets[k]
    BY <2>4, <2>5 DEF TdState
  <2> HIDE DEF u
  <2>8. QED
    BY <2>1, <2>2, <2>4, <2>6, <2>7 DEF TdState
<1>3. s \in RegistryStep \/ \E p \in Pairs : s \in MarketStep(p)
  BY DEF AnyStep
<1>4. QED
  BY <1>1, <1>2, <1>3

\* What is left of a plan after its first step.
LEMMA RemainingIs ==
    ASSUME td \in TdState, td.plan # <<>>, \A i \in DOMAIN td.plan : Task(td.plan[i], td.feeVault)
    PROVE  LET q == td.plan
               x == q[1]
               r == Remaining
           IN  /\ 1 \in DOMAIN q /\ x \in Seq(AnyStep) /\ x # <<>> /\ NextStep = x[1] /\ x[1] \in AnyStep
               /\ r \in Seq(Seq(AnyStep))
               /\ Len(x) = 1 => /\ \A i \in DOMAIN r : i + 1 \in DOMAIN q /\ r[i] = q[i + 1]
                                /\ \A i \in DOMAIN q : i # 1 => i - 1 \in DOMAIN r /\ r[i - 1] = q[i]
               /\ Len(x) # 1 => /\ DOMAIN r = DOMAIN q /\ r[1] = Tail(x)
                                /\ \A i \in DOMAIN q : i # 1 => r[i] = q[i]
<1> DEFINE q == td.plan
           x == q[1]
           S == Seq(AnyStep)
<1>1. q \in Seq(S) /\ q # <<>>
  BY DEF TdState
<1>2. Task(q[1], td.feeVault)
  BY <1>1
<1>3. x # <<>>
  BY <1>2 DEF Task, MarketTask, RegistryTask, TeardownRegistry
<1> HIDE DEF S, q
<1>4. 1 \in DOMAIN q /\ x \in S /\ Head(q) = x /\ Tail(q) \in Seq(S) /\ Len(q) \in Nat
  BY <1>1
<1>5. Remaining = IF Len(x) = 1 THEN Tail(q) ELSE <<Tail(x)>> \o Tail(q)
  BY <1>4 DEF Remaining, q
<1>6. Head(x) = x[1] /\ x[1] \in AnyStep /\ Tail(x) \in S
  BY <1>3, <1>4 DEF S
<1>7. /\ \A i \in DOMAIN Tail(q) : i + 1 \in DOMAIN q /\ Tail(q)[i] = q[i + 1]
      /\ \A i \in DOMAIN q : i # 1 => i - 1 \in DOMAIN Tail(q) /\ Tail(q)[i - 1] = q[i]
  BY <1>1
<1> HIDE DEF x
<1>8. /\ <<Tail(x)>> \o Tail(q) \in Seq(S) /\ DOMAIN (<<Tail(x)>> \o Tail(q)) = DOMAIN q
      /\ (<<Tail(x)>> \o Tail(q))[1] = Tail(x)
      /\ \A i \in DOMAIN q : i # 1 => (<<Tail(x)>> \o Tail(q))[i] = q[i]
  BY <1>1, <1>6
<1>9. NextStep = x[1]
  BY <1>4, <1>6 DEF NextStep, q, x
<1>10. QED
  BY <1>3, <1>4, <1>5, <1>6, <1>7, <1>8, <1>9 DEF S, q, x

\* The first step of a task, and the task without it.
LEMMA TaskSteps ==
    ASSUME NEW x, NEW kept, Task(x, kept)
    PROVE  /\ x[1].op = "registry" => Len(x) = 1 /\ ~kept
           /\ Len(x) = 1 /\ RegistryTask(x, kept) => x[1].op = "registry"
           /\ \A p \in Pairs : MarketTask(x, p) =>
                 /\ Len(x) = 1 => x[1] = Step("market", p, "all")
                 /\ Len(x) # 1 => MarketTask(Tail(x), p)
           /\ \A shut : Len(x) # 1 /\ RegistryTask(x, kept) /\ (shut => x[1].op # "fee_vault")
                 => RegistryTask(Tail(x), shut)
<1>1. ASSUME NEW p \in Pairs, MarketTask(x, p)
      PROVE  /\ x[1].op \in {"depositor", "leader", "treasury", "market"}
             /\ Len(x) = 1 => x[1] = Step("market", p, "all")
             /\ Len(x) # 1 => MarketTask(Tail(x), p)
  <2> DEFINE M == MarketStep(p)
             z == Step("market", p, "all")
  <2>1. x \in Seq(M) /\ x # <<>> /\ x[Len(x)] = z
    BY <1>1 DEF MarketTask
  <2>2. x[1] \in M
    <3> HIDE DEF M
    <3>1. QED
      BY <2>1
  <2>3. Len(x) # 1 => Tail(x) \in Seq(M) /\ Tail(x) # <<>> /\ Tail(x)[Len(Tail(x))] = z
    <3> HIDE DEF M, z
    <3>1. ASSUME Len(x) # 1
          PROVE  Tail(x) \in Seq(M) /\ Tail(x) # <<>> /\ Tail(x)[Len(Tail(x))] = z
      <4>1. x \in Seq(M) /\ x # <<>> /\ x[Len(x)] = z
        BY <2>1
      <4>2. Len(x) \in Nat /\ Len(x) # 0
        BY <4>1, EmptySeq, LenProperties
      <4>3. Len(x) >= 2
        <5>1. \A n \in Nat : n # 0 /\ n # 1 => n >= 2
          OBVIOUS
        <5>2. QED
          BY <3>1, <4>2, <5>1
      <4>4. Tail(x) \in Seq(M) /\ Len(Tail(x)) = Len(x) - 1
        BY <4>1
      <4>5. Tail(x)[Len(x) - 1] = x[Len(x)]
        BY <4>1, <4>3
      <4>6. Tail(x) # <<>>
        <5>1. \A n \in Nat : n >= 2 => n - 1 # 0
          OBVIOUS
        <5>2. Len(Tail(x)) # 0
          BY <4>2, <4>3, <4>4, <5>1
        <5>3. QED
          BY <4>4, <5>2, EmptySeq
      <4>7. QED
        BY <4>1, <4>4, <4>5, <4>6
    <3>2. QED
      BY <3>1
  <2>4. QED
    BY <2>1, <2>2, <2>3 DEF MarketTask, MarketStep
<1>2. ASSUME RegistryTask(x, kept)
      PROVE  /\ x[1].op = "registry" => Len(x) = 1 /\ ~kept
             /\ Len(x) = 1 => x[1].op = "registry"
             /\ Len(x) # 1 => x[1].op = "fee_vault" /\ Tail(x) = Tail(TeardownRegistry)
  <2> DEFINE a == Step("fee_vault", "none", "all")
             b == Step("registry", "none", "all")
  <2>1. a.op = "fee_vault" /\ b.op = "registry"
    BY DEF Step
  <2>2. TeardownRegistry = <<a, b>>
    BY DEF TeardownRegistry
  <2> HIDE DEF a, b
  <2>3. CASE x = <<a, b>>
    BY <2>1, <2>2, <2>3
  <2>4. CASE x = Tail(<<a, b>>) /\ ~kept
    <3>1. x = <<b>>
      BY <2>4
    <3>2. QED
      BY <2>1, <2>4, <3>1
  <2>5. QED
    BY <1>2, <2>2, <2>3, <2>4 DEF RegistryTask
<1>3. ASSUME NEW p \in Pairs, MarketTask(x, p), RegistryTask(x, kept)
      PROVE  FALSE
  <2>1. x[1].op \in {"depositor", "leader", "treasury", "market"}
    BY <1>1, <1>3
  <2>2. x[1].op \in {"fee_vault", "registry"}
    BY <1>2, <1>3
  <2>3. QED
    BY <2>1, <2>2
<1>4. QED
  BY <1>1, <1>2, <1>3 DEF Task, RegistryTask

\* A step the program accepts leaves nothing behind that is not still in the plan.
LEMMA SendKeeps ==
    ASSUME TeardownInv, td.run = "running", td.plan # <<>>, Accepted(NextStep),
           td' = [Done(NextStep, td) EXCEPT !.plan = Remaining]
    PROVE  TeardownInv'
<1> DEFINE q == td.plan
           x == q[1]
           s == x[1]
           r == Remaining
           u == Done(s, td)
<1>1. td \in TdState /\ \A i \in DOMAIN q : Task(q[i], td.feeVault)
  BY DEF TeardownInv
<1>2. /\ 1 \in DOMAIN q /\ x \in Seq(AnyStep) /\ x # <<>> /\ NextStep = s /\ s \in AnyStep
      /\ r \in Seq(Seq(AnyStep))
      /\ Len(x) = 1 => /\ \A i \in DOMAIN r : i + 1 \in DOMAIN q /\ r[i] = q[i + 1]
                       /\ \A i \in DOMAIN q : i # 1 => i - 1 \in DOMAIN r /\ r[i - 1] = q[i]
      /\ Len(x) # 1 => /\ DOMAIN r = DOMAIN q /\ r[1] = Tail(x)
                       /\ \A i \in DOMAIN q : i # 1 => r[i] = q[i]
  BY <1>1, RemainingIs
<1> HIDE DEF r, x, s
<1>3. /\ u \in TdState /\ u.plan = td.plan /\ u.run = td.run /\ u.whole = td.whole
      /\ \A p \in Pairs : u.markets[p] = Gone <=> td.markets[p] = Gone \/ (s.op = "market" /\ p = s.pair)
      /\ u.registry <=> (td.registry /\ s.op # "registry")
      /\ u.feeVault <=> (td.feeVault /\ s.op # "fee_vault")
  BY <1>1, <1>2, DoneKeeps
<1>4. td' = [u EXCEPT !.plan = r]
  BY <1>2 DEF r
<1> HIDE DEF u
<1>5. /\ td' \in TdState /\ td'.plan = r /\ td'.run = "running" /\ td'.whole = td.whole
      /\ \A p \in Pairs : td'.markets[p] = Gone <=> td.markets[p] = Gone \/ (s.op = "market" /\ p = s.pair)
      /\ td'.registry <=> (td.registry /\ s.op # "registry")
      /\ td'.feeVault <=> (td.feeVault /\ s.op # "fee_vault")
  <2>1. u \in TdState /\ r \in Seq(Seq(AnyStep))
    BY <1>2, <1>3
  <2>2. /\ td' \in TdState /\ td'.plan = r /\ td'.run = u.run /\ td'.whole = u.whole
        /\ td'.markets = u.markets /\ td'.registry = u.registry /\ td'.feeVault = u.feeVault
    BY <1>4, <2>1 DEF TdState
  <2>3. QED
    BY <1>3, <2>2
<1>6. Task(x, td.feeVault)
  BY <1>1, <1>2 DEF x
<1>7. \A y : Task(y, td.feeVault) => Task(y, td'.feeVault)
  BY <1>5 DEF Task, RegistryTask
<1>8. \A p \in Pairs : MarketTask(x, p) =>
         /\ Len(x) = 1 => s.op = "market" /\ s.pair = p
         /\ Len(x) # 1 => MarketTask(Tail(x), p)
  <2>1. \A p \in Pairs : MarketTask(x, p) =>
           /\ Len(x) = 1 => x[1] = Step("market", p, "all")
           /\ Len(x) # 1 => MarketTask(Tail(x), p)
    BY <1>6, TaskSteps
  <2>2. s = x[1] /\ \A p : Step("market", p, "all").op = "market" /\ Step("market", p, "all").pair = p
    BY DEF s, Step
  <2>3. QED
    BY <2>1, <2>2
<1>9. RegistryTask(x, td.feeVault) =>
         /\ Len(x) = 1 => s.op = "registry"
         /\ Len(x) # 1 => RegistryTask(Tail(x), td'.feeVault)
  <2>1. td'.feeVault => s.op # "fee_vault"
    BY <1>5
  <2>2. QED
    BY <1>6, <2>1, TaskSteps DEF s
<1>10. (\A i \in DOMAIN r : Task(r[i], td'.feeVault))
  <2>1. CASE Len(x) = 1
    BY <1>1, <1>2, <1>7, <2>1
  <2>2. CASE Len(x) # 1
    <3>1. Task(Tail(x), td'.feeVault)
      BY <1>6, <1>8, <1>9, <2>2 DEF Task
    <3>2. QED
      BY <1>1, <1>2, <1>7, <2>2, <3>1
  <2>3. QED
    BY <2>1, <2>2
<1>11. NothingForgotten'
  <2> SUFFICES ASSUME td.whole
               PROVE  /\ \A p \in Live' : \E i \in DOMAIN r : MarketTask(r[i], p)
                      /\ td'.registry => \E i \in DOMAIN r : RegistryTask(r[i], td'.feeVault)
    BY <1>5 DEF NothingForgotten
  <2>1. /\ \A p \in Live : \E i \in DOMAIN q : MarketTask(q[i], p)
        /\ td.registry => \E i \in DOMAIN q : RegistryTask(q[i], td.feeVault)
    BY DEF TeardownInv, NothingForgotten
  <2>2. ASSUME NEW p \in Live'
        PROVE  \E i \in DOMAIN r : MarketTask(r[i], p)
    <3>1. p \in Live /\ p \in Pairs /\ ~(s.op = "market" /\ s.pair = p)
      BY <1>5, <2>2 DEF Live, Exists
    <3>2. PICK i \in DOMAIN q : MarketTask(q[i], p)
      BY <2>1, <3>1
    <3>3. CASE i = 1
      BY <1>2, <1>8, <3>1, <3>2, <3>3 DEF x
    <3>4. CASE i # 1
      BY <1>2, <3>2, <3>4
    <3>5. QED
      BY <3>3, <3>4
  <2>3. ASSUME td'.registry
        PROVE  \E i \in DOMAIN r : RegistryTask(r[i], td'.feeVault)
    <3>1. td.registry /\ s.op # "registry"
      BY <1>5, <2>3
    <3>2. PICK i \in DOMAIN q : RegistryTask(q[i], td.feeVault)
      BY <2>1, <3>1
    <3>3. CASE i = 1
      BY <1>2, <1>9, <3>1, <3>2, <3>3 DEF x
    <3>4. CASE i # 1
      <4>1. RegistryTask(q[i], td'.feeVault)
        BY <1>5, <3>2 DEF RegistryTask
      <4>2. QED
        BY <1>2, <3>4, <4>1
    <3>5. QED
      BY <3>3, <3>4
  <2>4. QED
    BY <2>2, <2>3
<1>12. RegistryIsLast'
  <2>1. CASE ~td.registry
    BY <1>5, <2>1 DEF TeardownInv, RegistryIsLast, NoMarkets, Exists
  <2>2. CASE s.op = "registry"
    <3>1. NoMarkets
      BY <1>2, <2>2 DEF Accepted
    <3>2. ~td.feeVault
      BY <1>6, <2>2, TaskSteps DEF s
    <3>3. QED
      BY <1>5, <3>1, <3>2 DEF RegistryIsLast, NoMarkets, Exists
  <2>3. QED
    BY <1>5, <2>1, <2>2 DEF RegistryIsLast
<1>13. CompleteMeansGone'
  BY <1>5 DEF CompleteMeansGone
<1>14. QED
  BY <1>5, <1>10, <1>11, <1>12, <1>13 DEF TeardownInv

\* A run that ends leaves the plan behind, not the order things go in.
LEMMA FailKeeps ==
    ASSUME TeardownInv, NEW u \in TdState, td' = Fail(u),
           \A p \in Pairs : td.markets[p] = Gone => u.markets[p] = Gone,
           u.feeVault => td.feeVault,
           u.registry \/ (~td.registry \/ (NoMarkets /\ ~td.feeVault))
    PROVE  TeardownInv'
<1>1. /\ td' \in TdState /\ td'.plan = <<>> /\ td'.run = "failed"
      /\ td'.markets = u.markets /\ td'.registry = u.registry /\ td'.feeVault = u.feeVault
  <2> DEFINE n == u.stranded + u.sink
  <2>1. n \in Nat
    BY DEF TdState
  <2>2. td' = [u EXCEPT !.run = "failed", !.plan = <<>>, !.stranded = n, !.sink = 0]
    BY DEF Fail
  <2> HIDE DEF n
  <2>3. <<>> \in Seq(Seq(AnyStep))
    OBVIOUS
  <2> DEFINE w == [u EXCEPT !.run = "failed", !.plan = <<>>, !.stranded = n, !.sink = 0]
  <2>4. w \in TdState
    BY <2>1, <2>3 DEF TdState
  <2>5. /\ w.plan = <<>> /\ w.run = "failed"
        /\ w.markets = u.markets /\ w.registry = u.registry /\ w.feeVault = u.feeVault
    BY DEF TdState
  <2> HIDE DEF w
  <2>6. td' = w
    BY <2>2 DEF w
  <2>7. QED
    BY <2>4, <2>5, <2>6
<1>2. RegistryIsLast'
  BY <1>1 DEF TeardownInv, RegistryIsLast, NoMarkets, Exists
<1>3. QED
  BY <1>1, <1>2 DEF TeardownInv, NothingForgotten, CompleteMeansGone

\* A market is somebody's to join or leave: what is live stays live, and nothing else moves.
LEMMA OthersKeep ==
    ASSUME TeardownInv, td' \in TdState, td'.plan = td.plan, td'.run = td.run, td'.whole = td.whole,
           td'.registry = td.registry, td'.feeVault = td.feeVault,
           \A p \in Pairs : td'.markets[p] = Gone <=> td.markets[p] = Gone
    PROVE  TeardownInv'
<1>1. Live' = Live /\ (NoMarkets' <=> NoMarkets)
  BY DEF Live, NoMarkets, Exists
<1>2. \A i \in DOMAIN td'.plan : Task(td'.plan[i], td'.feeVault)
  BY DEF TeardownInv
<1>3. NothingForgotten'
  BY <1>1 DEF TeardownInv, NothingForgotten
<1>4. RegistryIsLast' /\ CompleteMeansGone'
  BY <1>1 DEF TeardownInv, RegistryIsLast, CompleteMeansGone, NothingLeft
<1>5. QED
  BY <1>2, <1>3, <1>4 DEF TeardownInv

\* What happens to one market and the number of those who joined.
LEMMA MarketChanges ==
    ASSUME TeardownInv, NEW p \in Pairs, NEW m \in Market, Exists(p), NEW n \in Nat,
           td' = [td EXCEPT !.markets = [td.markets EXCEPT ![p] = m], !.joins = n]
    PROVE  TeardownInv'
<1>1. /\ td' \in TdState /\ td'.plan = td.plan /\ td'.run = td.run /\ td'.whole = td.whole
      /\ td'.registry = td.registry /\ td'.feeVault = td.feeVault
      /\ \A k \in Pairs : td'.markets[k] = IF k = p THEN m ELSE td.markets[k]
  BY DEF TeardownInv, TdState
<1>2. \A k \in Pairs : td'.markets[k] = Gone <=> td.markets[k] = Gone
  BY <1>1, GoneAssumption DEF Exists
<1>3. QED
  BY <1>1, <1>2, OthersKeep

\* A poll plans what it saw; one that saw everything forgets nothing.
LEMMA RunBeginsKeeps ==
    ASSUME TeardownInv, NEW markets \in SUBSET Live, NEW registry \in BOOLEAN,
           RunBegins(markets, registry)
    PROVE  TeardownInv'
<1> DEFINE T == {TeardownMarket(p) : p \in markets}
           f == [p \in markets |-> TeardownMarket(p)]
           a == SetToSeq(T)
           b == IF registry THEN <<TeardownRegistry>> ELSE <<>>
           S == Seq(AnyStep)
           whole == markets = Live /\ registry = td.registry
           n == IF whole THEN td.faults ELSE td.faults + 1
<1>1. td \in TdState /\ Live \subseteq Pairs
  BY DEF TeardownInv, Live
<1>2. \A p \in markets : MarketTask(TeardownMarket(p), p) /\ TeardownMarket(p) \in S /\ p \in Pairs
  BY <1>1, TeardownMarketIs
<1>3. IsFiniteSet(T)
  <2>1. IsFiniteSet(markets)
    BY <1>1, TeardownAssumption, FS_Subset
  <2>2. f \in Surjection(markets, T)
    BY DEF Surjection
  <2>3. QED
    BY <2>1, <2>2, FS_Surjection
<1>4. \A x \in T : x \in S /\ \E p \in Pairs : MarketTask(x, p)
  BY <1>2
<1>5. \A p \in markets : TeardownMarket(p) \in T
  OBVIOUS
<1> HIDE DEF T
<1>6. a \in Seq(T) /\ \A x \in T : \E i \in DOMAIN a : a[i] = x
  BY <1>3, SetToSeqIs
<1>7. TeardownRegistry \in S
  BY DEF TeardownRegistry, AnyStep, RegistryStep, Step
<1> HIDE DEF S, a
<1>8. /\ b \in Seq(S) /\ (registry => Len(b) = 1 /\ b[1] = TeardownRegistry) /\ (~registry => b = <<>>)
      /\ a \in Seq(S) /\ \A i \in DOMAIN a : a[i] \in T
  <2>1. a \in Seq(S)
    BY <1>4, <1>6, SeqMonotonic
  <2>2. \A i \in DOMAIN a : a[i] \in T
    BY <1>6
  <2>3. QED
    BY <1>7, <2>1, <2>2
<1>9. Seen(markets, registry) = a \o b
  BY DEF Seen, a, T
<1> DEFINE q == a \o b
<1> HIDE DEF b
<1>10. /\ q \in Seq(S)
       /\ \A i \in DOMAIN a : i \in DOMAIN q /\ q[i] = a[i]
       /\ registry => \E i \in DOMAIN q : q[i] = TeardownRegistry
       /\ \A i \in DOMAIN q : q[i] \in T \/ q[i] = TeardownRegistry
  <2>1. CASE registry
    <3> DEFINE z == TeardownRegistry
    <3>1. b = <<z>>
      BY <2>1 DEF b
    <3>2. q \in Seq(S) /\ Len(q) = Len(a) + 1 /\ q[Len(a) + 1] = z
          /\ \A i \in 1 .. Len(a) : q[i] = a[i]
      <4>1. a \in Seq(S) /\ z \in S
        BY <1>7, <1>8
      <4> HIDE DEF z
      <4>2. QED
        BY <3>1, <4>1
    <3>3. Len(a) \in Nat /\ DOMAIN a = 1 .. Len(a) /\ DOMAIN q = 1 .. Len(a) + 1
      BY <1>8, <3>2
    <3> HIDE DEF q
    <3>4. QED
      BY SMTT(30), <1>8, <3>2, <3>3
  <2>2. CASE ~registry
    <3>1. q = a
      BY <1>8, <2>2
    <3> HIDE DEF q
    <3>2. QED
      BY <1>8, <2>2, <3>1
  <2>3. QED
    BY <2>1, <2>2
<1> HIDE DEF q
<1>11. /\ td' \in TdState /\ td'.plan = q /\ td'.run = "running" /\ td'.whole = whole
       /\ td'.markets = td.markets /\ td'.registry = td.registry /\ td'.feeVault = td.feeVault
  <2>1. n \in Nat /\ whole \in BOOLEAN
    BY <1>1 DEF TdState
  <2>2. td' = [td EXCEPT !.run = "running", !.plan = q, !.whole = whole, !.faults = n]
    BY <1>9 DEF RunBegins, q
  <2> HIDE DEF n, whole
  <2>3. QED
    BY <1>1, <1>10, <2>1, <2>2 DEF TdState, S
<1>12. Live' = Live /\ (NoMarkets' <=> NoMarkets)
  BY <1>11 DEF Live, NoMarkets, Exists
<1>13. \A i \in DOMAIN q : Task(q[i], td'.feeVault)
  BY <1>4, <1>10 DEF Task, RegistryTask
<1>14. NothingForgotten'
  <2> SUFFICES ASSUME whole
               PROVE  /\ \A p \in Live : \E i \in DOMAIN q : MarketTask(q[i], p)
                      /\ td.registry => \E i \in DOMAIN q : RegistryTask(q[i], td'.feeVault)
    BY <1>11, <1>12 DEF NothingForgotten
  <2>1. ASSUME NEW p \in Live
        PROVE  \E i \in DOMAIN q : MarketTask(q[i], p)
    <3>1. p \in markets
      OBVIOUS
    <3>2. TeardownMarket(p) \in T /\ MarketTask(TeardownMarket(p), p)
      BY <1>2, <1>5, <3>1
    <3>3. PICK i \in DOMAIN a : a[i] = TeardownMarket(p)
      BY <1>6, <3>2
    <3>4. QED
      BY <1>10, <3>2, <3>3
  <2>2. td.registry => \E i \in DOMAIN q : RegistryTask(q[i], td'.feeVault)
    BY <1>10 DEF RegistryTask
  <2>3. QED
    BY <2>1, <2>2
<1>15. RegistryIsLast'
  BY <1>11, <1>12 DEF TeardownInv, RegistryIsLast
<1>16. CompleteMeansGone'
  BY <1>11 DEF CompleteMeansGone
<1>17. QED
  BY <1>11, <1>13, <1>14, <1>15, <1>16 DEF TeardownInv

\* Every step keeps to it.
LEMMA TeardownStep == TeardownInv /\ [TeardownNext]_td => TeardownInv'
<1> SUFFICES ASSUME TeardownInv, [TeardownNext]_td
             PROVE  TeardownInv'
  OBVIOUS
<1>1. td \in TdState
  BY DEF TeardownInv
<1>2. CASE UNCHANGED td
  BY <1>1, <1>2, OthersKeep
<1>3. CASE Again
  BY <1>3, RunBeginsKeeps DEF Again
<1>4. CASE Send
  <2>1. CASE Accepted(NextStep)
    BY <1>4, <2>1, SendKeeps DEF Send
  <2>2. CASE ~Accepted(NextStep)
    BY <1>1, <1>4, <2>2, FailKeeps DEF Send
  <2>3. QED
    BY <2>1, <2>2
<1>5. CASE SendErrs
  <2>1. PICK landed \in BOOLEAN :
           LET t == [td EXCEPT !.faults = @ + 1]
           IN  td' = Fail(IF landed /\ Accepted(NextStep) THEN Done(NextStep, t) ELSE t)
    BY <1>5 DEF SendErrs
  <2> DEFINE n == td.faults + 1
             t == [td EXCEPT !.faults = n]
  <2>2. n \in Nat
    BY <1>1 DEF TdState
  <2>3. td' = Fail(IF landed /\ Accepted(NextStep) THEN Done(NextStep, t) ELSE t)
    BY <2>1
  <2> HIDE DEF n
  <2>4. t \in TdState /\ t.markets = td.markets /\ t.registry = td.registry /\ t.feeVault = td.feeVault
    BY <1>1, <2>2 DEF TdState
  <2> HIDE DEF t
  <2>5. CASE landed /\ Accepted(NextStep)
    <3> DEFINE s == NextStep
               x == td.plan[1]
               u == Done(s, t)
    <3>1. td.plan # <<>> /\ \A i \in DOMAIN td.plan : Task(td.plan[i], td.feeVault)
      BY <1>5 DEF SendErrs, TeardownInv
    <3>2. s \in AnyStep /\ s = x[1] /\ 1 \in DOMAIN td.plan
      BY <1>1, <3>1, RemainingIs
    <3>3. Task(x, td.feeVault)
      BY <3>1, <3>2
    <3>4. s.op = "registry" => NoMarkets /\ ~td.feeVault
      <4>1. s.op = "registry" => NoMarkets
        BY <2>5 DEF Accepted
      <4>2. s.op = "registry" => ~td.feeVault
        BY <3>2, <3>3, TaskSteps
      <4>3. QED
        BY <4>1, <4>2
    <3> HIDE DEF s
    <3>5. /\ u \in TdState
          /\ \A p \in Pairs : u.markets[p] = Gone <=> t.markets[p] = Gone \/ (s.op = "market" /\ p = s.pair)
          /\ u.registry <=> (t.registry /\ s.op # "registry")
          /\ u.feeVault <=> (t.feeVault /\ s.op # "fee_vault")
      BY <1>1, <2>4, <2>5, <3>2, DoneKeeps DEF s
    <3>6. td' = Fail(u)
      BY <2>3, <2>5 DEF s
    <3> HIDE DEF u
    <3>7. QED
      BY <2>4, <3>4, <3>5, <3>6, FailKeeps
  <2>6. CASE ~(landed /\ Accepted(NextStep))
    <3>1. td' = Fail(t)
      BY <2>3, <2>6
    <3>2. QED
      BY <2>4, <3>1, FailKeeps
  <2>7. QED
    BY <2>5, <2>6
<1>6. CASE Sweep \/ SweepMisses
  <2>1. /\ td' \in TdState /\ td'.plan = <<>> /\ td'.run = "complete" /\ td'.whole = td.whole
        /\ td'.markets = td.markets /\ td'.registry = td.registry /\ td'.feeVault = td.feeVault
        /\ td.run = "running" /\ td.plan = <<>>
    <3>1. CASE Sweep
      BY <1>1, <3>1 DEF Sweep, TdState
    <3>2. CASE SweepMisses
      <4> DEFINE n == td.faults + 1
                 k == td.stranded + td.sink
      <4>1. n \in Nat /\ k \in Nat
        BY <1>1 DEF TdState
      <4>2. td' = [td EXCEPT !.run = "complete", !.faults = n, !.stranded = k, !.sink = 0]
            /\ td.run = "running" /\ td.plan = <<>>
        BY <3>2 DEF SweepMisses
      <4> HIDE DEF n, k
      <4>3. QED
        BY <1>1, <4>1, <4>2 DEF TdState
    <3>3. QED
      BY <1>6, <3>1, <3>2
  <2>2. td.whole => NothingLeft
    <3>1. ASSUME td.whole
          PROVE  Live = {} /\ ~td.registry
      BY <2>1, <3>1 DEF TeardownInv, NothingForgotten
    <3>2. Live = {} => NoMarkets
      BY DEF Live, NoMarkets
    <3>3. QED
      BY <3>1, <3>2 DEF NothingLeft, TeardownInv, RegistryIsLast
  <2>3. RegistryIsLast' /\ CompleteMeansGone'
    BY <2>1, <2>2
       DEF TeardownInv, RegistryIsLast, CompleteMeansGone, NothingLeft, NoMarkets, Exists
  <2>4. QED
    BY <2>1, <2>3 DEF TeardownInv, NothingForgotten
<1>7. ASSUME NEW p \in Pairs, NEW o \in Owners, Joins(p, o) \/ Leaves(p, o)
      PROVE  TeardownInv'
  <2> DEFINE m == td.markets[p]
  <2>1. Exists(p) /\ m \in Market
    BY <1>1, <1>7 DEF Joins, Leaves, Exists, TdState
  <2>2. CASE Joins(p, o)
    <3> DEFINE v == [m EXCEPT !.owners = @ \cup {o}]
               n == td.joins + 1
    <3>1. v \in Market /\ n \in Nat
      <4>1. n \in Nat
        BY <1>1 DEF TdState
      <4> HIDE DEF m
      <4>2. v \in Market
        BY <2>1 DEF Market
      <4>3. QED
        BY <4>1, <4>2
    <3>2. td' = [td EXCEPT !.markets = [td.markets EXCEPT ![p] = v], !.joins = n]
      BY <1>1, <2>2 DEF Joins, TdState
    <3> HIDE DEF v, n
    <3>3. QED
      BY <2>1, <3>1, <3>2, MarketChanges
  <2>3. CASE Leaves(p, o)
    <3> DEFINE v == WithoutOwner(m, o)
               n == td.joins
    <3>1. v \in Market /\ n \in Nat
      BY <1>1, <2>1 DEF Market, WithoutOwner, TdState
    <3>2. td' = [td EXCEPT !.markets = [td.markets EXCEPT ![p] = v], !.joins = n]
      BY <1>1, <2>3 DEF Leaves, TdState
    <3> HIDE DEF v, n
    <3>3. QED
      BY <2>1, <3>1, <3>2, MarketChanges
  <2>4. QED
    BY <1>7, <2>2, <2>3
<1>8. ASSUME NEW p \in Pairs, LeaderLeaves(p)
      PROVE  TeardownInv'
  <2> DEFINE v == WithoutLeader(td.markets[p])
             n == td.joins
  <2>1. Exists(p) /\ td.markets[p] \in Market
    BY <1>1, <1>8 DEF LeaderLeaves, Exists, TdState
  <2>2. v \in Market /\ n \in Nat
    BY <1>1, <2>1 DEF Market, WithoutLeader, TdState
  <2>3. td' = [td EXCEPT !.markets = [td.markets EXCEPT ![p] = v], !.joins = n]
    BY <1>1, <1>8 DEF LeaderLeaves, TdState
  <2> HIDE DEF v, n
  <2>4. QED
    BY <2>1, <2>2, <2>3, MarketChanges
<1>9. QED
  BY <1>2, <1>3, <1>4, <1>5, <1>6, <1>7, <1>8 DEF TeardownNext

\* teardown.rs: a run that saw everything there was closes it all before it reports that it
\* is complete, whoever joins or leaves meanwhile and however many runs failed before; the
\* registry goes after the last market and after its fee vault.
THEOREM CompleteTeardownsLeaveNothing == TeardownSpec => []CompleteMeansGone
<1>1. TeardownInit => TeardownInv
  <2> SUFFICES ASSUME TeardownInit
               PROVE  TeardownInv
    OBVIOUS
  <2>1. /\ td \in TdState /\ td.plan = <<>> /\ td.run = "none" /\ td.registry
    BY DEF TeardownInit, TdState
  <2>2. QED
    BY <2>1 DEF TeardownInv, NothingForgotten, RegistryIsLast, CompleteMeansGone
<1>2. TeardownInv /\ [TeardownNext]_td => TeardownInv'
  BY TeardownStep
<1>3. TeardownInv => CompleteMeansGone
  BY DEF TeardownInv
<1>4. QED
  BY <1>1, <1>2, <1>3, PTL DEF TeardownSpec
=============================================================================
