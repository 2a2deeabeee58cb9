---------------------------- MODULE MakerBotProofs ----------------------------
(***************************************************************************)
(* Proofs about the maker bot. About MakerBot, for every staleness bound,  *)
(* heartbeat and wait for a confirmation, and every model of what a failed *)
(* send may mean: what the flags in memory say of the chain, and that no   *)
(* stale book is left resting by the startup pass or by a pass that stands *)
(* down. About InventoryPolicy, for every vault, price, threshold, scale   *)
(* and ladder: what a cycle judges, and which way its judgement leans.     *)
(*                                                                         *)
(* The inductive invariant of MakerBot says of each clock the bot reads    *)
(* how far it may lag behind the age of the price on chain: the wait that  *)
(* is on, the persisted record, and the time in memory the record seeds.   *)
(* That of InventoryPolicy says of every fill on its way that it is one of *)
(* the vault's, and that the newest tells what the vault holds.            *)
(***************************************************************************)
EXTENDS MakerBot, InventoryPolicy, SumsLemmas, WellFoundedInduction, TLAPS

\* By how much longer a price may land after a send has been given up on.
Extra == IF "late" \in faults THEN MaxConfirm ELSE 0

\* What a memory m says of the chain.
Believes(m) == /\ m.killed => ~chain.live
               /\ m.kind # NotArmed => chain.profile = m.kind

\* Only a late transaction strays, and it was sent at most a wait ago.
StraysAreLate ==
    /\ stray # {} => "late" \in faults
    /\ \A tx \in stray : tx.age <= MaxConfirm /\ tx.op # "none"

\* A transaction is in hand only while its confirmation is waited for, and not for long.
SendsAreTimely == /\ pc = "sending" => sent.age <= MaxConfirm /\ sent.op # "none"
                  /\ pc # "sending" => sent.op = "none"

\* Once a transaction has landed, what will be remembered of it holds.
BeliefsFollow ==
    HonestErrors => IF pc = "sending" /\ sent.landed THEN Believes(Remembered(sent))
                                                     ELSE Believes(mem)

\* While a price or a kill waits for its confirmation, and until it is recorded.
PricesAreTimely ==
    /\ pc = "sending" /\ sent.landed /\ sent.op # "profile" /\ chain.live
           => chain.age <= sent.age + Extra
    /\ pc = "recording" /\ chain.live => chain.age <= MaxConfirm + Extra

\* The record on disk is not much younger than the price on chain.
RecordIsTimely == record # Unknown /\ chain.live => chain.age <= record + MaxConfirm + Extra

\* A run begins with the startup pass, whose one transaction is the kill stamp.
StartupIsFirst ==
    /\ start = "pending" => pc \in {"down", "boot"} \/ (pc = "sending" /\ sent.op = "kill")
    /\ pc \in {"down", "boot"} => start = "pending" /\ ~mem.killed
    /\ start = "pending" /\ pc # "down" /\ record # Unknown => mem.setAge = record

\* While a pass decides, what it has read still stands.
SeenIsCurrent ==
    HonestErrors /\ pc = "deciding" => seen.live = chain.live /\ (seen.frozen => chain.frozen)

\* After a startup pass that could tell, the time in memory is one to judge the book by.
MemoryIsTimely ==
    (/\ HonestErrors /\ start = "done" /\ chain.live /\ ~chain.frozen
     /\ ~(pc = "sending" /\ sent.landed /\ sent.op = "price"))
       => chain.age <= mem.setAge + MaxConfirm

\* The inductive invariant.
BotInv == /\ StraysAreLate /\ SendsAreTimely /\ BeliefsFollow /\ PricesAreTimely
          /\ RecordIsTimely /\ StartupIsFirst /\ SeenIsCurrent /\ MemoryIsTimely

------------------------------------------------------------------------------
(* Types.                                                                   *)

\* What the chain holds of the vault, and what the bot remembers.
Vault  == [live : BOOLEAN, age : Age, profile : Shapes \cup {NotArmed}, frozen : BOOLEAN]
Memory == [priced : BOOLEAN, setAge : Age, killed : BOOLEAN, kind : Shapes \cup {NotArmed}]

\* The bounds, and what an age is.
LEMMA Bounds ==
    /\ StaleAfter \in Nat /\ MaxConfirm \in Nat /\ Old \in Nat /\ Unknown \in Nat
    /\ StaleAfter <= Old /\ MaxConfirm <= Old /\ Unknown = Old + 1
    /\ Old = StaleAfter + 2 * MaxConfirm + 1
    /\ 0 \in Age /\ \A a \in Age : a \in Nat /\ a <= Old /\ a # Unknown
  BY BoundAssumption DEF Old, Unknown, Age

\* An age grows by one, as far as Old.
LEMMA OlderType ==
    ASSUME NEW a \in Age
    PROVE  /\ Older(a) \in Age /\ Older(a) <= a + 1 /\ Older(a) >= a
           /\ a < Old => Older(a) = a + 1
           /\ a = Old => Older(a) = Old
  BY Bounds DEF Older, Age

\* The transactions, and what they leave of the vault and in memory.
LEMMA TxTypes ==
    /\ NoTx \in Tx /\ KillStamp \in Tx /\ LivePrice \in Tx
    /\ \A shape \in Shapes : Profile(shape) \in Tx
    /\ \A shape \in Shapes : Profile(shape).op = "profile" /\ Profile(shape).age = 0
                             /\ ~Profile(shape).landed /\ Profile(shape).shape = shape
    /\ KillStamp.op = "kill" /\ KillStamp.age = 0 /\ ~KillStamp.landed
    /\ LivePrice.op = "price" /\ LivePrice.age = 0 /\ ~LivePrice.landed
    /\ Halted \in Shapes
  BY Bounds DEF NoTx, KillStamp, LivePrice, Profile, Tx, Shapes

\* What a transaction that lands leaves of the vault, by its kind.
LEMMA AfterTxType ==
    ASSUME TypeOK, NEW tx \in Tx, tx.op # "none"
    PROVE  /\ AfterTx(tx) \in Vault
           /\ AfterTx(tx).frozen = chain.frozen
           /\ tx.op = "kill" => ~AfterTx(tx).live /\ AfterTx(tx).profile = chain.profile
           /\ tx.op = "price" => /\ AfterTx(tx).live /\ AfterTx(tx).age = tx.age
                                 /\ AfterTx(tx).profile = chain.profile
           /\ tx.op = "profile" => /\ AfterTx(tx).live = chain.live
                                   /\ AfterTx(tx).age = chain.age
                                   /\ AfterTx(tx).profile = tx.shape
<1>1. chain \in Vault /\ tx.op \in {"kill", "price", "profile"} /\ tx.age \in Age
      /\ tx.shape \in Shapes \cup {NotArmed}
  BY DEF TypeOK, Tx, Vault
<1>2. CASE tx.op = "kill"
  BY <1>1, <1>2 DEF AfterTx, Vault
<1>3. CASE tx.op = "price"
  BY <1>1, <1>3 DEF AfterTx, Vault
<1>4. CASE tx.op = "profile"
  BY <1>1, <1>4 DEF AfterTx, Vault
<1>5. QED
  BY <1>1, <1>2, <1>3, <1>4

\* What a confirmed transaction leaves in memory is a memory.
LEMMA RememberedType ==
    ASSUME TypeOK, NEW tx \in Tx
    PROVE  /\ Remembered(tx) \in Memory
           /\ Remembered(tx).killed = (tx.op = "kill" \/ (mem.killed /\ tx.op # "price"))
           /\ Remembered(tx).kind = IF tx.op = "profile" THEN tx.shape ELSE mem.kind
           /\ Remembered(tx).setAge = IF tx.op = "price" THEN tx.age ELSE mem.setAge
<1>1. mem \in Memory /\ tx.age \in Age /\ tx.shape \in Shapes \cup {NotArmed}
  BY DEF TypeOK, Tx, Memory
<1>2. KilledAfter(tx) \in BOOLEAN /\ KindAfter(tx) \in Shapes \cup {NotArmed}
  BY <1>1 DEF KilledAfter, KindAfter, Memory
<1>3. (IF tx.op = "profile" THEN mem.priced ELSE tx.op = "price") \in BOOLEAN
      /\ (IF tx.op = "price" THEN tx.age ELSE mem.setAge) \in Age
  BY <1>1 DEF Memory
<1>4. QED
  BY <1>1, <1>2, <1>3 DEF Remembered, KilledAfter, KindAfter, Memory

\* The fields that no step touches together: a step's effect on the rest is typed below.
LEMMA FieldTypes ==
    ASSUME TypeOK
    PROVE  /\ chain \in Vault /\ mem \in Memory /\ sent \in Tx /\ stray \subseteq Tx
           /\ record \in Age \cup {Unknown} /\ input \in Inputs
           /\ chain.age \in Age /\ mem.setAge \in Age /\ sent.age \in Age
           /\ chain.live \in BOOLEAN /\ chain.frozen \in BOOLEAN
           /\ mem.killed \in BOOLEAN /\ sent.landed \in BOOLEAN
  BY DEF TypeOK, Vault, Memory, Tx

\* What a pass does at its end.
LEMMA SpendType ==
    ASSUME NEW tx \in Tx, Spend(tx)
    PROVE  pc' = "sending" /\ sent' = tx /\ verdict' = verdict
  BY DEF Spend

\* What the tick of a decision can end in.
LEMMA DecideShape ==
    ASSUME TypeOK, Decide
    PROVE  /\ pc = "deciding" /\ UNCHANGED <<chain, stray, mem, seen, record, input, day, start>>
           /\ \/ \E tx \in Tx : /\ pc' = "sending" /\ sent' = tx /\ verdict' = verdict
                                /\ tx.op # "none" /\ tx.age = 0 /\ ~tx.landed
              \/ /\ pc' = "idle" /\ sent' = sent
                 /\ \/ verdict' = "quoted"
                    \/ verdict' = "held" /\ ~MustKill(seen.live, mem.setAge) /\ ~seen.frozen
                    \/ verdict' = "stood_down" /\ ~MustKill(seen.live, Unknown)
<1> DEFINE Sends == \E tx \in Tx : /\ pc' = "sending" /\ sent' = tx /\ verdict' = verdict
                                  /\ tx.op # "none" /\ tx.age = 0 /\ ~tx.landed
           Ends(v) == pc' = "idle" /\ sent' = sent /\ verdict' = v
<1>1. ASSUME NEW v, Finish(v)
      PROVE  Ends(v)
  BY <1>1 DEF Finish
<1>2. /\ Spend(KillStamp) => Sends
      /\ Spend(LivePrice) => Sends
      /\ \A shape \in Shapes : Spend(Profile(shape)) => Sends
  <2>1. Spend(KillStamp) => Sends
    BY TxTypes DEF Spend
  <2>2. Spend(LivePrice) => Sends
    BY TxTypes DEF Spend
  <2>3. ASSUME NEW shape \in Shapes, Spend(Profile(shape))
        PROVE  Sends
    BY <2>3, TxTypes DEF Spend
  <2>4. QED
    BY <2>1, <2>2, <2>3
<1> HIDE DEF Sends, Ends
<1>3. pc = "deciding" /\ UNCHANGED <<chain, stray, mem, seen, record, input, day, start>>
  BY DEF Decide
<1>4. \/ Sends \/ Ends("quoted")
      \/ Ends("held") /\ ~MustKill(seen.live, mem.setAge) /\ ~seen.frozen
      \/ Ends("stood_down") /\ ~MustKill(seen.live, Unknown)
  <2>1. CASE seen.frozen /\ Finish("quoted")
    BY <1>1, <2>1
  <2>2. CASE ~seen.frozen /\ input = Hold /\ HoldReference
    BY <1>1, <1>2, <2>2 DEF HoldReference
  <2>3. CASE ~seen.frozen /\ input = Halted /\ StandDown
    BY <1>1, <1>2, <2>3, TxTypes DEF StandDown
  <2>4. ASSUME NEW drifted \in BOOLEAN, input \notin {Hold, Halted}, Quote(input, drifted)
        PROVE  Sends \/ Ends("quoted")
    <3>1. input \in Shapes
      BY <2>4 DEF TypeOK, Inputs
    <3>2. QED
      BY <1>1, <1>2, <2>4, <3>1 DEF Quote
  <2>5. QED
    BY <2>1, <2>2, <2>3, <2>4 DEF Decide
<1>5. QED
  BY <1>3, <1>4 DEF Sends, Ends

\* Every step keeps the types; what lands is one of the three transactions.
LEMMA TypeOKStep == TypeOK /\ StraysAreLate /\ SendsAreTimely /\ [Next]_vars => TypeOK'
<1> SUFFICES ASSUME TypeOK, StraysAreLate, SendsAreTimely, [Next]_vars
             PROVE  TypeOK'
  BY DEF TypeOK
<1> USE FieldTypes, TxTypes DEF Vault, Memory
<1>1. CASE UNCHANGED vars
  BY <1>1 DEF TypeOK, vars, state, botVars
<1>2. ASSUME Step, faults' = faults
      PROVE  TypeOK'
  <2>1. CASE Start
    <3>1. SeededSetAge \in Age
      BY Bounds DEF SeededSetAge, Unknown
    <3>2. [NewRun EXCEPT !.setAge = SeededSetAge] \in Memory
      BY <3>1 DEF NewRun
    <3>3. /\ mem' \in Memory /\ pc' = "boot" /\ day' = FALSE
          /\ UNCHANGED <<chain, stray, seen, sent, record, input, start, verdict>>
      BY <2>1, <3>2 DEF Start
    <3>4. QED
      BY <1>2, <3>3 DEF TypeOK
  <2>2. CASE Boot
    <3>1. [live |-> chain.live, frozen |-> chain.frozen] \in [live : BOOLEAN, frozen : BOOLEAN]
      OBVIOUS
    <3>2. /\ pc' \in {"sending", "idle"} /\ sent' \in Tx /\ verdict' \in {verdict, "booted"}
          /\ start' \in {start, "done"}
      BY <2>2 DEF Boot, Spend, Finish
    <3>3. QED
      BY <1>2, <2>2, <3>1, <3>2 DEF Boot, TypeOK
  <2>3. CASE BootReadFails
    BY <1>2, <2>3 DEF BootReadFails, StartAfterError, TypeOK
  <2>4. CASE Crash
    <3>1. NewRun \in Memory /\ NothingSeen \in [live : BOOLEAN, frozen : BOOLEAN]
      BY Bounds DEF NewRun, NothingSeen
    <3>2. StrayAfterLeaving \subseteq Tx
      BY DEF StrayAfterLeaving
    <3>3. QED
      BY <1>2, <2>4, <3>1, <3>2 DEF Crash, TypeOK
  <2>5. CASE ReadVault
    <3>1. [live |-> chain.live, frozen |-> chain.frozen] \in [live : BOOLEAN, frozen : BOOLEAN]
      OBVIOUS
    <3>2. QED
      BY <1>2, <2>5, <3>1 DEF ReadVault, TypeOK
  <2>6. CASE ReadFails
    BY <1>2, <2>6 DEF ReadFails, botVars, TypeOK
  <2>7. CASE Decide
    <3>1. /\ UNCHANGED <<chain, stray, mem, seen, record, input, day, start>>
          /\ pc' \in {"sending", "idle"} /\ sent' \in Tx
          /\ verdict' \in {verdict, "quoted", "held", "stood_down"}
      BY <2>7, DecideShape
    <3>2. QED
      BY <1>2, <3>1 DEF TypeOK
  <2>8. CASE Land
    <3>1. AfterTx(sent) \in Vault
      BY <2>8, AfterTxType DEF Land, SendsAreTimely
    <3>2. [sent EXCEPT !.landed = TRUE] \in Tx
      BY DEF Tx
    <3>3. QED
      BY <1>2, <2>8, <3>1, <3>2 DEF Land, TypeOK
  <2>9. CASE Confirm
    <3>1. Remembered(sent) \in Memory
      BY RememberedType
    <3>2. /\ pc' \in {"recording", "idle"} /\ verdict' \in {verdict, "sent"}
          /\ start' \in {start, "done"} /\ day' \in BOOLEAN
      BY <2>9 DEF Confirm, TypeOK
    <3>3. QED
      BY <1>2, <2>9, <3>1, <3>2 DEF Confirm, TypeOK
  <2>10. CASE SendFails
    <3>1. StrayAfterLeaving \subseteq Tx
      BY DEF StrayAfterLeaving
    <3>2. QED
      BY <1>2, <2>10, <3>1 DEF SendFails, StartAfterError, MemoryAfterError, TypeOK
  <2>11. CASE Record
    BY <1>2, <2>11, Bounds DEF Record, TypeOK
  <2>12. ASSUME NEW tx \in stray, LandLate(tx)
         PROVE  TypeOK'
    <3>1. tx \in Tx /\ tx.op # "none"
      BY DEF StraysAreLate
    <3>2. AfterTx(tx) \in Vault
      BY <3>1, AfterTxType
    <3>3. /\ chain' \in Vault /\ stray' \subseteq Tx
          /\ UNCHANGED <<pc, mem, seen, sent, record, input, day, start, verdict>>
      BY <2>12, <3>2 DEF LandLate, botVars
    <3>4. QED
      BY <1>2, <3>3 DEF TypeOK
  <2>13. CASE Freeze \/ Change \/ DayPasses
    <3>1. CASE Freeze
      <4>1. [chain EXCEPT !.frozen = TRUE] \in Vault
        OBVIOUS
      <4>2. /\ chain' \in Vault
            /\ UNCHANGED <<stray, pc, mem, seen, sent, record, input, day, start, verdict>>
        BY <3>1, <4>1 DEF Freeze, botVars
      <4>3. QED
        BY <1>2, <4>2 DEF TypeOK
    <3>2. CASE Change
      BY <1>2, <3>2 DEF Change, botVars, TypeOK
    <3>3. CASE DayPasses
      BY <1>2, <3>3 DEF DayPasses, botVars, TypeOK
    <3>4. QED
      BY <2>13, <3>1, <3>2, <3>3
  <2>14. CASE Tick
    <3>1. \A a \in Age : Older(a) \in Age
      BY OlderType
    <3>2. /\ [chain EXCEPT !.age = Older(chain.age)] \in Vault
          /\ [mem EXCEPT !.setAge = Older(mem.setAge)] \in Memory
          /\ [sent EXCEPT !.age = Older(sent.age)] \in Tx
      BY <3>1 DEF Tx
    <3>3. \A tx \in Tx : [tx EXCEPT !.age = Older(tx.age)] \in Tx
      BY <3>1 DEF Tx
    <3>4. stray' \subseteq Tx
      BY <2>14, <3>3 DEF Tick
    <3>5. record' \in Age \cup {Unknown}
      BY <2>14, <3>1 DEF Tick
    <3>6. QED
      BY <1>2, <2>14, <3>2, <3>4, <3>5 DEF Tick, TypeOK
  <2>15. QED
    BY <1>2, <2>1, <2>2, <2>3, <2>4, <2>5, <2>6, <2>7, <2>8, <2>9, <2>10, <2>11, <2>12,
       <2>13, <2>14 DEF Step
<1>3. QED
  BY <1>1, <1>2 DEF Next

------------------------------------------------------------------------------
(* The inductive step, one lemma for each kind of step.                     *)

\* A step that does not touch the chain, what is in flight, or the clocks.
LEMMA QuietStep ==
    ASSUME TypeOK, BotInv, faults' = faults,
           UNCHANGED <<chain, stray, mem, sent, record>>, pc' = pc, start' = start,
           seen' = seen
    PROVE  BotInv'
<1>1. /\ Extra' = Extra /\ (HonestErrors' <=> HonestErrors)
      /\ Remembered(sent)' = Remembered(sent)
  BY DEF Extra, HonestErrors, Remembered, KilledAfter, KindAfter
<1>2. QED
  BY <1>1 DEF BotInv, StraysAreLate, SendsAreTimely, BeliefsFollow, PricesAreTimely,
              RecordIsTimely, StartupIsFirst, SeenIsCurrent, MemoryIsTimely, Believes

\* A run starts: its memory is empty but for the time the record seeds.
LEMMA StartInv ==
    ASSUME TypeOK, BotInv, faults' = faults, Start
    PROVE  BotInv'
<1>1. /\ pc = "down" /\ pc' = "boot" /\ start = "pending"
      /\ UNCHANGED <<chain, stray, seen, sent, record, start>>
      /\ mem' = [NewRun EXCEPT !.setAge = SeededSetAge]
  BY DEF Start, BotInv, StartupIsFirst
<1>2. ~mem'.killed /\ mem'.kind = NotArmed /\ mem'.setAge = SeededSetAge
  BY <1>1 DEF NewRun
<1>3. Extra' = Extra /\ (HonestErrors' <=> HonestErrors)
  BY DEF Extra, HonestErrors
<1>4. StraysAreLate' /\ SendsAreTimely' /\ PricesAreTimely' /\ RecordIsTimely'
      /\ SeenIsCurrent' /\ MemoryIsTimely'
  BY <1>1, <1>3 DEF BotInv, StraysAreLate, SendsAreTimely, PricesAreTimely, RecordIsTimely,
                    SeenIsCurrent, MemoryIsTimely
<1>5. BeliefsFollow'
  BY <1>1, <1>2 DEF BeliefsFollow, Believes
<1>6. StartupIsFirst'
  BY <1>1, <1>2 DEF StartupIsFirst, SeededSetAge
<1>7. QED
  BY <1>4, <1>5, <1>6 DEF BotInv

\* The startup pass: it has a record or the book itself to go by, or kills.
LEMMA BootInv ==
    ASSUME TypeOK, BotInv, faults' = faults, Boot
    PROVE  BotInv'
<1>1. /\ pc = "boot" /\ start = "pending" /\ ~mem.killed
      /\ record # Unknown => mem.setAge = record
      /\ UNCHANGED <<chain, stray, mem, record>>
      /\ \/ pc' = "sending" /\ sent' = KillStamp /\ start' = start
         \/ /\ chain.frozen \/ ~MustKill(chain.live, record)
            /\ pc' = "idle" /\ sent' = sent /\ start' = "done"
  BY DEF Boot, Spend, Finish, BotInv, StartupIsFirst
<1>2. Extra' = Extra /\ (HonestErrors' <=> HonestErrors)
  BY DEF Extra, HonestErrors
<1>3. StraysAreLate' /\ PricesAreTimely' /\ RecordIsTimely' /\ SeenIsCurrent'
  BY <1>1, <1>2, TxTypes DEF BotInv, StraysAreLate, PricesAreTimely, RecordIsTimely,
                             SeenIsCurrent
<1>4. SendsAreTimely' /\ StartupIsFirst'
  BY <1>1, TxTypes, Bounds DEF BotInv, SendsAreTimely, StartupIsFirst
<1>5. BeliefsFollow'
  <2>1. HonestErrors => Believes(mem)
    BY <1>1 DEF BotInv, BeliefsFollow
  <2>2. ~(pc' = "sending" /\ sent'.landed)
    BY <1>1, TxTypes
  <2>3. QED
    BY <1>1, <1>2, <2>1, <2>2 DEF BeliefsFollow, Believes
<1>6. MemoryIsTimely'
  <2> SUFFICES ASSUME HonestErrors, start' = "done", chain.live, ~chain.frozen
               PROVE  chain.age <= mem.setAge + MaxConfirm
    BY <1>1, <1>2 DEF MemoryIsTimely
  <2>1. ~MustKill(chain.live, record)
    BY <1>1
  <2>2. ~(record > StaleAfter)
    BY <1>1, <2>1 DEF MustKill, ShouldInvalidate
  <2>3. record # Unknown
    BY <2>2, Bounds
  <2>4. Extra = 0
    BY DEF HonestErrors, Extra
  <2>5. chain.age <= record + MaxConfirm + Extra
    BY <2>3 DEF BotInv, RecordIsTimely
  <2>6. QED
    BY <1>1, <2>3, <2>4, <2>5, FieldTypes, Bounds
<1>7. QED
  BY <1>3, <1>4, <1>5, <1>6 DEF BotInv

\* A startup pass that could not even read leaves the record to judge by, or is blind.
LEMMA BootFailsInv ==
    ASSUME TypeOK, BotInv, faults' = faults, BootReadFails
    PROVE  BotInv'
<1>1. /\ pc = "boot" /\ pc' = "idle" /\ start = "pending" /\ ~mem.killed
      /\ start' = IF record = Unknown THEN "blind" ELSE "done"
      /\ record # Unknown => mem.setAge = record
      /\ UNCHANGED <<chain, stray, mem, seen, sent, record>>
  BY DEF BootReadFails, BotInv, StartupIsFirst, StartAfterError
<1>2. Extra' = Extra /\ (HonestErrors' <=> HonestErrors)
  BY DEF Extra, HonestErrors
<1>3. /\ StraysAreLate' /\ PricesAreTimely' /\ RecordIsTimely' /\ SeenIsCurrent'
      /\ SendsAreTimely' /\ StartupIsFirst'
  BY <1>1, <1>2 DEF BotInv, StraysAreLate, PricesAreTimely, RecordIsTimely,
                    SeenIsCurrent, SendsAreTimely, StartupIsFirst
<1>4. BeliefsFollow'
  BY <1>1, <1>2 DEF BotInv, BeliefsFollow, Believes
<1>5. MemoryIsTimely'
  <2> SUFFICES ASSUME HonestErrors, start' = "done", chain.live
               PROVE  chain.age <= mem.setAge + MaxConfirm
    BY <1>1, <1>2 DEF MemoryIsTimely
  <2>1. record # Unknown /\ Extra = 0
    BY <1>1 DEF HonestErrors, Extra
  <2>2. chain.age <= record + MaxConfirm + Extra
    BY <2>1 DEF BotInv, RecordIsTimely
  <2>3. QED
    BY <1>1, <2>1, <2>2, FieldTypes, Bounds
<1>6. QED
  BY <1>3, <1>4, <1>5 DEF BotInv

\* What is left of a send that was given up on, or cut off by a crash.
LEMMA StraysAfter ==
    ASSUME TypeOK, StraysAreLate, SendsAreTimely, stray' = StrayAfterLeaving, faults' = faults
    PROVE  StraysAreLate'
  BY Bounds DEF StraysAreLate, SendsAreTimely, StrayAfterLeaving

\* A crash at any point: nothing is believed, and the record may be gone.
LEMMA CrashInv ==
    ASSUME TypeOK, BotInv, faults' = faults, Crash
    PROVE  BotInv'
<1>1. /\ pc' = "down" /\ start' = "pending" /\ sent'.op = "none" /\ ~sent'.landed
      /\ ~mem'.killed /\ mem'.kind = NotArmed
      /\ chain' = chain /\ record' \in {record, Unknown} /\ stray' = StrayAfterLeaving
  BY DEF Crash, NewRun, NoTx
<1>2. Extra' = Extra /\ (HonestErrors' <=> HonestErrors)
  BY DEF Extra, HonestErrors
<1>3. StraysAreLate'
  BY <1>1, StraysAfter DEF BotInv
<1>4. /\ SendsAreTimely' /\ PricesAreTimely' /\ RecordIsTimely' /\ StartupIsFirst'
      /\ SeenIsCurrent' /\ MemoryIsTimely'
  BY <1>1, <1>2 DEF BotInv, SendsAreTimely, PricesAreTimely, RecordIsTimely, StartupIsFirst,
                    SeenIsCurrent, MemoryIsTimely
<1>5. BeliefsFollow'
  BY <1>1 DEF BeliefsFollow, Believes
<1>6. QED
  BY <1>3, <1>4, <1>5 DEF BotInv

\* The read at the start of a tick.
LEMMA ReadInv ==
    ASSUME TypeOK, BotInv, faults' = faults, ReadVault
    PROVE  BotInv'
<1>1. /\ pc = "idle" /\ pc' = "deciding"
      /\ seen'.live = chain.live /\ seen'.frozen = chain.frozen
      /\ UNCHANGED <<chain, stray, mem, sent, record, start>>
  BY DEF ReadVault
<1>2. Extra' = Extra /\ (HonestErrors' <=> HonestErrors)
  BY DEF Extra, HonestErrors
<1>3. /\ StraysAreLate' /\ SendsAreTimely' /\ PricesAreTimely' /\ RecordIsTimely'
      /\ StartupIsFirst' /\ SeenIsCurrent' /\ MemoryIsTimely'
  BY <1>1, <1>2 DEF BotInv, StraysAreLate, SendsAreTimely, PricesAreTimely, RecordIsTimely,
                    StartupIsFirst, SeenIsCurrent, MemoryIsTimely
<1>4. BeliefsFollow'
  BY <1>1, <1>2 DEF BotInv, BeliefsFollow, Believes
<1>5. QED
  BY <1>3, <1>4 DEF BotInv

\* The decision sends one transaction, or ends the pass.
LEMMA DecideInv ==
    ASSUME TypeOK, BotInv, faults' = faults, Decide
    PROVE  BotInv'
<1>1. /\ pc = "deciding" /\ UNCHANGED <<chain, stray, mem, record, start>>
      /\ \/ pc' = "sending" /\ sent'.op # "none" /\ sent'.age = 0 /\ ~sent'.landed
         \/ pc' = "idle" /\ sent' = sent
  BY DecideShape
<1>2. Extra' = Extra /\ (HonestErrors' <=> HonestErrors)
  BY DEF Extra, HonestErrors
<1>3. /\ StraysAreLate' /\ PricesAreTimely' /\ RecordIsTimely'
      /\ StartupIsFirst' /\ SeenIsCurrent' /\ MemoryIsTimely'
  BY <1>1, <1>2 DEF BotInv, StraysAreLate, PricesAreTimely, RecordIsTimely,
                    StartupIsFirst, SeenIsCurrent, MemoryIsTimely
<1>4. SendsAreTimely'
  BY <1>1, Bounds DEF BotInv, SendsAreTimely
<1>5. BeliefsFollow'
  BY <1>1, <1>2 DEF BotInv, BeliefsFollow, Believes
<1>6. QED
  BY <1>3, <1>4, <1>5 DEF BotInv

\* The transaction waited for lands.
LEMMA LandInv ==
    ASSUME TypeOK, BotInv, faults' = faults, Land
    PROVE  BotInv'
<1>1. /\ pc = "sending" /\ pc' = "sending" /\ ~sent.landed
      /\ sent.op # "none" /\ sent.age <= MaxConfirm
      /\ chain' = AfterTx(sent) /\ sent' = [sent EXCEPT !.landed = TRUE]
      /\ UNCHANGED <<stray, mem, record, start>>
  BY DEF Land, BotInv, SendsAreTimely
<1>2. /\ sent'.op = sent.op /\ sent'.age = sent.age /\ sent'.shape = sent.shape /\ sent'.landed
      /\ sent' \in Tx
  BY <1>1, FieldTypes DEF Tx
<1>3. Extra' = Extra /\ (HonestErrors' <=> HonestErrors) /\ Extra \in Nat
  BY Bounds DEF Extra, HonestErrors
<1>4. /\ chain'.frozen = chain.frozen
      /\ sent.op = "kill" => ~chain'.live /\ chain'.profile = chain.profile
      /\ sent.op = "price" => /\ chain'.live /\ chain'.age = sent.age
                              /\ chain'.profile = chain.profile
      /\ sent.op = "profile" => /\ chain'.live = chain.live /\ chain'.age = chain.age
                                /\ chain'.profile = sent.shape
  BY <1>1, FieldTypes, AfterTxType
<1>5. sent.op \in {"kill", "price", "profile"}
  BY <1>1, FieldTypes DEF Tx
<1>6. StraysAreLate' /\ SendsAreTimely' /\ StartupIsFirst' /\ SeenIsCurrent'
  BY <1>1, <1>2, <1>3 DEF BotInv, StraysAreLate, SendsAreTimely, StartupIsFirst, SeenIsCurrent
<1>7. PricesAreTimely'
  BY <1>1, <1>2, <1>3, <1>4, <1>5, FieldTypes, Bounds DEF PricesAreTimely
<1>8. RecordIsTimely'
  <2>1. record # Unknown => record \in Nat
    BY FieldTypes, Bounds
  <2>2. CASE sent.op = "price"
    BY <1>1, <1>3, <1>4, <2>1, <2>2, FieldTypes, Bounds DEF RecordIsTimely
  <2>3. CASE sent.op # "price"
    BY <1>1, <1>3, <1>4, <1>5, <2>3 DEF BotInv, RecordIsTimely
  <2>4. QED
    BY <2>2, <2>3
<1>9. MemoryIsTimely'
  BY <1>1, <1>2, <1>3, <1>4, <1>5 DEF BotInv, MemoryIsTimely
<1>10. BeliefsFollow'
  <2> SUFFICES ASSUME HonestErrors
               PROVE  Believes(Remembered(sent))'
    BY <1>1, <1>2, <1>3 DEF BeliefsFollow
  <2>1. Believes(mem)
    BY <1>1 DEF BotInv, BeliefsFollow
  <2>2. /\ Remembered(sent)'.killed = (sent.op = "kill" \/ (mem.killed /\ sent.op # "price"))
        /\ Remembered(sent)'.kind = IF sent.op = "profile" THEN sent.shape ELSE mem.kind
    BY <1>1, <1>2, FieldTypes DEF Remembered, KilledAfter, KindAfter, Memory
  <2>3. QED
    BY <1>4, <1>5, <2>1, <2>2 DEF Believes
<1>11. QED
  BY <1>6, <1>7, <1>8, <1>9, <1>10 DEF BotInv

\* The confirmation is seen: memory, the startup pass and the clocks catch up with the chain.
LEMMA ConfirmInv ==
    ASSUME TypeOK, BotInv, faults' = faults, Confirm
    PROVE  BotInv'
<1>1. /\ pc = "sending" /\ sent.landed /\ sent.op # "none" /\ sent.age <= MaxConfirm
      /\ mem' = Remembered(sent) /\ sent'.op = "none" /\ ~sent'.landed
      /\ start' = (IF sent.op = "profile" THEN start ELSE "done")
      /\ IF sent.op = "price" THEN pc' = "recording" ELSE pc' = "idle"
      /\ UNCHANGED <<chain, stray, record>>
  BY DEF Confirm, BotInv, SendsAreTimely, NoTx
<1>2. Extra' = Extra /\ (HonestErrors' <=> HonestErrors) /\ Extra \in Nat
      /\ (HonestErrors => Extra = 0)
  BY Bounds DEF Extra, HonestErrors
<1>3. start' # "pending"
  BY <1>1 DEF BotInv, StartupIsFirst
<1>4. /\ StraysAreLate' /\ SendsAreTimely' /\ RecordIsTimely' /\ StartupIsFirst' /\ SeenIsCurrent'
  BY <1>1, <1>2, <1>3 DEF BotInv, StraysAreLate, SendsAreTimely, RecordIsTimely, StartupIsFirst,
                          SeenIsCurrent
<1>5. BeliefsFollow'
  BY <1>1, <1>2 DEF BotInv, BeliefsFollow, Believes
<1>6. sent.op # "profile" /\ chain.live => chain.age <= sent.age + Extra
  BY <1>1 DEF BotInv, PricesAreTimely
<1>7. PricesAreTimely'
  BY <1>1, <1>2, <1>6, FieldTypes, Bounds DEF PricesAreTimely
<1>8. MemoryIsTimely'
  <2> SUFFICES ASSUME HonestErrors, start' = "done", chain.live, ~chain.frozen
               PROVE  chain.age <= mem'.setAge + MaxConfirm
    BY <1>1, <1>2 DEF MemoryIsTimely
  <2>1. /\ mem'.killed = (sent.op = "kill" \/ (mem.killed /\ sent.op # "price"))
        /\ mem'.setAge = IF sent.op = "price" THEN sent.age ELSE mem.setAge
    BY <1>1, FieldTypes, RememberedType
  <2>2. sent.op # "kill"
    BY <1>1, <2>1 DEF BotInv, BeliefsFollow, Believes
  <2>3. CASE sent.op = "price"
    BY <1>2, <1>6, <2>1, <2>3, FieldTypes, Bounds
  <2>4. CASE sent.op = "profile"
    BY <1>1, <2>1, <2>4 DEF BotInv, MemoryIsTimely
  <2>5. QED
    BY <1>1, <2>2, <2>3, <2>4, FieldTypes DEF Tx
<1>9. QED
  BY <1>4, <1>5, <1>7, <1>8 DEF BotInv

\* A send that ends in an error leaves memory alone; an honest one left the chain alone too.
LEMMA SendFailsInv ==
    ASSUME TypeOK, BotInv, faults' = faults, SendFails
    PROVE  BotInv'
<1>1. /\ pc = "sending" /\ pc' = "idle" /\ sent'.op = "none" /\ ~sent'.landed /\ mem' = mem
      /\ sent.landed => "landed" \in faults
      /\ stray' = StrayAfterLeaving
      /\ start' = StartAfterError
      /\ UNCHANGED <<chain, record>>
  BY DEF SendFails, MemoryAfterError, NoTx
<1>2. Extra' = Extra /\ (HonestErrors' <=> HonestErrors) /\ (HonestErrors => Extra = 0)
  BY DEF Extra, HonestErrors
<1>3. HonestErrors => ~sent.landed
  BY <1>1 DEF HonestErrors
<1>4. start' # "pending" /\ (start' = "done" => start = "done"
                                \/ (start = "pending" /\ record # Unknown))
  BY <1>1 DEF StartAfterError
<1>5. StraysAreLate'
  BY <1>1, StraysAfter DEF BotInv
<1>6. /\ SendsAreTimely' /\ PricesAreTimely' /\ RecordIsTimely' /\ StartupIsFirst' /\ SeenIsCurrent'
  BY <1>1, <1>2, <1>4 DEF BotInv, SendsAreTimely, PricesAreTimely, RecordIsTimely,
                          StartupIsFirst, SeenIsCurrent
<1>7. BeliefsFollow'
  BY <1>1, <1>2, <1>3 DEF BotInv, BeliefsFollow, Believes
<1>8. MemoryIsTimely'
  <2> SUFFICES ASSUME HonestErrors, start' = "done", chain.live, ~chain.frozen
               PROVE  chain.age <= mem.setAge + MaxConfirm
    BY <1>1, <1>2 DEF MemoryIsTimely
  <2>1. CASE start = "done"
    BY <1>1, <1>3, <2>1 DEF BotInv, MemoryIsTimely
  <2>2. CASE start = "pending" /\ record # Unknown
    <3>1. mem.setAge = record
      BY <1>1, <2>2 DEF BotInv, StartupIsFirst
    <3>2. chain.age <= record + MaxConfirm + Extra
      BY <2>2 DEF BotInv, RecordIsTimely
    <3>3. QED
      BY <1>2, <2>2, <3>1, <3>2, FieldTypes, Bounds
  <2>3. QED
    BY <1>4, <2>1, <2>2
<1>9. QED
  BY <1>5, <1>6, <1>7, <1>8 DEF BotInv

\* The time of the live price is written down, or its write fails and is ignored.
LEMMA RecordInv ==
    ASSUME TypeOK, BotInv, faults' = faults, Record
    PROVE  BotInv'
<1>1. /\ pc = "recording" /\ pc' = "idle" /\ record' \in {0, record}
      /\ UNCHANGED <<chain, stray, mem, sent, start>>
  BY DEF Record
<1>2. Extra' = Extra /\ (HonestErrors' <=> HonestErrors) /\ Extra \in Nat
  BY Bounds DEF Extra, HonestErrors
<1>3. start # "pending"
  BY <1>1 DEF BotInv, StartupIsFirst
<1>4. /\ StraysAreLate' /\ SendsAreTimely' /\ PricesAreTimely' /\ StartupIsFirst' /\ SeenIsCurrent'
      /\ MemoryIsTimely'
  BY <1>1, <1>2, <1>3 DEF BotInv, StraysAreLate, SendsAreTimely, PricesAreTimely, StartupIsFirst,
                          SeenIsCurrent, MemoryIsTimely
<1>5. BeliefsFollow'
  BY <1>1, <1>2 DEF BotInv, BeliefsFollow, Believes
<1>6. RecordIsTimely'
  <2>1. chain.live => chain.age <= MaxConfirm + Extra
    BY <1>1 DEF BotInv, PricesAreTimely
  <2>2. CASE record' = 0
    BY <1>1, <1>2, <2>1, <2>2, FieldTypes, Bounds DEF RecordIsTimely
  <2>3. CASE record' = record
    BY <1>1, <1>2, <2>3 DEF BotInv, RecordIsTimely
  <2>4. QED
    BY <1>1, <2>2, <2>3
<1>7. QED
  BY <1>4, <1>5, <1>6 DEF BotInv

\* A transaction given up on lands after all: its price is as old as its pass.
LEMMA LandLateInv ==
    ASSUME TypeOK, BotInv, faults' = faults, NEW tx \in stray, LandLate(tx)
    PROVE  BotInv'
<1>1. /\ tx \in Tx /\ tx.op # "none" /\ tx.age <= MaxConfirm /\ "late" \in faults
      /\ chain' = AfterTx(tx) /\ stray' = stray \ {tx}
      /\ UNCHANGED <<pc, mem, seen, sent, record, start>>
  BY FieldTypes DEF LandLate, botVars, BotInv, StraysAreLate
<1>2. ~HonestErrors /\ ~HonestErrors' /\ Extra = MaxConfirm /\ Extra' = MaxConfirm
  BY <1>1 DEF Extra, HonestErrors
<1>3. chain'.live => (chain'.age = tx.age \/ (chain.live /\ chain'.age = chain.age))
  BY <1>1, AfterTxType DEF Tx
<1>4. tx.age \in Nat /\ tx.age <= MaxConfirm
  BY <1>1, Bounds DEF Tx
<1>5. /\ StraysAreLate' /\ SendsAreTimely' /\ StartupIsFirst'
      /\ SeenIsCurrent' /\ MemoryIsTimely' /\ BeliefsFollow'
  BY <1>1, <1>2 DEF BotInv, StraysAreLate, SendsAreTimely, StartupIsFirst, SeenIsCurrent,
                    MemoryIsTimely, BeliefsFollow
<1>6. PricesAreTimely'
  BY <1>1, <1>2, <1>3, <1>4, FieldTypes, Bounds DEF BotInv, PricesAreTimely
<1>7. RecordIsTimely'
  BY <1>1, <1>2, <1>3, <1>4, FieldTypes, Bounds DEF BotInv, RecordIsTimely
<1>8. QED
  BY <1>5, <1>6, <1>7 DEF BotInv

\* The vault is frozen.
LEMMA FreezeInv ==
    ASSUME TypeOK, BotInv, faults' = faults, Freeze
    PROVE  BotInv'
<1>1. /\ chain' = [chain EXCEPT !.frozen = TRUE]
      /\ UNCHANGED <<stray, pc, mem, seen, sent, record, start>>
  BY DEF Freeze, botVars
<1>2. /\ chain'.live = chain.live /\ chain'.age = chain.age /\ chain'.profile = chain.profile
      /\ chain'.frozen
  BY <1>1, FieldTypes DEF Vault
<1>3. /\ Extra' = Extra /\ (HonestErrors' <=> HonestErrors)
      /\ Remembered(sent)' = Remembered(sent)
  BY <1>1 DEF Extra, HonestErrors, Remembered, KilledAfter, KindAfter
<1>4. /\ StraysAreLate' /\ SendsAreTimely' /\ PricesAreTimely' /\ RecordIsTimely'
      /\ StartupIsFirst' /\ SeenIsCurrent' /\ MemoryIsTimely'
  BY <1>1, <1>2, <1>3 DEF BotInv, StraysAreLate, SendsAreTimely, PricesAreTimely, RecordIsTimely,
                          StartupIsFirst, SeenIsCurrent, MemoryIsTimely
<1>5. BeliefsFollow'
  BY <1>1, <1>2, <1>3 DEF BotInv, BeliefsFollow, Believes
<1>6. QED
  BY <1>4, <1>5 DEF BotInv

\* Time passes: each clock the bot reads moves with the age of the price on chain.
LEMMA TickInv ==
    ASSUME TypeOK, BotInv, faults' = faults, Tick
    PROVE  BotInv'
<1>1. /\ pc \in {"down", "idle", "sending"} /\ pc' = pc
      /\ pc = "sending" => sent.age < MaxConfirm
      /\ chain' = [chain EXCEPT !.age = Older(chain.age)]
      /\ mem' = IF pc = "down" THEN mem ELSE [mem EXCEPT !.setAge = Older(mem.setAge)]
      /\ sent' = IF pc = "sending" THEN [sent EXCEPT !.age = Older(sent.age)] ELSE sent
      /\ stray' = {[tx EXCEPT !.age = Older(tx.age)] : tx \in {t \in stray : t.age < MaxConfirm}}
      /\ record' = IF record = Unknown THEN record ELSE Older(record)
      /\ UNCHANGED <<seen, start>>
  BY DEF Tick
<1>2. Extra' = Extra /\ (HonestErrors' <=> HonestErrors) /\ Extra \in Nat
  BY Bounds DEF Extra, HonestErrors
<1>3. /\ chain'.live = chain.live /\ chain'.profile = chain.profile
      /\ chain'.frozen = chain.frozen /\ chain'.age = Older(chain.age)
  BY <1>1, FieldTypes DEF Vault
<1>4. /\ mem'.killed = mem.killed /\ mem'.kind = mem.kind /\ mem'.priced = mem.priced
      /\ pc # "down" => mem'.setAge = Older(mem.setAge)
  BY <1>1, FieldTypes DEF Memory
<1>5. /\ sent'.op = sent.op /\ sent'.shape = sent.shape /\ sent'.landed = sent.landed
      /\ pc = "sending" => sent'.age = Older(sent.age)
      /\ sent' \in Tx
  BY <1>1, FieldTypes, OlderType DEF Tx
<1>6. /\ chain'.age <= chain.age + 1 /\ chain'.age <= Old /\ chain'.age \in Nat
      /\ pc = "sending" => sent'.age = sent.age + 1
  BY <1>1, <1>3, <1>5, FieldTypes, OlderType, Bounds
<1>7. /\ record' = Unknown <=> record = Unknown
      /\ record # Unknown => record' = Older(record) /\ record \in Age /\ record' \in Age
  BY <1>1, FieldTypes, OlderType, Bounds
<1>8. StraysAreLate'
  <2>1. stray' # {} => stray # {}
    BY <1>1
  <2>2. ASSUME NEW tx \in stray'
        PROVE  tx.age <= MaxConfirm /\ tx.op # "none"
    <3>1. PICK t \in stray : t.age < MaxConfirm /\ tx = [t EXCEPT !.age = Older(t.age)]
      BY <1>1, <2>2
    <3>2. t \in Tx /\ t.op # "none" /\ t.age \in Age
      BY FieldTypes DEF BotInv, StraysAreLate, Tx
    <3>3. tx.age = Older(t.age) /\ tx.op = t.op
      BY <3>1, <3>2 DEF Tx
    <3>4. QED
      BY <3>1, <3>2, <3>3, OlderType, Bounds
  <2>3. QED
    BY <2>1, <2>2 DEF BotInv, StraysAreLate
<1>9. SendsAreTimely'
  BY <1>1, <1>5, <1>6, FieldTypes, Bounds DEF BotInv, SendsAreTimely
<1>10. BeliefsFollow'
  <2>1. /\ Remembered(sent)'.killed = Remembered(sent).killed
        /\ Remembered(sent)'.kind = Remembered(sent).kind
    BY <1>1, <1>4, <1>5, FieldTypes DEF Remembered, KilledAfter, KindAfter, Memory
  <2>2. QED
    BY <1>1, <1>2, <1>3, <1>4, <1>5, <2>1 DEF BotInv, BeliefsFollow, Believes
<1>11. PricesAreTimely'
  BY <1>1, <1>2, <1>3, <1>5, <1>6, FieldTypes, Bounds DEF BotInv, PricesAreTimely
<1>12. RecordIsTimely'
  <2> SUFFICES ASSUME record # Unknown, chain.live
               PROVE  chain'.age <= record' + MaxConfirm + Extra
    BY <1>2, <1>3, <1>7 DEF RecordIsTimely
  <2>1. chain.age <= record + MaxConfirm + Extra
    BY DEF BotInv, RecordIsTimely
  <2>2. CASE record = Old
    BY <1>2, <1>6, <1>7, <2>2, OlderType, Bounds
  <2>3. CASE record # Old
    BY <1>2, <1>6, <1>7, <2>1, <2>3, FieldTypes, OlderType, Bounds
  <2>4. QED
    BY <2>2, <2>3
<1>13. StartupIsFirst'
  BY <1>1, <1>4, <1>5, <1>7 DEF BotInv, StartupIsFirst
<1>14. SeenIsCurrent'
  BY <1>1 DEF SeenIsCurrent
<1>15. MemoryIsTimely'
  <2> SUFFICES ASSUME HonestErrors, start = "done", chain.live, ~chain.frozen,
                      ~(pc = "sending" /\ sent.landed /\ sent.op = "price")
               PROVE  chain'.age <= mem'.setAge + MaxConfirm
    BY <1>1, <1>2, <1>3, <1>5 DEF MemoryIsTimely
  <2>1. chain.age <= mem.setAge + MaxConfirm
    BY DEF BotInv, MemoryIsTimely
  <2>2. pc # "down"
    BY DEF BotInv, StartupIsFirst
  <2>3. CASE mem.setAge = Old
    BY <1>4, <1>6, <2>2, <2>3, FieldTypes, OlderType, Bounds
  <2>4. CASE mem.setAge # Old
    BY <1>4, <1>6, <2>1, <2>2, <2>4, FieldTypes, OlderType, Bounds
  <2>5. QED
    BY <2>3, <2>4
<1>16. QED
  BY <1>8, <1>9, <1>10, <1>11, <1>12, <1>13, <1>14, <1>15 DEF BotInv

------------------------------------------------------------------------------
(* The invariant, and what follows from it.                                 *)

\* The invariant holds at first, is kept by every step, and so holds always.
LEMMA BotInvInit == Init => TypeOK /\ BotInv
<1> SUFFICES ASSUME Init
             PROVE  TypeOK /\ BotInv
  OBVIOUS
<1> USE DEF Init, InitAt
<1>1. /\ chain \in [live : BOOLEAN, age : Age, profile : Shapes \cup {NotArmed}, frozen : BOOLEAN]
      /\ chain.live = FALSE
  BY Bounds DEF Age
<1>2. mem \in [priced : BOOLEAN, setAge : Age, killed : BOOLEAN, kind : Shapes \cup {NotArmed}]
      /\ mem.killed = FALSE /\ mem.kind = NotArmed
  BY Bounds DEF NewRun
<1>3. seen \in [live : BOOLEAN, frozen : BOOLEAN]
  BY DEF NothingSeen
<1>4. sent \in Tx /\ sent.op = "none"
  BY TxTypes DEF NoTx
<1>5. TypeOK
  BY <1>1, <1>2, <1>3, <1>4 DEF TypeOK
<1>6. BotInv
  BY <1>1, <1>2, <1>4 DEF BotInv, StraysAreLate, SendsAreTimely, BeliefsFollow, PricesAreTimely,
       RecordIsTimely, StartupIsFirst, SeenIsCurrent, MemoryIsTimely, Believes
<1>7. QED
  BY <1>5, <1>6

LEMMA BotInvStep == TypeOK /\ BotInv /\ [Next]_vars => TypeOK' /\ BotInv'
<1> SUFFICES ASSUME TypeOK, BotInv, [Next]_vars
             PROVE  TypeOK' /\ BotInv'
  OBVIOUS
<1>1. TypeOK'
  BY TypeOKStep DEF BotInv
<1>2. CASE UNCHANGED vars
  <2>1. /\ faults' = faults /\ pc' = pc /\ start' = start /\ seen' = seen
        /\ UNCHANGED <<chain, stray, mem, sent, record>>
    BY <1>2 DEF vars, state, botVars
  <2>2. QED
    BY <1>1, <2>1, QuietStep
<1>3. ASSUME Step, faults' = faults
      PROVE  BotInv'
  <2>1. CASE Start
    BY <1>3, <2>1, StartInv
  <2>2. CASE Boot
    BY <1>3, <2>2, BootInv
  <2>3. CASE BootReadFails
    BY <1>3, <2>3, BootFailsInv
  <2>4. CASE Crash
    BY <1>3, <2>4, CrashInv
  <2>5. CASE ReadVault
    BY <1>3, <2>5, ReadInv
  <2>6. CASE ReadFails
    BY <1>3, <2>6, QuietStep DEF ReadFails, botVars
  <2>7. CASE Decide
    BY <1>3, <2>7, DecideInv
  <2>8. CASE Land
    BY <1>3, <2>8, LandInv
  <2>9. CASE Confirm
    BY <1>3, <2>9, ConfirmInv
  <2>10. CASE SendFails
    BY <1>3, <2>10, SendFailsInv
  <2>11. CASE Record
    BY <1>3, <2>11, RecordInv
  <2>12. ASSUME NEW tx \in stray, LandLate(tx)
         PROVE  BotInv'
    BY <1>3, <2>12, LandLateInv
  <2>13. CASE Freeze
    BY <1>3, <2>13, FreezeInv
  <2>14. CASE Tick
    BY <1>3, <2>14, TickInv
  <2>15. CASE Change
    BY <1>3, <2>15, QuietStep DEF Change, botVars
  <2>16. CASE DayPasses
    BY <1>3, <2>16, QuietStep DEF DayPasses, botVars
  <2>17. QED
    BY <1>3, <2>1, <2>2, <2>3, <2>4, <2>5, <2>6, <2>7, <2>8, <2>9, <2>10, <2>11, <2>12,
       <2>13, <2>14, <2>15, <2>16 DEF Step
<1>4. QED
  BY <1>1, <1>2, <1>3 DEF Next

LEMMA BotInvAlways == Spec => [](TypeOK /\ BotInv)
  BY BotInvInit, BotInvStep, PTL DEF Spec

\* Where an error means that the transaction is lost, the flags in the bot's memory are
\* right between passes: a book believed killed is dark, and the ladder believed armed is
\* the one on chain (mark_killed, clear_killed, ref_state and set_profile_state of
\* context.rs, set after tasks.rs saw a send confirmed).
THEOREM BeliefsAlwaysHold == Spec => []BeliefsHold
<1>1. TypeOK /\ BotInv => BeliefsHold
  <2> SUFFICES ASSUME TypeOK, BotInv
               PROVE  BeliefsHold
    OBVIOUS
  <2>1. HonestErrors /\ pc \in {"idle", "deciding"} => Believes(mem)
    BY DEF BotInv, BeliefsFollow
  <2>2. QED
    BY <2>1 DEF BeliefsHold, Believes
<1>2. QED
  BY <1>1, BotInvAlways, PTL

\* The slack the properties allow is a wait, and another one where a send may be late.
LEMMA SlackIs == Slack = MaxConfirm + Extra /\ Slack \in Nat /\ Extra \in Nat
  BY Bounds DEF Slack, Extra

\* The startup pass (invalidate_stale_quotes) leaves no book matchable that nobody has
\* priced for longer than invalidate.stale_after and the waits for confirmations, with or
\* without a record (quote_state.rs), wherever the run before it crashed and whatever its
\* last transactions still do.
THEOREM StartupKillsStaleBooks == Spec => StaleBookDiesAtStart
<1> DEFINE Done == start = "pending" /\ start' = "done" /\ verdict' # "failed"
<1>1. TypeOK /\ BotInv /\ [Next]_vars => [Done => ~Matchable' \/ RecentEnough]_vars
  <2> SUFFICES ASSUME TypeOK, BotInv, Step, faults' = faults, Done
               PROVE  ~Matchable' \/ RecentEnough
    BY DEF Next
  <2>1. CASE Boot
    <3>1. /\ chain' = chain
          /\ chain.frozen \/ ~MustKill(chain.live, record)
          /\ ~mem.killed
      BY <2>1 DEF Boot, Spend, BotInv, StartupIsFirst
    <3>2. CASE chain.frozen \/ ~chain.live
      BY <3>1, <3>2 DEF Matchable
    <3>3. CASE chain.live /\ ~chain.frozen
      <4>1. ~(record > StaleAfter)
        BY <3>1, <3>3 DEF MustKill, ShouldInvalidate
      <4>2. record # Unknown
        BY <4>1, Bounds
      <4>3. chain.age <= record + MaxConfirm + Extra
        BY <3>3, <4>2 DEF BotInv, RecordIsTimely
      <4>4. QED
        BY <4>1, <4>2, <4>3, SlackIs, FieldTypes, Bounds DEF RecentEnough
    <3>4. QED
      BY <3>2, <3>3, FieldTypes
  <2>2. CASE Confirm
    <3>1. sent.op = "kill" /\ sent.landed /\ pc = "sending" /\ sent.age <= MaxConfirm
          /\ chain' = chain
      BY <2>2 DEF Confirm, BotInv, StartupIsFirst, SendsAreTimely
    <3>2. chain.live => chain.age <= sent.age + Extra
      BY <3>1 DEF BotInv, PricesAreTimely
    <3>3. CASE ~chain.live
      BY <3>1, <3>3 DEF Matchable
    <3>4. CASE chain.live
      BY <3>1, <3>2, <3>4, SlackIs, FieldTypes, Bounds DEF RecentEnough
    <3>5. QED
      BY <3>3, <3>4, FieldTypes
  <2>3. CASE BootReadFails \/ SendFails \/ Crash
    BY <2>3 DEF BootReadFails, SendFails, Crash
  <2>4. CASE start' = start
    BY <2>4
  <2>5. start' = start \/ Boot \/ Confirm \/ BootReadFails \/ SendFails \/ Crash
    BY DEF Step, Start, ReadVault, ReadFails, Decide, Land, Record, LandLate, Freeze, Tick,
           Change, DayPasses
  <2>6. QED
    BY <2>1, <2>2, <2>3, <2>4, <2>5
<1>2. QED
  BY <1>1, BotInvAlways, PTL DEF Spec, StaleBookDiesAtStart

\* Where errors are honest, a pass that holds for want of a feed leaves a book only if its
\* price was set lately, and a halt with nothing left to send has taken the book dark
\* (invalidate_if_stale and stand_down of tasks.rs).
THEOREM StandDownsAreSafe == Spec => StandingDownIsSafe
<1> DEFINE Safe == HonestErrors =>
               /\ Passed("held") /\ start = "done" => ~Matchable' \/ RecentEnough
               /\ Passed("stood_down") => ~Matchable'
<1>1. TypeOK /\ BotInv /\ [Next]_vars => [Safe]_vars
  <2> SUFFICES ASSUME TypeOK, BotInv, Step, faults' = faults, HonestErrors,
                      NEW v \in {"held", "stood_down"}, Passed(v)
               PROVE  /\ v = "held" /\ start = "done" => ~Matchable' \/ RecentEnough
                      /\ v = "stood_down" => ~Matchable'
    BY DEF Next
  <2>1. Decide
    BY DEF Passed, Step, Start, Boot, BootReadFails, Crash, ReadVault, ReadFails, Land, Confirm,
           SendFails, Record, LandLate, Freeze, Tick, Change, DayPasses, Spend, Finish, botVars
  <2>2. /\ pc = "deciding" /\ chain' = chain
        /\ v = "held" => ~MustKill(seen.live, mem.setAge)
        /\ v = "stood_down" => ~MustKill(seen.live, Unknown)
    BY <2>1, DecideShape DEF Passed
  <2>3. seen.live = chain.live
    BY <2>2 DEF BotInv, SeenIsCurrent
  <2>4. mem.killed => ~chain.live
    BY <2>2 DEF BotInv, BeliefsFollow, Believes
  <2>5. CASE ~chain.live \/ chain.frozen
    BY <2>2, <2>5 DEF Matchable
  <2>6. CASE chain.live /\ ~chain.frozen
    <3>1. v # "stood_down"
      BY <2>2, <2>3, <2>4, <2>6, Bounds DEF MustKill, ShouldInvalidate
    <3>2. v = "held" => ~(mem.setAge > StaleAfter)
      BY <2>2, <2>3, <2>4, <2>6 DEF MustKill, ShouldInvalidate
    <3>3. start = "done" => chain.age <= mem.setAge + MaxConfirm
      BY <2>2, <2>6 DEF BotInv, MemoryIsTimely
    <3>4. QED
      BY <3>1, <3>2, <3>3, SlackIs, FieldTypes, Bounds DEF RecentEnough
  <2>7. QED
    BY <2>5, <2>6, FieldTypes
<1>2. QED
  BY <1>1, BotInvAlways, PTL DEF Spec, StandingDownIsSafe

\* However runs begin, stand down, fail and crash, no book is left resting that the bot does
\* not stand behind: at the start of a run, and whenever a pass holds or halts (the whole of
\* run_supervisor in tasks.rs).
THEOREM NoBookLeftResting == Spec => NoBookIsLeftResting
  BY StartupKillsStaleBooks, StandDownsAreSafe, PTL DEF NoBookIsLeftResting

------------------------------------------------------------------------------
(* The inventory policy: its arithmetic.                                    *)

\* The scales, thresholds and rates, as numbers.
LEMMA Scales ==
    /\ ReshapePct \in Nat /\ FreezePct \in Nat /\ HaltPct \in Nat
    /\ SkewRate \in Nat /\ SkewCap \in Nat
    /\ FloorFrac \in Nat /\ FloorFrac <= 1000
    /\ DegradedScale \in Nat /\ DegradedScale <= 1000
    /\ ReshapeScale \in Nat /\ ReshapeScale <= 1000
<1>1. \A x \in {FloorFrac, DegradedScale, ReshapeScale} : x \in 0 .. 1000
  BY PolicyAssumption
<1>2. \A x \in 0 .. 1000 : x \in Nat /\ x <= 1000
  OBVIOUS
<1>3. \A x \in {ReshapePct, FreezePct, HaltPct, SkewRate, SkewCap} : x \in Nat
  BY PolicyAssumption
<1>4. FloorFrac \in 0 .. 1000 /\ DegradedScale \in 0 .. 1000 /\ ReshapeScale \in 0 .. 1000
  BY <1>1
<1>5. /\ ReshapePct \in Nat /\ FreezePct \in Nat /\ HaltPct \in Nat
      /\ SkewRate \in Nat /\ SkewCap \in Nat
  BY <1>3
<1>6. QED
  BY <1>2, <1>4, <1>5

\* An inventory is two amounts.
Valued == [base : Nat, quote : Nat]

\* What a vault holds has a value in whole amounts.
LEMMA ValuesAreWhole ==
    ASSUME NEW held \in Holdings, NEW mid \in Mids
    PROVE  ValueAt(held, mid) \in Valued
<1>1. held \in Nat \X Nat /\ mid \in Nat
  BY InventoryAssumption
<1>2. held[1] \in Nat /\ held[2] \in Nat
  BY <1>1
<1>3. held[1] * mid \in Nat
  BY <1>1, <1>2, TimesType
<1>4. QED
  BY <1>2, <1>3 DEF ValueAt, Valued

\* What an inventory comes to, and how far it leans.
LEMMA Leaning ==
    ASSUME NEW inv \in Valued
    PROVE  /\ TotalUsd(inv) \in Nat /\ Gap(inv) \in Int
           /\ Magnitude(Gap(inv)) \in Nat
           /\ Accumulating(inv) \in Side
  BY DEF Valued, TotalUsd, Gap, Magnitude, Accumulating, Side

\* An imbalance over a threshold is over it when the threshold is scaled down.
LEMMA OverStaysOver ==
    ASSUME NEW inv \in Valued, NEW pct \in Nat, NEW scale \in Nat, scale <= 1000,
           ImbalanceOver(inv, pct, 1000)
    PROVE  ImbalanceOver(inv, pct, scale)
<1> DEFINE total == TotalUsd(inv)
<1>1. total \in Nat /\ Magnitude(Gap(inv)) \in Nat
  BY Leaning
<1>2. pct * scale <= pct * 1000 /\ pct * scale \in Nat /\ pct * 1000 \in Nat
  <2>1. scale * pct <= 1000 * pct
    BY TimesMono
  <2>2. QED
    BY <2>1, TimesType
<1>3. (pct * scale) * total <= (pct * 1000) * total
  BY <1>1, <1>2, TimesMono
<1>4. (pct * scale) * total \in Nat /\ (pct * 1000) * total \in Nat
  BY <1>1, <1>2, TimesType
<1>5. total > 0 /\ Magnitude(Gap(inv)) * 100 * 1000 > (pct * 1000) * total
  BY DEF ImbalanceOver
<1> HIDE DEF total
<1>6. Magnitude(Gap(inv)) * 100 * 1000 > (pct * scale) * total
  BY <1>1, <1>3, <1>4, <1>5
<1>7. QED
  BY <1>5, <1>6 DEF ImbalanceOver, total

\* Scaling down the drawdown a launch permits raises the floor.
LEMMA BelowStaysBelow ==
    ASSUME NEW inv \in Valued, NEW launch \in Nat, NEW scale \in Nat, scale <= 1000,
           BelowFloor(inv, launch, 1000)
    PROVE  BelowFloor(inv, launch, scale)
<1> DEFINE room == 1000 - FloorFrac
           a    == 1000000 - room * 1000
           b    == 1000000 - room * scale
<1>1. room \in Nat /\ room <= 1000
  BY Scales
<1>2. scale * room <= 1000 * room /\ room * 1000 <= 1000 * 1000
  BY <1>1, TimesMono
<1>3. a \in Nat /\ b \in Nat /\ a <= b
  <2>1. room * scale \in Nat /\ room * 1000 \in Nat
    BY <1>1, TimesType
  <2>2. room * scale <= room * 1000
    BY <1>1, <1>2
  <2> HIDE DEF room
  <2>3. QED
    BY <1>2, <2>1, <2>2
<1>4. a * launch <= b * launch
  BY <1>3, TimesMono
<1>5. TotalUsd(inv) * 1000000 <= launch * a
  BY DEF BelowFloor
<1>6. launch * a = a * launch /\ launch * b = b * launch /\ a * launch \in Nat /\ b * launch \in Nat
  <2> HIDE DEF a, b
  <2>1. QED
    BY <1>3, TimesType
<1>7. TotalUsd(inv) * 1000000 <= launch * b
  <2> HIDE DEF a, b
  <2>1. QED
    BY <1>4, <1>5, <1>6, Leaning
<1>8. QED
  BY <1>7 DEF BelowFloor

\* What the feeds may say.
LEMMA FairType ==
    ASSUME NEW fair \in Fairs
    PROVE  fair \in [{"degraded", "usdc", "basis", "silent", "shortfall"} -> BOOLEAN]
  BY PolicyAssumption

\* A verdict is one of these.
LEMMA VerdictIs ==
    ASSUME NEW fair \in [{"degraded", "usdc", "basis", "silent", "shortfall"} -> BOOLEAN],
           NEW inv, NEW launch
    PROVE  /\ fair.silent \/ fair.shortfall \/ fair.usdc \/ fair.basis
                => Evaluate(fair, inv, launch).act = "halt"
           /\ ~(fair.silent \/ fair.shortfall \/ fair.usdc \/ fair.basis)
                => Evaluate(fair, inv, launch) =
                     IF BelowFloor(inv, launch, ScaleOf(fair)) THEN Halt("TvlFloor")
                     ELSE IF ImbalanceOver(inv, HaltPct, ScaleOf(fair)) THEN Halt("ImbalanceCritical")
                     ELSE IF ImbalanceOver(inv, FreezePct, ScaleOf(fair)) THEN FreezeSide(Accumulating(inv))
                     ELSE IF ImbalanceOver(inv, ReshapePct, ScaleOf(fair)) THEN Reshape(Accumulating(inv))
                     ELSE Quoting
<1>1. /\ fair.silent \in BOOLEAN /\ fair.shortfall \in BOOLEAN
      /\ fair.usdc \in BOOLEAN /\ fair.basis \in BOOLEAN
  OBVIOUS
<1>2. CASE fair.silent
  BY <1>2 DEF Evaluate, Halt
<1>3. CASE ~fair.silent /\ fair.shortfall
  BY <1>3 DEF Evaluate, Halt
<1>4. CASE ~fair.silent /\ ~fair.shortfall /\ fair.usdc
  BY <1>4 DEF Evaluate, Halt
<1>5. CASE ~fair.silent /\ ~fair.shortfall /\ ~fair.usdc /\ fair.basis
  BY <1>5 DEF Evaluate, Halt
<1>6. CASE ~fair.silent /\ ~fair.shortfall /\ ~fair.usdc /\ ~fair.basis
  BY <1>6 DEF Evaluate
<1>7. QED
  BY <1>1, <1>2, <1>3, <1>4, <1>5, <1>6

------------------------------------------------------------------------------
(* The inventory policy: no fault makes the bot bolder.                     *)

\* How severe a verdict is.
LEMMA SeverityIs ==
    /\ Severity(Quoting) = 0
    /\ \A s : Severity(Reshape(s)) = 1 /\ Severity(FreezeSide(s)) = 2
    /\ \A reason : Severity(Halt(reason)) = 3
    /\ \A action : action.act = "halt" => Severity(action) = 3
  BY DEF Severity, Quoting, Reshape, FreezeSide, Halt

\* No verdict is more severe than a halt.
LEMMA SeverityType ==
    ASSUME NEW fair \in Fairs, NEW inv, NEW launch
    PROVE  Severity(Evaluate(fair, inv, launch)) \in 0 .. 3
<1>1. CASE fair.silent \/ fair.shortfall \/ fair.usdc \/ fair.basis
  BY <1>1, FairType, VerdictIs, SeverityIs
<1>2. CASE ~(fair.silent \/ fair.shortfall \/ fair.usdc \/ fair.basis)
  BY <1>2, FairType, VerdictIs, SeverityIs
<1>3. QED
  BY <1>1, <1>2

\* Degrading a composition leaves its verdict or makes it a more severe one.
LEMMA DegradingIsNeverBolder ==
    ASSUME NEW fair \in Fairs, NEW inv \in Valued, NEW launch \in Nat
    PROVE  Severity(Evaluate([fair EXCEPT !.degraded = TRUE], inv, launch))
               >= Severity(Evaluate(fair, inv, launch))
<1> DEFINE worse == [fair EXCEPT !.degraded = TRUE]
           stops(f) == f.silent \/ f.shortfall \/ f.usdc \/ f.basis
<1>1. /\ fair \in [{"degraded", "usdc", "basis", "silent", "shortfall"} -> BOOLEAN]
      /\ worse \in [{"degraded", "usdc", "basis", "silent", "shortfall"} -> BOOLEAN]
  BY FairType
<1>2. /\ worse.silent = fair.silent /\ worse.shortfall = fair.shortfall
      /\ worse.usdc = fair.usdc /\ worse.basis = fair.basis
      /\ worse.degraded = TRUE
  BY <1>1
<1>3. CASE stops(fair)
  <2>1. Evaluate(fair, inv, launch).act = "halt" /\ Evaluate(worse, inv, launch).act = "halt"
    BY <1>1, <1>2, <1>3, VerdictIs
  <2>2. QED
    BY <2>1, SeverityIs
<1>4. CASE ~stops(fair) /\ fair.degraded
  <2>1. fair["degraded"] = TRUE
    BY <1>1, <1>4
  <2>2. \A x \in {"degraded", "usdc", "basis", "silent", "shortfall"} : worse[x] = fair[x]
    BY <1>1, <2>1
  <2>3. worse = fair
    BY <1>1, <2>2
  <2>4. Severity(Evaluate(fair, inv, launch)) \in 0 .. 3
    BY SeverityType
  <2> HIDE DEF worse
  <2>5. Severity(Evaluate(worse, inv, launch)) >= Severity(Evaluate(fair, inv, launch))
    BY <2>3, <2>4
  <2>6. QED
    BY <2>5 DEF worse
<1>5. CASE ~stops(fair) /\ ~fair.degraded
  <2>1. ScaleOf(worse) = DegradedScale /\ ScaleOf(fair) = 1000
    BY <1>2, <1>5 DEF ScaleOf
  <2>2. Evaluate(fair, inv, launch) =
          IF BelowFloor(inv, launch, 1000) THEN Halt("TvlFloor")
          ELSE IF ImbalanceOver(inv, HaltPct, 1000) THEN Halt("ImbalanceCritical")
          ELSE IF ImbalanceOver(inv, FreezePct, 1000) THEN FreezeSide(Accumulating(inv))
          ELSE IF ImbalanceOver(inv, ReshapePct, 1000) THEN Reshape(Accumulating(inv))
          ELSE Quoting
    BY <1>1, <1>5, <2>1, VerdictIs
  <2>3. Evaluate(worse, inv, launch) =
          IF BelowFloor(inv, launch, DegradedScale) THEN Halt("TvlFloor")
          ELSE IF ImbalanceOver(inv, HaltPct, DegradedScale) THEN Halt("ImbalanceCritical")
          ELSE IF ImbalanceOver(inv, FreezePct, DegradedScale) THEN FreezeSide(Accumulating(inv))
          ELSE IF ImbalanceOver(inv, ReshapePct, DegradedScale) THEN Reshape(Accumulating(inv))
          ELSE Quoting
    <3>1. ~stops(worse)
      BY <1>2, <1>5
    <3>2. QED
      BY <1>1, <2>1, <3>1, VerdictIs
  <2>4. BelowFloor(inv, launch, 1000) => BelowFloor(inv, launch, DegradedScale)
    BY BelowStaysBelow, Scales
  <2>5. \A pct \in {ReshapePct, FreezePct, HaltPct} :
            ImbalanceOver(inv, pct, 1000) => ImbalanceOver(inv, pct, DegradedScale)
    BY OverStaysOver, Scales
  <2>6. CASE BelowFloor(inv, launch, DegradedScale) \/ ImbalanceOver(inv, HaltPct, DegradedScale)
    <3>1. Severity(Evaluate(worse, inv, launch)) = 3
      BY <2>3, <2>6, SeverityIs
    <3>2. QED
      BY <3>1, SeverityType
  <2>7. CASE ~(BelowFloor(inv, launch, DegradedScale) \/ ImbalanceOver(inv, HaltPct, DegradedScale))
    <3>1. ~BelowFloor(inv, launch, 1000) /\ ~ImbalanceOver(inv, HaltPct, 1000)
      BY <2>4, <2>5, <2>7
    <3>2. CASE ImbalanceOver(inv, FreezePct, DegradedScale)
      <4>1. Severity(Evaluate(worse, inv, launch)) = 2
        BY <2>3, <2>7, <3>2, SeverityIs
      <4>2. Severity(Evaluate(fair, inv, launch)) \in {0, 1, 2}
        BY <2>2, <3>1, SeverityIs
      <4>3. QED
        BY <4>1, <4>2
    <3>3. CASE ~ImbalanceOver(inv, FreezePct, DegradedScale) /\ ImbalanceOver(inv, ReshapePct, DegradedScale)
      <4>1. Severity(Evaluate(worse, inv, launch)) = 1
        BY <2>3, <2>7, <3>3, SeverityIs
      <4>2. Severity(Evaluate(fair, inv, launch)) \in {0, 1}
        BY <2>2, <2>5, <3>1, <3>3, SeverityIs
      <4>3. QED
        BY <4>1, <4>2
    <3>4. CASE ~ImbalanceOver(inv, FreezePct, DegradedScale) /\ ~ImbalanceOver(inv, ReshapePct, DegradedScale)
      <4>1. Severity(Evaluate(worse, inv, launch)) = 0 /\ Severity(Evaluate(fair, inv, launch)) = 0
        BY <2>2, <2>3, <2>5, <2>7, <3>1, <3>4, SeverityIs
      <4>2. QED
        BY <4>1
    <3>5. QED
      BY <3>2, <3>3, <3>4
  <2>8. QED
    BY <2>6, <2>7
<1>6. QED
  BY <1>1, <1>3, <1>4, <1>5

\* A missing input or a breach stops the bot.
LEMMA BreachesHalt ==
    ASSUME NEW fair \in Fairs, NEW inv, NEW launch,
           NEW flag \in {"usdc", "basis", "silent", "shortfall"}
    PROVE  Evaluate([fair EXCEPT ![flag] = TRUE], inv, launch).act = "halt"
<1> DEFINE worse == [fair EXCEPT ![flag] = TRUE]
<1>1. worse \in [{"degraded", "usdc", "basis", "silent", "shortfall"} -> BOOLEAN]
  BY FairType
<1>2. worse[flag] = TRUE
  BY FairType
<1>3. worse.silent \/ worse.shortfall \/ worse.usdc \/ worse.basis
  BY <1>2
<1>4. QED
  BY <1>1, <1>3, VerdictIs

------------------------------------------------------------------------------
(* The inventory policy: the ladder and the skew lean out of the heavy leg. *)

\* A smaller summand at every place makes a sum no greater.
LEMMA SumMono ==
    ASSUME NEW S, IsFiniteSet(S), NEW f \in [S -> Nat], NEW g \in [S -> Nat],
           \A x \in S : f[x] <= g[x]
    PROVE  SumOf(f) <= SumOf(g)
<1> DEFINE rest == [x \in S |-> g[x] - f[x]]
<1>1. rest \in [S -> Nat]
  OBVIOUS
<1>2. [x \in S |-> f[x] + rest[x]] = g
  OBVIOUS
<1>3. SumOf(g) = SumOf(f) + SumOf(rest)
  <2> HIDE DEF rest
  <2>1. SumOf([x \in S |-> f[x] + rest[x]]) = SumOf(f) + SumOf(rest)
    BY <1>1, SumPlus
  <2>2. QED
    BY <1>2, <2>1
<1>4. SumOf(f) \in Nat /\ SumOf(rest) \in Nat /\ SumOf(g) \in Nat
  BY <1>1, SumType
<1>5. QED
  BY <1>3, <1>4

\* A ladder is a function from its finitely many levels.
LEMMA LadderType ==
    /\ Ladder \in [DOMAIN Ladder -> Nat] /\ IsFiniteSet(DOMAIN Ladder)
    /\ BPS \in Nat /\ BPS > 0
    /\ SizeSum(Ladder) \in Nat /\ SizeSum(Ladder) > 0 /\ SizeSum(Ladder) <= BPS
<1>1. PICK n \in Nat : Ladder \in [1 .. n -> Nat]
  BY LadderAssumption
<1>2. IsFiniteSet(1 .. n)
  BY <1>1, FS_Interval
<1>3. SizeSum(Ladder) \in 1 .. BPS /\ BPS \in Nat \ {0}
  BY LadderAssumption
<1>4. QED
  BY <1>1, <1>2, <1>3

\* A side zeroed commits nothing.
LEMMA ZeroSideIsNothing == SizeSum(ZeroSide(Ladder)) = 0
<1>1. DOMAIN ZeroSide(Ladder) = DOMAIN Ladder /\ \A x \in DOMAIN Ladder : ZeroSide(Ladder)[x] = 0
  BY DEF ZeroSide
<1>2. Cells(ZeroSide(Ladder)) = {}
  <2>1. \A x \in DOMAIN Ladder : {x} \X (1 .. ZeroSide(Ladder)[x]) = {}
    BY <1>1
  <2>2. QED
    BY <1>1, <2>1 DEF Cells
<1>3. QED
  BY <1>2, FS_EmptySet DEF SizeSum, SumOf

\* scale_side never leaves a side over a whole one, whatever it scales it by, and a side
\* shrunk commits no more than before.
LEMMA ScaleSideFits ==
    ASSUME NEW S, IsFiniteSet(S), NEW levels \in [S -> Nat], NEW scale \in Nat
    PROVE  /\ SizeSum(ScaleSide(levels, scale)) \in 0 .. BPS
           /\ scale <= 1000 /\ SizeSum(levels) <= BPS
                => SizeSum(ScaleSide(levels, scale)) <= SizeSum(levels)
<1> DEFINE scaled == [i \in S |-> (levels[i] * scale) \div 1000]
           sum    == SizeSum(scaled)
           shrunk == [i \in S |-> (scaled[i] * BPS) \div sum]
<1>1. scaled \in [S -> Nat] /\ sum \in Nat
  <2>1. ASSUME NEW i \in S PROVE (levels[i] * scale) \div 1000 \in Nat
    BY TimesType, DivFits
  <2>2. scaled \in [S -> Nat]
    BY <2>1
  <2> HIDE DEF scaled
  <2>3. QED
    BY <2>2, SumType DEF SizeSum
<1>2. ScaleSide(levels, scale) = IF sum > BPS THEN shrunk ELSE scaled
  BY DEF ScaleSide
<1>3. sum > BPS => SizeSum(shrunk) \in Nat /\ SizeSum(shrunk) <= BPS
  <2> HIDE DEF scaled
  <2> SUFFICES ASSUME sum > BPS PROVE SizeSum(shrunk) \in Nat /\ SizeSum(shrunk) <= BPS
    OBVIOUS
  <2>1. SumOf(scaled) <= sum /\ sum > 0 /\ BPS \in Nat
    BY <1>1, LadderType DEF SizeSum
  <2> DEFINE quotas == [x \in S |-> (BPS * scaled[x]) \div sum]
  <2>2. quotas \in [S -> Nat] /\ SumOf(quotas) <= BPS
    <3> HIDE DEF sum
    <3>1. QED
      BY <1>1, <2>1, QuotasFit
  <2>3. shrunk = quotas
    BY <1>1, <2>1
  <2>4. QED
    BY <2>2, <2>3, SumType DEF SizeSum
<1>4. ASSUME scale <= 1000
      PROVE  sum <= SizeSum(levels)
  <2>1. ASSUME NEW i \in S PROVE scaled[i] <= levels[i]
    <3>1. levels[i] * scale <= levels[i] * 1000
      BY <1>4, TimesMono
    <3>2. levels[i] * scale \in Nat
      BY TimesType
    <3>3. QED
      BY <3>1, <3>2, DivBound
  <2> HIDE DEF scaled
  <2>2. QED
    BY <1>1, <2>1, SumMono DEF SizeSum
<1>5. SizeSum(levels) \in Nat
  BY SumType DEF SizeSum
<1> HIDE DEF scaled, shrunk, sum
<1>6. sum = SizeSum(scaled) /\ BPS \in Nat
  BY LadderType DEF sum
<1>7. QED
  BY <1>1, <1>2, <1>3, <1>4, <1>5, <1>6

\* The accumulating side of a verdict on one side is that side, and the others name none.
LEMMA VerdictCases ==
    ASSUME NEW fair \in Fairs, NEW inv \in Valued, NEW launch
    PROVE  LET action == Evaluate(fair, inv, launch)
           IN  \/ action.act = "halt"
               \/ action = FreezeSide(Accumulating(inv))
               \/ action = Reshape(Accumulating(inv))
               \/ action = Quoting
<1>1. CASE fair.silent \/ fair.shortfall \/ fair.usdc \/ fair.basis
  BY <1>1, FairType, VerdictIs
<1>2. CASE ~(fair.silent \/ fair.shortfall \/ fair.usdc \/ fair.basis)
  BY <1>2, FairType, VerdictIs DEF Halt
<1>3. QED
  BY <1>1, <1>2

\* What a verdict arms: nothing, one side cut, one side shrunk, or both sides whole.
LEMMA ArmedIs ==
    ASSUME NEW s \in Side, NEW t \in Side
    PROVE  /\ \A action : action.act = "halt" => ProfileOf(action)[t] = ZeroSide(Ladder)
           /\ ProfileOf(FreezeSide(s))[t] = IF t = s THEN ZeroSide(Ladder) ELSE Ladder
           /\ ProfileOf(Reshape(s))[t] = IF t = s THEN ScaleSide(Ladder, ReshapeScale) ELSE Ladder
           /\ ProfileOf(Quoting)[t] = Ladder
           /\ FreezeSide(s).act = "freeze" /\ Reshape(s).act = "reshape" /\ Quoting.act = "quote"
  BY DEF ProfileOf, FreezeSide, Reshape, Quoting, BuildProfile, Side

\* The skew is within its cap, and moves the price the way that sheds the heavy leg.
LEMMA SkewLeansOut ==
    ASSUME NEW inv \in Valued
    PROVE  /\ RefSkew(inv) \in -SkewCap .. SkewCap
           /\ RefSkew(inv) < 0 => Accumulating(inv) = "bid"
           /\ RefSkew(inv) > 0 => Accumulating(inv) = "ask"
<1> DEFINE points == (Magnitude(Gap(inv)) * 100 * SkewRate) \div (2 * TotalUsd(inv))
<1>1. CASE TotalUsd(inv) <= 0
  BY <1>1, Scales DEF RefSkew
<1>2. CASE ~(TotalUsd(inv) <= 0)
  <2>1. points \in Nat
    <3>1. 2 * TotalUsd(inv) \in Nat /\ 2 * TotalUsd(inv) > 0
      BY <1>2, Leaning
    <3>2. Magnitude(Gap(inv)) * 100 \in Nat
      BY Leaning
    <3>3. Magnitude(Gap(inv)) * 100 * SkewRate \in Nat
      BY <3>2, Scales, TimesType
    <3>4. QED
      BY <3>1, <3>3, DivFits
  <2>2. RefSkew(inv) = Clamp(IF BaseHeavy(inv) THEN -points ELSE points, SkewCap)
    BY <1>2 DEF RefSkew
  <2> HIDE DEF points
  <2>3. CASE BaseHeavy(inv)
    BY <2>1, <2>2, <2>3, Scales DEF Clamp, Accumulating
  <2>4. CASE ~BaseHeavy(inv)
    BY <2>1, <2>2, <2>4, Scales DEF Clamp, Accumulating
  <2>5. QED
    BY <2>3, <2>4
<1>3. QED
  BY <1>1, <1>2

\* The profile a verdict arms leans out of the heavy leg, and passes no side's whole.
LEMMA ProfileLeansOut ==
    ASSUME NEW fair \in Fairs, NEW inv \in Valued, NEW launch
    PROVE  LET action  == Evaluate(fair, inv, launch)
               profile == ProfileOf(action)
               adds    == Accumulating(inv)
           IN  /\ SizeSum(profile[adds]) <= SizeSum(profile[OtherSide(adds)])
               /\ \A s \in Side : SizeSum(profile[s]) <= BPS
               /\ action.act = "freeze" => SizeSum(profile[adds]) = 0 /\ SizeSum(profile[OtherSide(adds)]) > 0
<1> DEFINE action  == Evaluate(fair, inv, launch)
           profile == ProfileOf(action)
           adds    == Accumulating(inv)
           off     == OtherSide(adds)
           cut     == SizeSum(ScaleSide(Ladder, ReshapeScale))
<1>1. adds \in Side /\ off \in Side /\ adds # off /\ \A s \in Side : s = adds \/ s = off
  BY DEF OtherSide, Side, Accumulating
<1>2. SizeSum(ZeroSide(Ladder)) = 0
  BY ZeroSideIsNothing
<1>3. cut \in Nat /\ cut <= BPS /\ cut <= SizeSum(Ladder)
  <2>1. cut \in 0 .. BPS /\ cut <= SizeSum(Ladder)
    BY LadderType, ScaleSideFits, Scales
  <2> HIDE DEF cut
  <2>2. QED
    BY <2>1, LadderType
<1>4. \/ action.act = "halt" \/ action = FreezeSide(adds) \/ action = Reshape(adds) \/ action = Quoting
  BY VerdictCases
<1> HIDE DEF action, adds, off
<1>5. CASE action.act = "halt"
  <2>1. profile[adds] = ZeroSide(Ladder) /\ profile[off] = ZeroSide(Ladder)
    BY <1>1, <1>5, ArmedIs
  <2>2. QED
    BY <1>1, <1>2, <1>5, <2>1, LadderType DEF action, adds, off
<1>6. CASE action = FreezeSide(adds)
  <2>1. profile[adds] = ZeroSide(Ladder) /\ profile[off] = Ladder
    BY <1>1, <1>6, ArmedIs
  <2>2. QED
    BY <1>1, <1>2, <2>1, LadderType DEF action, adds, off
<1>7. CASE action = Reshape(adds)
  <2>1. profile[adds] = ScaleSide(Ladder, ReshapeScale) /\ profile[off] = Ladder /\ action.act = "reshape"
    BY <1>1, <1>7, ArmedIs
  <2>2. QED
    BY <1>1, <1>3, <2>1, LadderType DEF action, adds, off
<1>8. CASE action = Quoting
  <2>1. profile[adds] = Ladder /\ profile[off] = Ladder /\ action.act = "quote"
    BY <1>1, <1>8, ArmedIs
  <2>2. QED
    BY <1>1, <2>1, LadderType DEF action, adds, off
<1>9. QED
  BY <1>4, <1>5, <1>6, <1>7, <1>8

------------------------------------------------------------------------------
(* The inventory policy: what the bot goes by.                              *)

Fill    == [nonce : Nat \ {0}, held : Holdings]
Maybe   == Holdings \cup {Nothing}
Verdicts == {Nothing} \cup
    [fair : Fairs, mid : Mids,
     action : {Evaluate(fair, inv, launch) : fair \in Fairs, inv \in Valued, launch \in Nat}]
RunType == [vault : [nonce : Nat, held : Holdings], flows : Nat, starts : Nat,
            pc : {"idle", "drained"}, ring : Seq(Fill), notes : SUBSET Fill,
            link : BOOLEAN, sink : BOOLEAN, active : BOOLEAN, got : Fill \cup {NoFill},
            position : Maybe, launch : Nat \cup {Nothing},
            used : {"none", "fresh", "late"}, seen : Maybe, valued : Maybe,
            verdict : Verdicts]

\* A fill on its way is one of the vault's, and the newest says what the vault holds until a
\* leg moves without one.
Tells(fill) == /\ fill.nonce <= bot.vault.nonce
               /\ fill.nonce = bot.vault.nonce /\ bot.flows = 0 => fill.held = bot.vault.held

FillsAreOfTheVault ==
    /\ \A fill \in bot.notes : Tells(fill)
    /\ \A i \in DOMAIN bot.ring : Tells(bot.ring[i])
    /\ bot.got # NoFill => Tells(bot.got)

\* The last verdict was reached on what is remembered of its cycle.
VerdictStands ==
    bot.verdict # Nothing =>
        /\ bot.valued \in Holdings /\ bot.launch \in Nat
        /\ bot.verdict.fair \in Fairs /\ bot.verdict.mid \in Mids
        /\ bot.verdict.action = Evaluate(bot.verdict.fair, Inv, bot.launch)

\* The inductive invariant.
PolicyInv == bot \in RunType /\ FillsAreOfTheVault /\ VerdictStands /\ JudgesTheChain

\* The fields of a run.
LEMMA RunFields ==
    ASSUME bot \in RunType
    PROVE  /\ bot.vault \in [nonce : Nat, held : Holdings] /\ bot.flows \in Nat /\ bot.starts \in Nat
           /\ bot.pc \in {"idle", "drained"} /\ bot.ring \in Seq(Fill) /\ bot.notes \in SUBSET Fill
           /\ bot.link \in BOOLEAN /\ bot.sink \in BOOLEAN /\ bot.active \in BOOLEAN
           /\ bot.got \in Fill \cup {NoFill} /\ bot.position \in Maybe /\ bot.launch \in Nat \cup {Nothing}
           /\ bot.used \in {"none", "fresh", "late"} /\ bot.seen \in Maybe /\ bot.valued \in Maybe
           /\ bot.verdict \in Verdicts
           /\ bot.vault.nonce \in Nat /\ bot.vault.held \in Holdings
  BY DEF RunType

\* Every nonempty set of naturals with a bound has a greatest element.
LEMMA GreatestOf ==
    ASSUME NEW k \in Nat, NEW T, T \subseteq 0 .. k, T # {}
    PROVE  \E m \in T : \A n \in T : n <= m
<1> DEFINE below == {k - n : n \in T}
<1>0. \A n \in T : n \in Nat /\ n <= k /\ k - n \in Nat
  OBVIOUS
<1>1. below \subseteq Nat /\ below # {}
  BY <1>0
<1>2. PICK l \in below : \A n \in below : <<n, l>> \notin OpToRel(<, Nat)
  BY <1>1, NatLessThanWellFounded, WFMin
<1>3. PICK m \in T : l = k - m
  BY <1>2
<1>4. ASSUME NEW n \in T
      PROVE  n <= m
  <2>1. k - n \in below /\ k - n \in Nat /\ l \in Nat
    BY <1>1, <1>2
  <2>2. ~(k - n < l)
    BY <1>2, <2>1 DEF OpToRel
  <2>3. n \in Int /\ m \in Int
    OBVIOUS
  <2>4. QED
    BY <1>3, <2>2, <2>3
<1>5. QED
  BY <1>4

\* The latest of what was drained was drained.
LEMMA LatestWasDrained ==
    ASSUME NEW ring \in Seq(Fill), ring # <<>>, NEW k \in Nat,
           \A i \in DOMAIN ring : ring[i].nonce <= k
    PROVE  \E i \in DOMAIN ring : Latest(ring) = ring[i]
<1> DEFINE nonces == {ring[i].nonce : i \in DOMAIN ring}
           newest(i) == \A j \in DOMAIN ring : ring[j].nonce <= ring[i].nonce
<1>0. \A i \in DOMAIN ring : ring[i] \in Fill
  OBVIOUS
<1>1. \A i \in DOMAIN ring : ring[i].nonce \in Nat
  BY <1>0 DEF Fill
<1>2. nonces \subseteq 0 .. k
  BY <1>1
<1>3. nonces # {}
  <2>1. 1 \in DOMAIN ring
    OBVIOUS
  <2>2. QED
    BY <2>1
<1>4. PICK m \in nonces : \A n \in nonces : n <= m
  BY <1>2, <1>3, GreatestOf
<1>5. PICK i \in DOMAIN ring : m = ring[i].nonce
  BY <1>4
<1>6. newest(i)
  BY <1>4, <1>5
<1>7. (CHOOSE n \in DOMAIN ring : newest(n)) \in DOMAIN ring
  BY <1>5, <1>6
<1>8. QED
  BY <1>7 DEF Latest

\* A run begins with nothing on its way.
LEMMA FreshIs ==
    ASSUME NEW ok \in BOOLEAN, NEW vault \in [nonce : Nat, held : Holdings],
           NEW flows \in Nat, NEW starts \in Nat
    PROVE  LET run == Fresh(ok, vault, flows, starts)
           IN  /\ run \in RunType
               /\ run.notes = {} /\ run.ring = <<>> /\ run.got = NoFill
               /\ run.verdict = Nothing /\ run.used = "none" /\ run.valued = run.seen
  BY DEF Fresh, RunType, NoFill, Maybe, Verdicts

\* A trade of the vault leaves the fills before it older than it, and adds one of its own.
LEMMA SwapStep ==
    ASSUME PolicyInv, NEW held \in Holdings, Swap(held)
    PROVE  PolicyInv'
<1>0. bot \in RunType
  BY DEF PolicyInv
<1> PICK fill : fill = [nonce |-> bot.vault.nonce + 1, held |-> held]
  OBVIOUS
<1>1. fill \in Fill /\ fill \in [nonce : Nat, held : Holdings]
  BY <1>0, RunFields DEF Fill
<1>2. bot' = [bot EXCEPT !.vault = fill, !.notes = IF bot.link THEN @ \cup {fill} ELSE @]
  BY DEF Swap
<1>3. /\ bot'.vault = fill /\ bot'.flows = bot.flows /\ bot'.ring = bot.ring /\ bot'.got = bot.got
      /\ bot'.notes = IF bot.link THEN bot.notes \cup {fill} ELSE bot.notes
      /\ bot'.used = bot.used /\ bot'.seen = bot.seen /\ bot'.valued = bot.valued
      /\ bot'.launch = bot.launch /\ bot'.verdict = bot.verdict
  BY <1>0, <1>2 DEF RunType
<1>4. bot' \in RunType
  BY <1>0, <1>1, <1>2 DEF RunType
<1>5. FillsAreOfTheVault'
  <2>1. fill.nonce = bot.vault.nonce + 1 /\ fill.held = held /\ bot.vault.nonce \in Nat
    BY <1>0, RunFields
  <2>2. \A old \in Fill : Tells(old) => Tells(old)'
    BY <1>3, <2>1 DEF Tells, Fill
  <2>3. Tells(fill)'
    BY <1>3, <2>1 DEF Tells
  <2>4. \A i \in DOMAIN bot.ring : bot.ring[i] \in Fill
    BY <1>0, RunFields
  <2>5. QED
    BY <1>0, <1>3, <2>2, <2>3, <2>4, RunFields DEF PolicyInv, FillsAreOfTheVault
<1>6. VerdictStands' /\ JudgesTheChain'
  BY <1>3 DEF PolicyInv, VerdictStands, Inv, JudgesTheChain, QuietCyclesJudgeTheChain,
              FillsTellOfTheChain
<1>7. QED
  BY <1>4, <1>5, <1>6 DEF PolicyInv

\* Once a leg has moved without one, no fill is expected to tell what the vault holds.
LEMMA FlowStep ==
    ASSUME PolicyInv, NEW held \in Holdings, ExternalFlow(held)
    PROVE  PolicyInv'
<1>0. bot \in RunType
  BY DEF PolicyInv
<1>2. bot' = [bot EXCEPT !.vault.held = held, !.flows = @ + 1]
  BY DEF ExternalFlow
<1>3. /\ bot'.vault = [bot.vault EXCEPT !.held = held] /\ bot'.flows = bot.flows + 1
      /\ bot'.ring = bot.ring /\ bot'.got = bot.got /\ bot'.notes = bot.notes
      /\ bot'.used = bot.used /\ bot'.seen = bot.seen /\ bot'.valued = bot.valued
      /\ bot'.launch = bot.launch /\ bot'.verdict = bot.verdict
  BY <1>0, <1>2 DEF RunType
<1>4. bot' \in RunType
  <2>1. [bot.vault EXCEPT !.held = held] \in [nonce : Nat, held : Holdings]
    BY <1>0, RunFields
  <2>2. bot' = [bot EXCEPT !.vault = [bot.vault EXCEPT !.held = held], !.flows = @ + 1]
    BY <1>0, <1>2 DEF RunType
  <2>3. bot.flows + 1 \in Nat
    BY <1>0, RunFields
  <2>4. QED
    BY <1>0, <2>1, <2>2, <2>3 DEF RunType
<1>5. FillsAreOfTheVault'
  <2>1. bot'.vault.nonce = bot.vault.nonce /\ bot'.flows # 0
    BY <1>0, <1>3, RunFields
  <2>2. \A old : Tells(old) => Tells(old)'
    BY <1>3, <2>1 DEF Tells
  <2>3. QED
    BY <1>3, <2>2 DEF PolicyInv, FillsAreOfTheVault
<1>6. VerdictStands' /\ JudgesTheChain'
  <2>1. bot'.flows # 0
    BY <1>0, <1>3, RunFields
  <2>2. QED
    BY <1>3, <2>1 DEF PolicyInv, VerdictStands, Inv, JudgesTheChain, QuietCyclesJudgeTheChain,
                FillsTellOfTheChain
<1>7. QED
  BY <1>4, <1>5, <1>6 DEF PolicyInv

\* What is in the channel was in it, or is the fill passed on.
LEMMA PushedIs ==
    ASSUME NEW ring \in Seq(Fill), NEW fill \in Fill
    PROVE  /\ Pushed(ring, fill) \in Seq(Fill)
           /\ \A i \in DOMAIN Pushed(ring, fill) :
                 Pushed(ring, fill)[i] = fill \/ \E j \in DOMAIN ring : Pushed(ring, fill)[i] = ring[j]
<1> DEFINE longer == Append(ring, fill)
<1>1. longer \in Seq(Fill) /\ Len(longer) = Len(ring) + 1 /\ longer # <<>>
  <2>1. longer \in Seq(Fill) /\ Len(longer) = Len(ring) + 1 /\ Len(ring) \in Nat
    OBVIOUS
  <2> HIDE DEF longer
  <2>2. QED
    BY <2>1
<1>2. \A i \in 1 .. Len(longer) :
          longer[i] = fill \/ \E j \in DOMAIN ring : longer[i] = ring[j]
  <2>1. \A i \in 1 .. Len(ring) : longer[i] = ring[i]
    OBVIOUS
  <2>2. longer[Len(ring) + 1] = fill
    OBVIOUS
  <2>3. DOMAIN ring = 1 .. Len(ring) /\ Len(ring) \in Nat
    OBVIOUS
  <2> HIDE DEF longer
  <2>4. QED
    BY <1>1, <2>1, <2>2, <2>3
<1> HIDE DEF longer
<1>3. /\ Tail(longer) \in Seq(Fill) /\ DOMAIN Tail(longer) = 1 .. Len(longer) - 1
      /\ \A i \in 1 .. Len(longer) - 1 : Tail(longer)[i] = longer[i + 1]
  BY <1>1
<1>4. Pushed(ring, fill) = IF Len(longer) > Capacity THEN Tail(longer) ELSE longer
  BY DEF Pushed, longer
<1>5. CASE Len(longer) > Capacity
  <2>1. \A i \in 1 .. Len(longer) - 1 : i + 1 \in 1 .. Len(longer)
    BY <1>1
  <2>2. QED
    BY <1>2, <1>3, <1>4, <1>5, <2>1
<1>6. CASE ~(Len(longer) > Capacity)
  BY <1>1, <1>2, <1>4, <1>6
<1>7. QED
  BY <1>5, <1>6

\* What a step leaves as it was keeps the verdict and the judgement standing.
LEMMA JudgementKept ==
    ASSUME PolicyInv,
           bot'.flows = bot.flows, bot'.used = bot.used, bot'.seen = bot.seen,
           bot'.valued = bot.valued, bot'.launch = bot.launch, bot'.verdict = bot.verdict
    PROVE  VerdictStands' /\ JudgesTheChain'
  BY DEF PolicyInv, VerdictStands, Inv, JudgesTheChain, QuietCyclesJudgeTheChain, FillsTellOfTheChain

\* Passing a fill on puts it in the channel.
LEMMA ForwardStep ==
    ASSUME PolicyInv, NEW fill \in bot.notes, Forward(fill)
    PROVE  PolicyInv'
<1> PICK ring : ring = IF bot.sink THEN Pushed(bot.ring, fill) ELSE bot.ring
  OBVIOUS
<1>0. bot \in RunType
  BY DEF PolicyInv
<1>1. fill \in Fill /\ bot.notes \ {fill} \in SUBSET Fill
  BY <1>0, RunFields
<1>2. /\ ring \in Seq(Fill)
      /\ \A i \in DOMAIN ring : ring[i] = fill \/ \E j \in DOMAIN bot.ring : ring[i] = bot.ring[j]
  <2>1. bot.ring \in Seq(Fill)
    BY <1>0, RunFields
  <2>2. CASE bot.sink
    BY <1>1, <2>1, <2>2, PushedIs
  <2>3. CASE ~bot.sink
    BY <2>1, <2>3
  <2>4. QED
    BY <2>2, <2>3
<1>3. bot' = [bot EXCEPT !.notes = bot.notes \ {fill}, !.ring = ring]
  BY <1>0 DEF Forward, RunType
<1>4. /\ bot'.notes = bot.notes \ {fill} /\ bot'.ring = ring
      /\ bot'.vault = bot.vault /\ bot'.flows = bot.flows /\ bot'.got = bot.got
      /\ bot'.used = bot.used /\ bot'.seen = bot.seen /\ bot'.valued = bot.valued
      /\ bot'.launch = bot.launch /\ bot'.verdict = bot.verdict
  BY <1>0, <1>3 DEF RunType
<1>5. bot' \in RunType
  BY <1>0, <1>1, <1>2, <1>3 DEF RunType
<1>6. FillsAreOfTheVault'
  <2>1. \A old : Tells(old) => Tells(old)'
    BY <1>4 DEF Tells
  <2>2. \A i \in DOMAIN ring : Tells(ring[i])
    BY <1>2 DEF PolicyInv, FillsAreOfTheVault
  <2>3. QED
    BY <1>4, <2>1, <2>2 DEF PolicyInv, FillsAreOfTheVault
<1>7. QED
  BY <1>4, <1>5, <1>6, JudgementKept DEF PolicyInv

\* Fills are lost, links come and go, and a cycle ends unread: nothing new is told.
LEMMA LossStep ==
    ASSUME PolicyInv,
           \/ \E fill \in bot.notes : DecodeFails(fill)
           \/ LinkDrops \/ Reconnects \/ RunnerStops \/ VaultUnread
    PROVE  PolicyInv'
<1>0. bot \in RunType
  BY DEF PolicyInv
<1> DEFINE Lost == /\ bot' \in RunType
                   /\ bot'.ring = bot.ring /\ bot'.notes \subseteq bot.notes
                   /\ bot'.got \in {bot.got, NoFill}
                   /\ bot'.vault = bot.vault /\ bot'.flows = bot.flows
                   /\ bot'.used = bot.used /\ bot'.seen = bot.seen /\ bot'.valued = bot.valued
                   /\ bot'.launch = bot.launch /\ bot'.verdict = bot.verdict
<1>1. Lost
  <2>1. ASSUME NEW fill \in bot.notes, DecodeFails(fill)
        PROVE  Lost
    <3>1. bot' = [bot EXCEPT !.notes = bot.notes \ {fill}]
      BY <1>0, <2>1 DEF DecodeFails, RunType
    <3>2. bot.notes \ {fill} \in SUBSET Fill
      BY <1>0, RunFields
    <3>3. QED
      BY <1>0, <3>1, <3>2 DEF RunType
  <2>2. CASE LinkDrops
    BY <1>0, <2>2 DEF LinkDrops, RunType
  <2>3. CASE Reconnects
    BY <1>0, <2>3 DEF Reconnects, RunType
  <2>4. CASE RunnerStops
    BY <1>0, <2>4 DEF RunnerStops, RunType
  <2>5. CASE VaultUnread
    BY <1>0, <2>5 DEF VaultUnread, RunType
  <2>6. QED
    BY <2>1, <2>2, <2>3, <2>4, <2>5
<1>3. FillsAreOfTheVault'
  <2>1. \A old : Tells(old) => Tells(old)'
    BY <1>1 DEF Tells
  <2>2. QED
    BY <1>1, <2>1 DEF PolicyInv, FillsAreOfTheVault
<1>4. QED
  BY <1>1, <1>3, JudgementKept DEF PolicyInv

\* A cycle goes by a fill out of the channel.
LEMMA DrainStep ==
    ASSUME PolicyInv, DrainFills
    PROVE  PolicyInv'
<1>0. bot \in RunType /\ bot.ring \in Seq(Fill) /\ bot.vault.nonce \in Nat
  BY RunFields DEF PolicyInv
<1>1. Latest(bot.ring) = NoFill \/ \E i \in DOMAIN bot.ring : Latest(bot.ring) = bot.ring[i]
  <2>1. CASE bot.ring = <<>>
    BY <2>1 DEF Latest
  <2>2. CASE bot.ring # <<>>
    <3>1. \A i \in DOMAIN bot.ring : bot.ring[i].nonce <= bot.vault.nonce
      BY DEF PolicyInv, FillsAreOfTheVault, Tells
    <3>2. QED
      BY <1>0, <2>2, <3>1, LatestWasDrained
  <2>3. QED
    BY <2>1, <2>2
<1>2. /\ Latest(bot.ring) \in Fill \cup {NoFill}
      /\ Latest(bot.ring) # NoFill => Tells(Latest(bot.ring))
  <2>1. \A i \in DOMAIN bot.ring : bot.ring[i] \in Fill
    BY <1>0
  <2>2. QED
    BY <1>1, <2>1 DEF PolicyInv, FillsAreOfTheVault
<1> PICK got : got = Latest(bot.ring)
  OBVIOUS
<1>3. bot' = [bot EXCEPT !.pc = "drained", !.got = got, !.ring = <<>>,
                         !.active = bot.active /\ bot.sink]
  BY <1>0 DEF DrainFills, RunType
<1>4. /\ bot'.notes = bot.notes /\ bot'.ring = <<>> /\ bot'.got = got
      /\ bot'.vault = bot.vault /\ bot'.flows = bot.flows
      /\ bot'.used = bot.used /\ bot'.seen = bot.seen /\ bot'.valued = bot.valued
      /\ bot'.launch = bot.launch /\ bot'.verdict = bot.verdict
  BY <1>0, <1>3 DEF RunType
<1>5. bot' \in RunType
  <2>1. (bot.active /\ bot.sink) \in BOOLEAN /\ <<>> \in Seq(Fill)
    BY <1>0, RunFields
  <2>2. QED
    BY <1>0, <1>2, <1>3, <2>1 DEF RunType
<1>6. FillsAreOfTheVault'
  <2>1. \A old : Tells(old) => Tells(old)'
    BY <1>4 DEF Tells
  <2>2. QED
    BY <1>2, <1>4, <2>1 DEF PolicyInv, FillsAreOfTheVault
<1>7. QED
  BY <1>4, <1>5, <1>6, JudgementKept DEF PolicyInv

\* What a cycle takes the vault to hold, and that it is what the vault held as read, where it
\* should be.
LEMMA ResolvedIs ==
    ASSUME PolicyInv
    PROVE  /\ ResolveInventory \in Holdings
           /\ Position \in Maybe
           /\ WentBy \in {"none", "fresh", "late"}
           /\ WentBy = "none" => ResolveInventory = bot.vault.held
           /\ WentBy = "fresh" /\ bot.flows = 0 => ResolveInventory = bot.vault.held
<1>0. bot \in RunType
  BY DEF PolicyInv
<1>1. /\ bot.vault.held \in Holdings /\ bot.position \in Maybe /\ bot.got \in Fill \cup {NoFill}
      /\ bot.active \in BOOLEAN /\ bot.vault.nonce \in Nat
  BY <1>0, RunFields
<1>2. CASE Got
  <2>1. bot.got \in Fill /\ bot.got.held \in Holdings /\ bot.got.nonce \in Nat
    BY <1>1, <1>2 DEF Got, Fill
  <2>2. Tells(bot.got)
    BY <1>2 DEF Got, PolicyInv, FillsAreOfTheVault
  <2>3. Position = bot.got.held
    BY <1>2 DEF Position
  <2>4. bot.active => ResolveInventory \in {bot.vault.held, bot.got.held}
    BY <1>2, <2>3 DEF ResolveInventory, DecidePosition
  <2>5. ~bot.active => ResolveInventory = bot.vault.held
    BY DEF ResolveInventory
  <2>6. WentBy = IF ~bot.active THEN "none"
                 ELSE IF bot.got.nonce >= bot.vault.nonce THEN "fresh" ELSE "late"
    BY <1>2 DEF WentBy
  <2>7. bot.got.nonce >= bot.vault.nonce /\ bot.flows = 0 => bot.got.held = bot.vault.held
    BY <1>1, <2>1, <2>2 DEF Tells
  <2>8. QED
    BY <1>1, <2>1, <2>3, <2>4, <2>5, <2>6, <2>7 DEF Maybe
<1>3. CASE ~Got
  <2>1. Position = bot.position /\ WentBy = "none"
    BY <1>3 DEF Position, WentBy
  <2>2. ResolveInventory = bot.vault.held
    BY <1>3, <2>1 DEF ResolveInventory, DecidePosition
  <2>3. QED
    BY <1>1, <2>1, <2>2
<1>4. QED
  BY <1>2, <1>3

\* A cycle judges what it takes the vault to hold.
LEMMA JudgeStep ==
    ASSUME PolicyInv, NEW fair \in Fairs, NEW mid \in Mids \cup {0}, QuoteMarket(fair, mid)
    PROVE  PolicyInv'
<1>0. bot \in RunType /\ bot.vault.held \in Holdings /\ bot.launch \in Nat \cup {Nothing}
  BY RunFields DEF PolicyInv
<1> PICK held : held = ResolveInventory
  OBVIOUS
<1> PICK inv : inv = ValueAt(held, mid)
  OBVIOUS
<1> PICK launch : launch = IF bot.launch = Nothing THEN TotalUsd(inv) ELSE bot.launch
  OBVIOUS
<1> PICK kept : kept = IF mid = 0 THEN bot.launch ELSE launch
  OBVIOUS
<1> PICK reached : reached = IF mid = 0 THEN Nothing
                             ELSE [fair |-> fair, mid |-> mid, action |-> Evaluate(fair, inv, launch)]
  OBVIOUS
<1> PICK position : position = IF bot.active THEN held ELSE Position
  OBVIOUS
<1> PICK used : used = WentBy
  OBVIOUS
<1>1. /\ held \in Holdings /\ position \in Maybe /\ used \in {"none", "fresh", "late"}
      /\ used = "none" => held = bot.vault.held
      /\ used = "fresh" /\ bot.flows = 0 => held = bot.vault.held
  BY ResolvedIs DEF Maybe
<1>2. ASSUME mid # 0
      PROVE  mid \in Mids /\ inv \in Valued /\ launch \in Nat
  <2>1. mid \in Mids
    BY <1>2
  <2>2. inv \in Valued
    BY <1>1, <2>1, ValuesAreWhole
  <2>3. QED
    BY <1>0, <2>1, <2>2, Leaning
<1>3. reached \in Verdicts /\ kept \in Nat \cup {Nothing}
  <2>1. CASE mid = 0
    BY <1>0, <2>1 DEF Verdicts
  <2>2. CASE mid # 0
    <3>1. Evaluate(fair, inv, launch) \in {Evaluate(f, i, l) : f \in Fairs, i \in Valued, l \in Nat}
      BY <1>2, <2>2
    <3>2. QED
      BY <1>2, <2>2, <3>1 DEF Verdicts
  <2>3. QED
    BY <2>1, <2>2
<1>4. bot' = [bot EXCEPT
                 !.pc = "idle", !.got = NoFill, !.position = position, !.launch = kept,
                 !.used = used, !.seen = bot.vault.held, !.valued = held, !.verdict = reached]
  BY <1>0 DEF QuoteMarket, RunType
<1>5. /\ bot'.notes = bot.notes /\ bot'.ring = bot.ring /\ bot'.got = NoFill
      /\ bot'.vault = bot.vault /\ bot'.flows = bot.flows
      /\ bot'.used = used /\ bot'.seen = bot.vault.held /\ bot'.valued = held
      /\ bot'.launch = kept /\ bot'.verdict = reached
  BY <1>0, <1>4 DEF RunType
<1>6. bot' \in RunType
  <2>1. bot.vault.held \in Maybe /\ held \in Maybe
    BY <1>0, <1>1 DEF Maybe
  <2>0. PICK half : half = [bot EXCEPT !.pc = "idle", !.got = NoFill, !.position = position,
                                       !.launch = kept]
    OBVIOUS
  <2>2. half \in RunType
    BY <1>0, <1>1, <1>3, <2>0 DEF RunType
  <2>3. bot' = [half EXCEPT !.used = used, !.seen = bot.vault.held, !.valued = held,
                            !.verdict = reached]
    BY <1>4, <2>0
  <2>4. used \in {"none", "fresh", "late"} /\ reached \in Verdicts
    BY <1>1, <1>3
  <2>5. [half EXCEPT !.used = used, !.seen = bot.vault.held, !.valued = held, !.verdict = reached]
            \in RunType
    BY <2>1, <2>2, <2>4 DEF RunType
  <2>6. QED
    BY <2>3, <2>5
<1>7. FillsAreOfTheVault'
  <2>1. \A old : Tells(old) => Tells(old)'
    BY <1>5 DEF Tells
  <2>2. QED
    BY <1>5, <2>1 DEF PolicyInv, FillsAreOfTheVault
<1>8. VerdictStands'
  <2>1. CASE mid = 0
    BY <1>5, <2>1 DEF VerdictStands
  <2>2. CASE mid # 0
    <3>1. /\ bot'.valued = held /\ bot'.launch = launch
          /\ bot'.verdict.fair = fair /\ bot'.verdict.mid = mid
          /\ bot'.verdict.action = Evaluate(fair, inv, launch)
      BY <1>5, <2>2
    <3>2. Inv' = inv
      BY <3>1 DEF Inv
    <3>3. QED
      BY <1>1, <1>2, <2>2, <3>1, <3>2 DEF VerdictStands
  <2>3. QED
    BY <2>1, <2>2
<1>9. JudgesTheChain'
  BY <1>1, <1>5 DEF JudgesTheChain, QuietCyclesJudgeTheChain, FillsTellOfTheChain
<1>10. QED
  BY <1>6, <1>7, <1>8, <1>9 DEF PolicyInv

LEMMA PolicyInvHolds == PolicySafety => []PolicyInv
<1>1. PolicyInit => PolicyInv
  <2> SUFFICES ASSUME PolicyInit PROVE PolicyInv
    OBVIOUS
  <2>1. PICK held \in Holdings, ok \in BOOLEAN : bot = Fresh(ok, [nonce |-> 0, held |-> held], 0, 1)
    BY DEF PolicyInit
  <2>2. [nonce |-> 0, held |-> held] \in [nonce : Nat, held : Holdings] /\ 0 \in Nat /\ 1 \in Nat
    OBVIOUS
  <2>3. /\ bot \in RunType /\ bot.notes = {} /\ bot.ring = <<>> /\ bot.got = NoFill
        /\ bot.verdict = Nothing /\ bot.used = "none" /\ bot.valued = bot.seen
    BY <2>1, <2>2, FreshIs
  <2>4. QED
    BY <2>3 DEF PolicyInv, FillsAreOfTheVault, VerdictStands, JudgesTheChain,
                QuietCyclesJudgeTheChain, FillsTellOfTheChain
<1>2. PolicyInv /\ [PolicyNext]_bot => PolicyInv'
  <2> SUFFICES ASSUME PolicyInv, [PolicyNext]_bot PROVE PolicyInv'
    OBVIOUS
  <2>0. bot \in RunType
    BY DEF PolicyInv
  <2>1. ASSUME NEW held \in Holdings, Swap(held) \/ ExternalFlow(held)
        PROVE  PolicyInv'
    BY <2>1, SwapStep, FlowStep
  <2>2. ASSUME NEW fill \in bot.notes, Forward(fill)
        PROVE  PolicyInv'
    BY <2>2, ForwardStep
  <2>3. CASE \/ \E fill \in bot.notes : DecodeFails(fill)
             \/ LinkDrops \/ Reconnects \/ RunnerStops \/ VaultUnread
    BY <2>3, LossStep
  <2>4. CASE DrainFills
    BY <2>4, DrainStep
  <2>5. CASE Judge
    BY <2>5, JudgeStep DEF Judge
  <2>6. CASE Restart
    <3>1. PICK ok \in BOOLEAN : bot' = Fresh(ok, bot.vault, bot.flows, bot.starts + 1)
      BY <2>6 DEF Restart
    <3>2. /\ bot.vault \in [nonce : Nat, held : Holdings] /\ bot.flows \in Nat
          /\ bot.starts + 1 \in Nat
      BY <2>0, RunFields
    <3>3. /\ bot' \in RunType /\ bot'.notes = {} /\ bot'.ring = <<>> /\ bot'.got = NoFill
          /\ bot'.verdict = Nothing /\ bot'.used = "none" /\ bot'.valued = bot'.seen
      BY <3>1, <3>2, FreshIs
    <3>4. QED
      BY <3>3 DEF PolicyInv, FillsAreOfTheVault, VerdictStands, JudgesTheChain,
                  QuietCyclesJudgeTheChain, FillsTellOfTheChain
  <2>7. CASE UNCHANGED bot
    BY <2>7 DEF PolicyInv, FillsAreOfTheVault, Tells, VerdictStands, Inv, JudgesTheChain,
                QuietCyclesJudgeTheChain, FillsTellOfTheChain
  <2>8. QED
    BY <2>1, <2>2, <2>3, <2>4, <2>5, <2>6, <2>7 DEF PolicyNext
<1>3. QED
  BY <1>1, <1>2, PTL DEF PolicySafety

\* A cycle that goes by no fill, or by one as recent as its read where no leg moved without
\* one, judges what the vault holds: however fills are lost, late or out of order, and however
\* often the bot or its subscription restarts (drain_fills and resolve_inventory of tasks.rs).
THEOREM CyclesJudgeTheChain == PolicySafety => []JudgesTheChain
  BY PolicyInvHolds, PTL DEF PolicyInv

\* For every vault, price, threshold, scale and ladder that is validated: no fault makes the
\* bot bolder, and what it arms leans out of the heavy leg (evaluate of killswitch.rs,
\* scale_side of ladder.rs, ref_skew_bps of skew.rs).
THEOREM ThePolicyIsSound == PolicySafety => []PolicyIsSound
<1>1. PolicyInv => PolicyIsSound
  <2> SUFFICES ASSUME PolicyInv, Judged PROVE PolicyIsSound
    BY DEF PolicyIsSound, NeverBolder, LeansOut
  <2>1. /\ bot.valued \in Holdings /\ bot.launch \in Nat
        /\ bot.verdict.fair \in Fairs /\ bot.verdict.mid \in Mids
        /\ bot.verdict.action = Evaluate(bot.verdict.fair, Inv, bot.launch)
    BY DEF Judged, PolicyInv, VerdictStands
  <2>2. Inv \in Valued
    BY <2>1, ValuesAreWhole DEF Inv
  <2>3. NeverBolder
    BY <2>1, <2>2, DegradingIsNeverBolder, BreachesHalt DEF NeverBolder, With
  <2>4. LeansOut
    BY <2>1, <2>2, ProfileLeansOut, SkewLeansOut DEF LeansOut
  <2>5. QED
    BY <2>3, <2>4 DEF PolicyIsSound
<1>2. QED
  BY <1>1, PolicyInvHolds, PTL
================================================================================
