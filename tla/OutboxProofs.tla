---------------------------- MODULE OutboxProofs ----------------------------
(***************************************************************************)
(* Proofs about Outbox, for every set of drainers, events and consumers,   *)
(* every batch size and every number of attempts. The inductive invariant  *)
(* OutboxInv says what a drain relies on between its statements: the       *)
(* consumers it has gone past have handled the row at hand (DrainFits),    *)
(* and a run on record was preceded by its work (RunsAreHandled).          *)
(***************************************************************************)
EXTENDS Outbox, WellFoundedInduction, TLAPS

-----------------------------------------------------------------------------
(* The first of several events or consumers. *)

\* A set of numbers has a first one.
LEMMA FirstIsLeast ==
  ASSUME NEW S \in SUBSET Nat, S # {}
  PROVE  First(S) \in S /\ \A y \in S : First(S) <= y
<1>1. PICK x \in S : \A y \in S : <<y, x>> \notin OpToRel(<, Nat)
  BY NatLessThanWellFounded, WFMin
<1>2. \A y \in S : ~(y < x)
  BY <1>1 DEF OpToRel
<1>3. \A y \in S : x <= y
  BY <1>2
<1> QED
  BY <1>3 DEF First

\* The events of a batch are numbers, and a batch with rows has some.
LEMMA EventsOfBatch ==
  ASSUME NEW batch \in SUBSET Read, batch # {}
  PROVE  /\ { x.event : x \in batch } \in SUBSET Nat /\ { x.event : x \in batch } # {}
         /\ { x.event : x \in batch } \in SUBSET Events
<1>1. \A x \in batch : x.event \in Events /\ x.event \in Nat
  BY OutboxAssumption DEF Read
<1> QED
  BY <1>1

\* The row at hand is one of the batch, and the first of it.
LEMMA CurrentIsFirst ==
  ASSUME NEW batch \in SUBSET Read, batch # {},
         NEW current, current = CHOOSE x \in batch : \A y \in batch : x.event <= y.event
  PROVE  current \in batch /\ current.event = First({ x.event : x \in batch })
<1> DEFINE E == { x.event : x \in batch }
<1>1. E \in SUBSET Nat /\ E # {}
  BY EventsOfBatch
<1>2. First(E) \in E /\ \A y \in E : First(E) <= y
  BY <1>1, FirstIsLeast
<1>3. PICK x \in batch : x.event = First(E)
  BY <1>2
<1>4. \A y \in batch : x.event <= y.event
  BY <1>2, <1>3
<1>5. current \in batch /\ \A y \in batch : current.event <= y.event
  BY <1>3, <1>4
<1>6. x.event <= current.event /\ current.event <= x.event
  BY <1>3, <1>4, <1>5
<1>7. x.event \in Nat /\ current.event \in Nat
  BY <1>1, <1>5
<1> QED
  BY <1>3, <1>5, <1>6, <1>7

-----------------------------------------------------------------------------
(* What a drain relies on. *)

AtARow == {"check", "handle", "record", "finalize"}

\* A drain keeps what it has claimed among its candidates. At a row, every
\* consumer that is not to come any more has handled the event, or one has failed.
DrainFits(d) ==
  /\ drain[d].pc = "idle" => drain[d] = Idle
  /\ drain[d].pc \in {"claim", "reread"} => drain[d].batch = {}
  /\ drain[d].pc = "claim" => drain[d].claimed = {}
  /\ drain[d].pc = "reread" => drain[d].claimed \subseteq drain[d].ids
  /\ drain[d].pc \in AtARow =>
       /\ drain[d].batch # {} /\ drain[d].claimed = {}
       /\ drain[d].todo \subseteq Interested[Current(d).event]
       /\ \/ drain[d].failed
          \/ \A c \in Interested[Current(d).event] \ drain[d].todo :
               <<Current(d).event, c>> \in handled
       /\ drain[d].todo = {} <=> drain[d].pc = "finalize"
  /\ drain[d].pc = "record" /\ drain[d].ok => <<Current(d).event, Turn(d)>> \in handled

\* A run is recorded as succeeded after the consumer has done its work.
RunsAreHandled ==
  \A e \in Events : \A c \in Consumers : Succeeded(e, c) => <<e, c>> \in handled

OutboxInv ==
  /\ TypeOK
  /\ \A d \in Drainers : DrainFits(d)
  /\ RunsAreHandled
  /\ ProcessedIsHandled
  /\ ClaimedIsHeld

-----------------------------------------------------------------------------
(* The parts of a drain. *)

\* A drain that has its batch, its consumers and its place as before stands where
\* it did: nobody takes back the work of a consumer.
LEMMA DrainFrame ==
  ASSUME NEW d, DrainFits(d), drain'[d] = drain[d], handled \subseteq handled'
  PROVE  DrainFits(d)'
<1>1. Current(d)' = Current(d) /\ Turn(d)' = Turn(d)
  BY DEF Current, Turn
<1> QED
  BY <1>1 DEF DrainFits

\* A drain goes on with the rows it has left, from the first consumer of the first.
LEMMA ProceedFits ==
  ASSUME NEW d \in Drainers, drain \in [Drainers -> Drain],
         NEW batch \in SUBSET Read, Proceed(d, batch)
  PROVE  /\ drain' \in [Drainers -> Drain]
         /\ DrainFits(d)'
         /\ drain'[d].batch = batch
         /\ \A g \in Drainers : g # d => drain'[g] = drain[g]
<1>1. Idle \in Drain
  BY DEF Idle, Drain
<1>2. CASE batch = {}
  <2>1. drain' = [drain EXCEPT ![d] = Idle]
    BY <1>2 DEF Proceed
  <2> QED
    BY <1>1, <1>2, <2>1 DEF DrainFits, Idle, AtARow
<1>3. CASE batch # {}
  <2> DEFINE e == First({ x.event : x \in batch })
  <2>1. e \in Events
    BY <1>3, EventsOfBatch, FirstIsLeast
  <2>2. Interested[e] \subseteq Consumers
    BY <2>1, OutboxAssumption
  <2> HIDE DEF e
  <2> DEFINE D == [Idle EXCEPT !.pc = IF Interested[e] = {} THEN "finalize" ELSE "check",
                               !.batch = batch, !.todo = Interested[e]]
  <2>3. /\ D \in Drain /\ D.batch = batch /\ D.todo = Interested[e] /\ D.claimed = {}
        /\ D.pc = IF Interested[e] = {} THEN "finalize" ELSE "check"
    BY <2>2 DEF Drain, Idle
  <2> HIDE DEF D
  <2>4. drain' = [drain EXCEPT ![d] = D]
    BY <1>3 DEF Proceed, D, e
  <2>5. drain'[d] = D /\ drain' \in [Drainers -> Drain]
    BY <2>3, <2>4
  <2>6. Current(d)'.event = e
    <3>1. drain'[d].batch = batch
      BY <2>3, <2>5
    <3>2. Current(d)' = CHOOSE x \in batch : \A y \in batch : x.event <= y.event
      BY <3>1 DEF Current
    <3> QED
      BY <1>3, <3>2, CurrentIsFirst DEF e
  <2> QED
    BY <1>3, <2>3, <2>4, <2>5, <2>6 DEF DrainFits, AtARow
<1> QED
  BY <1>2, <1>3

\* A consumer is done with, and the next one or the end of the row comes.
LEMMA NextConsumerFits ==
  ASSUME NEW d \in Drainers, drain \in [Drainers -> Drain], DrainFits(d),
         drain[d].pc \in {"check", "record"}, NEW failed \in BOOLEAN,
         failed \/ (~drain[d].failed /\ <<Current(d).event, Turn(d)>> \in handled),
         NextConsumer(d, failed), handled' = handled
  PROVE  /\ drain' \in [Drainers -> Drain]
         /\ DrainFits(d)'
         /\ drain'[d].batch = drain[d].batch /\ drain'[d].claimed = drain[d].claimed
         /\ \A g \in Drainers : g # d => drain'[g] = drain[g]
<1> DEFINE rest == drain[d].todo \ {Turn(d)}
           pc   == IF rest = {} THEN "finalize" ELSE "check"
<1>1. pc \in {"finalize", "check"} /\ (rest = {} <=> pc = "finalize")
  OBVIOUS
<1>2. rest \in SUBSET Consumers /\ drain[d] \in Drain
  BY DEF Drain
<1>3. drain' = [drain EXCEPT ![d].pc = pc, ![d].todo = rest, ![d].failed = failed]
  BY DEF NextConsumer
<1>4. rest = drain[d].todo \ {Turn(d)}
  OBVIOUS
<1> HIDE DEF rest, pc
<1>5. /\ drain'[d].pc = pc /\ drain'[d].todo = rest /\ drain'[d].failed = failed
      /\ drain'[d].batch = drain[d].batch /\ drain'[d].claimed = drain[d].claimed
      /\ drain'[d].ids = drain[d].ids /\ drain'[d].ok = drain[d].ok
      /\ \A g \in Drainers : g # d => drain'[g] = drain[g]
  BY <1>2, <1>3 DEF Drain
<1>6. drain' \in [Drainers -> Drain]
  BY <1>1, <1>2, <1>3 DEF Drain
<1>7. Current(d)' = Current(d)
  BY <1>5 DEF Current
<1>8. DrainFits(d)'
  BY <1>1, <1>4, <1>5, <1>7 DEF DrainFits, AtARow
<1> QED
  BY <1>5, <1>6, <1>8
\* The row at hand and the consumer whose turn it is are what the drain says.
LEMMA AtHand ==
  ASSUME TypeOK, NEW d \in Drainers, DrainFits(d), drain[d].pc \in AtARow
  PROVE  /\ Current(d) \in drain[d].batch /\ Current(d) \in Read
         /\ Current(d).event \in Events /\ Current(d).attempts \in Nat
         /\ drain[d].pc # "finalize" =>
              /\ Turn(d) \in drain[d].todo /\ Turn(d) \in Consumers
              /\ Turn(d) \in Interested[Current(d).event]
<1>1. drain[d].batch \in SUBSET Read /\ drain[d].batch # {} /\ drain[d].todo \in SUBSET Consumers
  BY DEF TypeOK, Drain, DrainFits
<1>2. Current(d) \in drain[d].batch
  BY <1>1, CurrentIsFirst DEF Current
<1>3. drain[d].pc # "finalize" => Turn(d) \in drain[d].todo
  <2> SUFFICES ASSUME drain[d].pc # "finalize" PROVE Turn(d) \in drain[d].todo
    OBVIOUS
  <2>1. drain[d].todo # {} /\ drain[d].todo \in SUBSET Nat
    BY <1>1, OutboxAssumption DEF DrainFits
  <2> QED
    BY <2>1, FirstIsLeast DEF Turn
<1> QED
  BY <1>1, <1>2, <1>3 DEF Read, DrainFits

\* A statement of one drain leaves the others as they are.
LEMMA OthersFit ==
  ASSUME \A g \in Drainers : DrainFits(g), NEW d \in Drainers, DrainFits(d)',
         \A g \in Drainers : g # d => drain'[g] = drain[g], handled \subseteq handled'
  PROVE  \A g \in Drainers : DrainFits(g)'
BY DrainFrame

\* A claimed event stays with its drain in a step that claims nothing and in which
\* no drain gives up what it has.
LEMMA HeldFrame ==
  ASSUME ClaimedIsHeld, TypeOK, dropped \subseteq dropped',
         \A e \in Events : row'[e].status = "PROCESSING" => row[e].status = "PROCESSING",
         \A g \in Drainers : /\ drain[g].claimed \subseteq drain'[g].claimed
                             /\ drain[g].batch \subseteq drain'[g].batch
  PROVE  ClaimedIsHeld'
BY DEF ClaimedIsHeld

-----------------------------------------------------------------------------
(* The statements of a drain. *)

\* findMany takes nothing: candidates are no claim.
LEMMA SelectStep == ASSUME OutboxInv, NEW d \in Drainers, Select(d) PROVE OutboxInv'
<1> USE DEF OutboxInv
<1> DEFINE open == { e \in available : Claimable(e) }
           ids  == { e \in open : Cardinality({ x \in open : x < e }) < BatchSize }
<1>1. ids \subseteq Events
  BY DEF TypeOK
<1>2. /\ drain[d].pc = "idle"
      /\ drain' = [drain EXCEPT ![d] = [Idle EXCEPT !.pc = "claim", !.ids = ids]]
      /\ UNCHANGED <<row, available, run, handled, dropped, ended>>
  BY DEF Select
<1> HIDE DEF ids
<1>3. drain[d] = Idle
  BY <1>2 DEF DrainFits
<1>4. drain' \in [Drainers -> Drain] /\ \A g \in Drainers : g # d => drain'[g] = drain[g]
  BY <1>1, <1>2 DEF TypeOK, Drain, Idle
<1>5. DrainFits(d)'
  BY <1>2, <1>4 DEF DrainFits, Idle, AtARow, TypeOK
<1>6. TypeOK'
  BY <1>2, <1>4 DEF TypeOK, Emitted
<1>7. ClaimedIsHeld'
  <2>1. drain[d].claimed = {} /\ drain[d].batch = {}
    BY <1>3 DEF Idle
  <2> QED
    BY <1>2, <1>4, <2>1, HeldFrame
<1> QED
  BY <1>2, <1>4, <1>5, <1>6, <1>7, OthersFit DEF RunsAreHandled, ProcessedIsHandled, Succeeded, HandledByAll

\* The conditional update takes those that are still open, and the drain has them.
LEMMA ClaimStep == ASSUME OutboxInv, NEW d \in Drainers, Claim(d) PROVE OutboxInv'
<1> USE DEF OutboxInv
<1> DEFINE claimed == { e \in drain[d].ids : Claimable(e) }
<1>1. claimed \subseteq drain[d].ids /\ drain[d].ids \subseteq Events
  BY DEF TypeOK, Drain
<1>2. /\ drain[d].pc = "claim"
      /\ row' = [e \in Events |->
                   IF e \in claimed THEN [row[e] EXCEPT !.status = "PROCESSING"] ELSE row[e]]
      /\ drain' = [drain EXCEPT ![d] = IF claimed = {} THEN Idle
                                       ELSE [@ EXCEPT !.pc = "reread", !.claimed = claimed]]
      /\ UNCHANGED <<available, run, handled, dropped, ended>>
  BY DEF Claim
<1>e. \A e \in claimed : Emitted(e)
  BY DEF Claimable, Emitted, NoRow
<1> HIDE DEF claimed
<1>3. drain[d].batch = {} /\ drain[d].claimed = {}
  BY <1>2 DEF DrainFits
<1>4. /\ drain' \in [Drainers -> Drain] /\ \A g \in Drainers : g # d => drain'[g] = drain[g]
      /\ drain'[d].claimed = claimed /\ drain'[d].batch = {}
  <2>1. drain[d] \in Drain /\ Idle \in Drain /\ claimed \in SUBSET Events
    BY <1>1 DEF TypeOK, Drain, Idle
  <2>2. CASE claimed = {}
    <3>1. drain' = [drain EXCEPT ![d] = Idle]
      BY <1>2, <2>2
    <3> QED
      BY <2>1, <2>2, <3>1 DEF TypeOK, Idle
  <2>3. CASE claimed # {}
    <3>1. drain' = [drain EXCEPT ![d] = [@ EXCEPT !.pc = "reread", !.claimed = claimed]]
      BY <1>2, <2>3
    <3> QED
      BY <1>3, <2>1, <3>1 DEF TypeOK, Drain
  <2> QED
    BY <2>2, <2>3
<1>5. DrainFits(d)'
  BY <1>1, <1>2, <1>3, <1>4 DEF DrainFits, Idle, AtARow, TypeOK, Drain
<1>6. row' \in [Events -> [status : EventStatuses \cup {NoRow}, attempts : Nat]]
  BY <1>1, <1>2 DEF TypeOK, EventStatuses
<1>7. TypeOK'
  BY <1>2, <1>4, <1>6, <1>e DEF TypeOK, Emitted, NoRow
<1>8. ClaimedIsHeld'
  <2> SUFFICES ASSUME NEW e \in Events, row'[e].status = "PROCESSING", e \notin dropped
               PROVE  \E g \in Drainers : \/ e \in drain'[g].claimed
                                          \/ e \in { x.event : x \in drain'[g].batch }
    BY <1>2 DEF ClaimedIsHeld
  <2>1. CASE e \in claimed
    BY <2>1, <1>4
  <2>2. CASE e \notin claimed
    <3>1. PICK g \in Drainers : e \in drain[g].claimed \/ e \in { x.event : x \in drain[g].batch }
      BY <1>2, <2>2 DEF ClaimedIsHeld
    <3>2. g # d
      BY <1>3, <3>1
    <3> QED
      BY <1>4, <3>1, <3>2
  <2> QED
    BY <2>1, <2>2
<1>9. ProcessedIsHandled'
  <2>1. \A e \in Events : row'[e].status = "PROCESSED" => row[e].status = "PROCESSED"
    BY <1>2 DEF TypeOK
  <2> QED
    BY <1>2, <2>1 DEF ProcessedIsHandled, HandledByAll
<1> QED
  BY <1>2, <1>4, <1>5, <1>7, <1>8, <1>9, OthersFit DEF RunsAreHandled, Succeeded

\* What the drain has claimed is in PROCESSING still, so the second look finds it.
LEMMA RereadStep == ASSUME OutboxInv, NEW d \in Drainers, Reread(d) PROVE OutboxInv'
<1> USE DEF OutboxInv
<1> DEFINE found == { x \in drain[d].ids : row[x].status = "PROCESSING" }
           batch == { [event |-> e, attempts |-> row[e].attempts] : e \in found }
<1>1. batch \in SUBSET Read /\ \A e \in found : e \in { x.event : x \in batch }
  <2>1. \A e \in found : e \in Events /\ row[e].attempts \in Nat
    BY DEF TypeOK, Drain
  <2>2. batch \in SUBSET Read
    BY <2>1 DEF Read
  <2>3. ASSUME NEW e \in found PROVE \E x \in batch : x.event = e
    <3>1. [event |-> e, attempts |-> row[e].attempts] \in batch
      OBVIOUS
    <3> QED
      BY <3>1
  <2> QED
    BY <2>2, <2>3
<1>2. /\ drain[d].pc = "reread" /\ Proceed(d, batch)
      /\ UNCHANGED <<row, available, run, handled, dropped, ended>>
  BY DEF Reread
<1>f. \A e \in drain[d].claimed : row[e].status = "PROCESSING" => e \in found
  BY <1>2 DEF DrainFits
<1> HIDE DEF batch, found
<1>3. /\ drain' \in [Drainers -> Drain] /\ DrainFits(d)' /\ drain'[d].batch = batch
      /\ \A g \in Drainers : g # d => drain'[g] = drain[g]
  BY <1>1, <1>2, ProceedFits DEF TypeOK
<1>4. TypeOK'
  BY <1>2, <1>3 DEF TypeOK, Emitted
<1>5. ClaimedIsHeld'
  <2> SUFFICES ASSUME NEW e \in Events, row[e].status = "PROCESSING", e \notin dropped
               PROVE  \E g \in Drainers : \/ e \in drain'[g].claimed
                                          \/ e \in { x.event : x \in drain'[g].batch }
    BY <1>2 DEF ClaimedIsHeld
  <2>1. PICK g \in Drainers : e \in drain[g].claimed \/ e \in { x.event : x \in drain[g].batch }
    BY DEF ClaimedIsHeld
  <2>2. CASE g # d
    BY <1>3, <2>1, <2>2
  <2>3. CASE g = d
    <3>1. e \in drain[d].claimed
      BY <1>2, <2>1, <2>3 DEF DrainFits
    <3> QED
      BY <1>1, <1>3, <1>f, <3>1
  <2> QED
    BY <2>2, <2>3
<1> QED
  BY <1>2, <1>3, <1>4, <1>5, OthersFit DEF RunsAreHandled, ProcessedIsHandled, Succeeded, HandledByAll

\* A consumer that has succeeded before has handled the event.
LEMMA CheckStep == ASSUME OutboxInv, NEW d \in Drainers, Check(d) PROVE OutboxInv'
<1> USE DEF OutboxInv
<1>1. drain[d].pc = "check" /\ UNCHANGED <<row, available, run, handled, dropped, ended>>
  BY DEF Check
<1>2. /\ Current(d).event \in Events /\ Turn(d) \in Consumers /\ drain[d] \in Drain
  BY <1>1, AtHand DEF AtARow, TypeOK
<1>3. /\ drain' \in [Drainers -> Drain] /\ DrainFits(d)'
      /\ drain'[d].batch = drain[d].batch /\ drain'[d].claimed = drain[d].claimed
      /\ \A g \in Drainers : g # d => drain'[g] = drain[g]
  <2>1. CASE Succeeded(Current(d).event, Turn(d))
    <3>1. <<Current(d).event, Turn(d)>> \in handled
      BY <1>2, <2>1 DEF RunsAreHandled
    <3>2. NextConsumer(d, drain[d].failed) /\ drain[d].failed \in BOOLEAN
      BY <1>2, <2>1 DEF Check, Drain
    <3>3. drain \in [Drainers -> Drain] /\ DrainFits(d)
      BY DEF TypeOK
    <3> QED
      BY <1>1, <3>1, <3>2, <3>3, NextConsumerFits
  <2>2. CASE ~Succeeded(Current(d).event, Turn(d))
    <3>1. drain' = [drain EXCEPT ![d].pc = "handle"]
      BY <2>2 DEF Check
    <3>2. /\ drain' \in [Drainers -> Drain] /\ \A g \in Drainers : g # d => drain'[g] = drain[g]
          /\ drain'[d] = [drain[d] EXCEPT !.pc = "handle"]
      BY <3>1 DEF TypeOK, Drain
    <3>3. Current(d)' = Current(d) /\ drain'[d].pc = "handle" /\ drain'[d].todo = drain[d].todo
      BY <1>2, <3>2 DEF Current, Drain
    <3> QED
      BY <1>1, <1>2, <3>2, <3>3 DEF DrainFits, AtARow, Drain
  <2> QED
    BY <2>1, <2>2
<1>4. TypeOK'
  BY <1>1, <1>3 DEF TypeOK, Emitted
<1>5. ClaimedIsHeld'
  BY <1>1, <1>3, HeldFrame
<1> QED
  BY <1>1, <1>3, <1>4, <1>5, OthersFit DEF RunsAreHandled, ProcessedIsHandled, Succeeded, HandledByAll

\* A consumer that returns has done its work.
LEMMA HandleStep ==
  ASSUME OutboxInv, NEW d \in Drainers, NEW done \in BOOLEAN, NEW ok \in BOOLEAN, Handle(d, done, ok)
  PROVE  OutboxInv'
<1> USE DEF OutboxInv
<1>1. /\ drain[d].pc = "handle" /\ (ok => done)
      /\ handled' = IF done THEN handled \cup {<<Current(d).event, Turn(d)>>} ELSE handled
      /\ drain' = [drain EXCEPT ![d].pc = "record", ![d].ok = ok]
      /\ UNCHANGED <<row, available, run, dropped, ended>>
  BY DEF Handle
<1>2. /\ Current(d).event \in Events /\ Turn(d) \in Consumers /\ drain[d] \in Drain
      /\ Turn(d) \in Interested[Current(d).event]
  BY <1>1, AtHand DEF AtARow, TypeOK
<1>3. handled \subseteq handled' /\ (ok => <<Current(d).event, Turn(d)>> \in handled')
  BY <1>1
<1>4. handled' \subseteq Wanted
  BY <1>1, <1>2 DEF TypeOK, Wanted
<1>5. /\ drain' \in [Drainers -> Drain] /\ \A g \in Drainers : g # d => drain'[g] = drain[g]
      /\ drain'[d] = [drain[d] EXCEPT !.pc = "record", !.ok = ok]
  BY <1>1, <1>2 DEF TypeOK, Drain
<1>6. /\ drain'[d].pc = "record" /\ drain'[d].ok = ok /\ drain'[d].todo = drain[d].todo
      /\ drain'[d].batch = drain[d].batch /\ drain'[d].claimed = drain[d].claimed
      /\ drain'[d].failed = drain[d].failed
  BY <1>2, <1>5 DEF Drain
<1>7. Current(d)' = Current(d) /\ Turn(d)' = Turn(d)
  BY <1>6 DEF Current, Turn
<1>8. DrainFits(d)'
  BY <1>1, <1>3, <1>6, <1>7 DEF DrainFits, AtARow
<1>9. TypeOK'
  BY <1>1, <1>4, <1>5 DEF TypeOK, Emitted
<1>10. ClaimedIsHeld'
  BY <1>1, <1>5, <1>6, HeldFrame
<1> QED
  BY <1>1, <1>3, <1>5, <1>8, <1>9, <1>10, OthersFit
     DEF RunsAreHandled, ProcessedIsHandled, Succeeded, HandledByAll

\* The upsert records a success only of a consumer that has done its work.
LEMMA RecordStep == ASSUME OutboxInv, NEW d \in Drainers, Record(d) PROVE OutboxInv'
<1> USE DEF OutboxInv
<1>1. /\ drain[d].pc = "record" /\ UNCHANGED <<row, available, handled, dropped, ended>>
      /\ NextConsumer(d, drain[d].failed \/ ~drain[d].ok)
      /\ run' = [run EXCEPT ![Current(d).event][Turn(d)] =
                   IF drain[d].ok THEN "succeeded" ELSE "failed"]
  BY DEF Record
<1>2. /\ Current(d).event \in Events /\ Turn(d) \in Consumers /\ drain[d] \in Drain
  BY <1>1, AtHand DEF AtARow, TypeOK
<1>3. drain[d].ok => <<Current(d).event, Turn(d)>> \in handled
  BY <1>1 DEF DrainFits
<1>4. /\ drain' \in [Drainers -> Drain] /\ DrainFits(d)'
      /\ drain'[d].batch = drain[d].batch /\ drain'[d].claimed = drain[d].claimed
      /\ \A g \in Drainers : g # d => drain'[g] = drain[g]
  <2> DEFINE failed == drain[d].failed \/ ~drain[d].ok
  <2>1. failed \in BOOLEAN /\ drain \in [Drainers -> Drain] /\ DrainFits(d)
    BY DEF TypeOK
  <2>2. failed \/ (~drain[d].failed /\ <<Current(d).event, Turn(d)>> \in handled)
    BY <1>3
  <2>3. NextConsumer(d, failed)
    BY <1>1
  <2> HIDE DEF failed
  <2> QED
    BY <1>1, <2>1, <2>2, <2>3, NextConsumerFits
<1>5. run' \in [Events -> [Consumers -> {"none", "failed", "succeeded"}]]
  BY <1>1, <1>2 DEF TypeOK
<1>6. RunsAreHandled'
  BY <1>1, <1>2, <1>3 DEF RunsAreHandled, Succeeded, TypeOK
<1>7. TypeOK'
  BY <1>1, <1>4, <1>5 DEF TypeOK, Emitted
<1>8. ClaimedIsHeld'
  BY <1>1, <1>4, HeldFrame
<1> QED
  BY <1>1, <1>4, <1>6, <1>7, <1>8, OthersFit DEF ProcessedIsHandled, HandledByAll

\* A row is written PROCESSED after its last consumer, with none that failed.
LEMMA FinalizeStep == ASSUME OutboxInv, NEW d \in Drainers, Finalize(d) PROVE OutboxInv'
<1> USE DEF OutboxInv
<1> DEFINE x == Current(d)
<1>1. /\ drain[d].pc = "finalize" /\ Proceed(d, drain[d].batch \ {x})
      /\ UNCHANGED <<run, handled, dropped, ended>>
  BY DEF Finalize
<1>2. x \in Read /\ x \in drain[d].batch /\ x.event \in Events /\ x.attempts \in Nat /\ drain[d] \in Drain
  BY <1>1, AtHand DEF AtARow, TypeOK
<1>3. ~drain[d].failed => HandledByAll(x.event)
  BY <1>1 DEF DrainFits, AtARow, HandledByAll
<1>4. PICK status \in {"FAILED", "PENDING", "PROCESSED"} :
        /\ row' = [row EXCEPT ![x.event] = [status |-> status, attempts |-> x.attempts + 1]]
        /\ status = "PROCESSED" => ~drain[d].failed
  BY DEF Finalize
<1>5. available' \subseteq available
  BY DEF Finalize
<1>6. /\ drain' \in [Drainers -> Drain] /\ DrainFits(d)' /\ drain'[d].batch = drain[d].batch \ {x}
      /\ \A g \in Drainers : g # d => drain'[g] = drain[g]
  <2>1. drain[d].batch \ {x} \in SUBSET Read /\ drain \in [Drainers -> Drain]
    BY <1>2 DEF TypeOK, Drain
  <2> QED
    BY <1>1, <2>1, ProceedFits
<1> HIDE DEF x
<1>7. /\ row' \in [Events -> [status : EventStatuses \cup {NoRow}, attempts : Nat]]
      /\ row'[x.event].status = status
      /\ \A e \in Events : e # x.event => row'[e] = row[e]
  BY <1>2, <1>4 DEF TypeOK, EventStatuses
<1>8. TypeOK'
  <2>1. available' \subseteq { e \in Events : Emitted(e)' }
    BY <1>5, <1>7 DEF TypeOK, Emitted, NoRow
  <2> QED
    BY <1>1, <1>6, <1>7, <2>1 DEF TypeOK
<1>9. ProcessedIsHandled'
  BY <1>1, <1>2, <1>3, <1>4, <1>7 DEF ProcessedIsHandled, HandledByAll
<1>10. ClaimedIsHeld'
  <2> SUFFICES ASSUME NEW e \in Events, row'[e].status = "PROCESSING", e \notin dropped
               PROVE  \E g \in Drainers : \/ e \in drain'[g].claimed
                                          \/ e \in { y.event : y \in drain'[g].batch }
    BY <1>1 DEF ClaimedIsHeld
  <2>1. e # x.event /\ row[e].status = "PROCESSING"
    BY <1>7
  <2>2. PICK g \in Drainers : e \in drain[g].claimed \/ e \in { y.event : y \in drain[g].batch }
    BY <2>1 DEF ClaimedIsHeld
  <2>3. CASE g # d
    BY <1>6, <2>2, <2>3
  <2>4. CASE g = d
    <3>1. drain[d].claimed = {}
      BY <1>1 DEF DrainFits, AtARow
    <3>2. PICK y \in drain[d].batch : y.event = e
      BY <2>2, <2>4, <3>1
    <3>3. y \in drain'[d].batch
      BY <1>6, <2>1, <3>2
    <3> QED
      BY <3>2, <3>3
  <2> QED
    BY <2>3, <2>4
<1> QED
  BY <1>1, <1>6, <1>8, <1>9, <1>10, OthersFit DEF RunsAreHandled, Succeeded

\* A drain that ends early leaves what it had to nobody, and says so.
LEMMA EndEarlyStep == ASSUME OutboxInv, NEW d \in Drainers, EndEarly(d) PROVE OutboxInv'
<1> USE DEF OutboxInv
<1>1. /\ ended < MaxEnded /\ ended' = ended + 1
      /\ dropped' = dropped \cup drain[d].claimed \cup { x.event : x \in drain[d].batch }
      /\ drain' = [drain EXCEPT ![d] = Idle]
      /\ UNCHANGED <<row, available, run, handled>>
  BY DEF EndEarly
<1>2. /\ drain' \in [Drainers -> Drain] /\ \A g \in Drainers : g # d => drain'[g] = drain[g]
      /\ drain'[d] = Idle
  BY <1>1 DEF TypeOK, Drain, Idle
<1>3. DrainFits(d)'
  BY <1>2 DEF DrainFits, Idle, AtARow
<1>4. TypeOK'
  <2>1. dropped' \subseteq Events
    BY <1>1 DEF TypeOK, Drain, Read
  <2>2. ended' \in 0 .. MaxEnded
    BY <1>1, OutboxAssumption DEF TypeOK
  <2> QED
    BY <1>1, <1>2, <2>1, <2>2 DEF TypeOK, Emitted
<1>5. ClaimedIsHeld'
  <2> SUFFICES ASSUME NEW e \in Events, row[e].status = "PROCESSING", e \notin dropped'
               PROVE  \E g \in Drainers : \/ e \in drain'[g].claimed
                                          \/ e \in { y.event : y \in drain'[g].batch }
    BY <1>1 DEF ClaimedIsHeld
  <2>1. PICK g \in Drainers : e \in drain[g].claimed \/ e \in { y.event : y \in drain[g].batch }
    BY <1>1 DEF ClaimedIsHeld
  <2>2. g # d
    BY <1>1, <2>1
  <2> QED
    BY <1>2, <2>1, <2>2
<1> QED
  BY <1>1, <1>2, <1>3, <1>4, <1>5, OthersFit DEF RunsAreHandled, ProcessedIsHandled, Succeeded, HandledByAll

\* A new event and the end of a backoff change no drain and nothing that was done.
LEMMA ClockStep == ASSUME OutboxInv, NEW e \in Events, Emit(e) \/ Elapse(e) PROVE OutboxInv'
<1> USE DEF OutboxInv
<1>1. drain' = drain /\ run' = run /\ handled' = handled /\ dropped' = dropped /\ ended' = ended
  BY DEF Emit, Elapse
<1>2. /\ row' \in [Events -> [status : EventStatuses \cup {NoRow}, attempts : Nat]]
      /\ \A f \in Events : row'[f] = row[f] \/ row'[f].status = "PENDING"
  BY DEF Emit, Elapse, TypeOK, EventStatuses
<1>3. available' \subseteq { f \in Events : Emitted(f)' }
  BY <1>2 DEF Emit, Elapse, TypeOK, Emitted, NoRow
<1>4. TypeOK'
  BY <1>1, <1>2, <1>3 DEF TypeOK
<1>5. \A d \in Drainers : DrainFits(d)'
  BY <1>1, DrainFrame
<1>6. ClaimedIsHeld'
  BY <1>1, <1>2, HeldFrame
<1>7. ProcessedIsHandled'
  BY <1>1, <1>2 DEF ProcessedIsHandled, HandledByAll
<1> QED
  BY <1>1, <1>4, <1>5, <1>6, <1>7 DEF RunsAreHandled, Succeeded

-----------------------------------------------------------------------------
(* The promises of the outbox. *)

\* The inductive invariant of the outbox: every statement of every drain keeps it.
THEOREM OutboxInvariant == Spec => []OutboxInv
<1>1. Init => OutboxInv
  <2> SUFFICES ASSUME Init PROVE OutboxInv
    OBVIOUS
  <2>1. Idle \in Drain
    BY DEF Idle, Drain
  <2>2. TypeOK
    BY <2>1, OutboxAssumption DEF Init, TypeOK, NoRow
  <2>3. \A d \in Drainers : DrainFits(d)
    BY DEF Init, DrainFits, Idle, AtARow
  <2> QED
    BY <2>2, <2>3 DEF Init, OutboxInv, RunsAreHandled, Succeeded, ProcessedIsHandled, ClaimedIsHeld, NoRow
<1>2. OutboxInv /\ [Next]_vars => OutboxInv'
  <2> SUFFICES ASSUME OutboxInv, [Next]_vars PROVE OutboxInv'
    OBVIOUS
  <2>1. CASE UNCHANGED vars
    <3>1. \A d \in Drainers : DrainFits(d)'
      BY <2>1, DrainFrame DEF vars, OutboxInv
    <3> QED
      BY <2>1, <3>1 DEF vars, OutboxInv, TypeOK, Emitted, RunsAreHandled, Succeeded,
                        ProcessedIsHandled, HandledByAll, ClaimedIsHeld
  <2>2. CASE Next
    BY <2>2, SelectStep, ClaimStep, RereadStep, CheckStep, HandleStep, RecordStep, FinalizeStep,
       EndEarlyStep, ClockStep DEF Next, Step
  <2> QED
    BY <2>1, <2>2
<1> QED
  BY <1>1, <1>2, PTL DEF Spec

\* An event is marked PROCESSED only when every consumer has handled it, for any
\* number of drainers that share its row.
THEOREM ProcessedEventsAreHandled == Spec => []ProcessedIsHandled
<1>1. OutboxInv => ProcessedIsHandled
  BY DEF OutboxInv
<1> QED
  BY <1>1, OutboxInvariant, PTL

\* An event in PROCESSING is in somebody's hands, or in those of a drain that ended
\* early.
THEOREM ClaimedEventsAreHeld == Spec => []ClaimedIsHeld
<1>1. OutboxInv => ClaimedIsHeld
  BY DEF OutboxInv
<1> QED
  BY <1>1, OutboxInvariant, PTL
=============================================================================
