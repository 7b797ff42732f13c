------------------------------- MODULE Outbox -------------------------------
(***************************************************************************)
(* The transactional outbox                                                *)
(* (apps/api/src/modules/events/event-dispatcher.service.ts): domain       *)
(* events, written in the transaction of the change they announce, and the *)
(* drainers of the API and worker processes that hand them to consumers.   *)
(* A drainer runs one drain at a time, every two seconds; every statement  *)
(* of a drain is a transaction of its own.                                 *)
(***************************************************************************)
EXTENDS Integers, FiniteSets

CONSTANTS
  Drainers,      \* processes that drain, and the drain of a worker's start
  Events,        \* DomainEvent rows, numbered in the order of occurredAt
  Consumers,     \* registered handlers, numbered in the order of registration
  Interested,    \* Events -> consumers that subscribe to its type
  BatchSize,     \* 50
  MaxAttempts,   \* 5
  MaxFailures,   \* bound: Consumers -> attempts of a row that it may fail
  MaxEnded       \* bound: drains that end early

ASSUME OutboxAssumption ==
  /\ Events \subseteq Nat /\ Consumers \subseteq Nat
  /\ IsFiniteSet(Events) /\ IsFiniteSet(Consumers)
  /\ Interested \in [Events -> SUBSET Consumers]
  /\ BatchSize \in Nat \ {0} /\ MaxAttempts \in Nat \ {0}
  /\ MaxFailures \in [Consumers -> Nat] /\ MaxEnded \in Nat

VARIABLES
  row,        \* Events -> [status, attempts]
  available,  \* events whose availableAt has passed
  run,        \* EventHandlerRun: Events -> Consumers -> "none", "failed", "succeeded"
  handled,    \* pairs of an event and a consumer that has done its work
  drain,      \* what each drainer is doing
  dropped,    \* ghost: events a drain that ended early had claimed or read
  ended       \* ghost: how many drains have ended early

vars == <<row, available, run, handled, drain, dropped, ended>>

-----------------------------------------------------------------------------
EventStatuses == {"PENDING", "PROCESSING", "PROCESSED", "FAILED"}

Wanted == { w \in Events \X Consumers : w[2] \in Interested[w[1]] }

NoRow == "ABSENT"

Emitted(e) == row[e].status # NoRow

\* A mistake the checks must catch: an exhausted event is never claimed again.
ClaimablePending(e) == row[e].status = "PENDING"

Claimable(e) == row[e].status \in {"PENDING", "FAILED"}

\* What findMany reads of a row: the event and its attempts so far.
Read == [event : Events, attempts : Nat]

Drain ==
  [pc : {"idle", "claim", "reread", "check", "handle", "record", "finalize"},
   ids : SUBSET Events,          \* the candidates, until the rows are read
   claimed : SUBSET Events,      \* those set to PROCESSING, until then
   batch : SUBSET Read,          \* rows not finalized yet
   todo : SUBSET Consumers,      \* consumers of the first row still to come
   failed : BOOLEAN,             \* one of them has failed
   ok : BOOLEAN]                 \* how the last one ended

Idle == [pc |-> "idle", ids |-> {}, claimed |-> {}, batch |-> {}, todo |-> {},
         failed |-> FALSE, ok |-> FALSE]

First(S) == CHOOSE x \in S : \A y \in S : x <= y

\* The row at hand, and the consumer whose turn it is.
Current(d) ==
  CHOOSE x \in drain[d].batch : \A y \in drain[d].batch : x.event <= y.event

Turn(d) == First(drain[d].todo)

\* A mistake the checks must catch: a row with a failure ends the drain.
ProceedUnlessFailed(d, batch) ==
  drain' = [drain EXCEPT ![d] =
    IF batch = {} \/ drain[d].failed THEN Idle
    ELSE LET e == First({ x.event : x \in batch }) IN
         [Idle EXCEPT !.pc = IF Interested[e] = {} THEN "finalize" ELSE "check",
                      !.batch = batch, !.todo = Interested[e]]]

\* Where a drain with these rows left goes next.
Proceed(d, batch) ==
  drain' = [drain EXCEPT ![d] =
    IF batch = {} THEN Idle
    ELSE LET e == First({ x.event : x \in batch }) IN
         [Idle EXCEPT !.pc = IF Interested[e] = {} THEN "finalize" ELSE "check",
                      !.batch = batch, !.todo = Interested[e]]]

\* After a consumer: the next one, or the end of the row.
NextConsumer(d, failed) ==
  LET rest == drain[d].todo \ {Turn(d)} IN
  drain' = [drain EXCEPT ![d].pc = IF rest = {} THEN "finalize" ELSE "check",
                         ![d].todo = rest, ![d].failed = failed]

Init ==
  /\ row = [e \in Events |-> [status |-> NoRow, attempts |-> 0]]
  /\ available = {}
  /\ run = [e \in Events |-> [c \in Consumers |-> "none"]]
  /\ handled = {}
  /\ drain = [d \in Drainers |-> Idle]
  /\ dropped = {}
  /\ ended = 0

\* emit: the row appears when the transaction of the change commits, which need
\* not be in the order of occurredAt.
Emit(e) ==
  /\ ~Emitted(e)
  /\ row' = [row EXCEPT ![e].status = "PENDING"]
  /\ available' = available \cup {e}
  /\ UNCHANGED <<run, handled, drain, dropped, ended>>

\* The backoff of a failed event runs out.
Elapse(e) ==
  /\ Emitted(e)
  /\ e \notin available
  /\ available' = available \cup {e}
  /\ UNCHANGED <<row, run, handled, drain, dropped, ended>>

-----------------------------------------------------------------------------
(* drain: candidates, a conditional claim, and a second look. *)

Select(d) ==
  LET open == { e \in available : Claimable(e) }
      ids  == { e \in open : Cardinality({ x \in open : x < e }) < BatchSize }
  IN
  /\ drain[d].pc = "idle"
  /\ ids # {}
  /\ drain' = [drain EXCEPT ![d] = [Idle EXCEPT !.pc = "claim", !.ids = ids]]
  /\ UNCHANGED <<row, available, run, handled, dropped, ended>>

Claim(d) ==
  LET claimed == { e \in drain[d].ids : Claimable(e) } IN
  /\ drain[d].pc = "claim"
  /\ row' = [e \in Events |->
               IF e \in claimed THEN [row[e] EXCEPT !.status = "PROCESSING"] ELSE row[e]]
  /\ drain' = [drain EXCEPT ![d] =
                 IF claimed = {} THEN Idle
                 ELSE [@ EXCEPT !.pc = "reread", !.claimed = claimed]]
  /\ UNCHANGED <<available, run, handled, dropped, ended>>

\* Candidates that another drainer has claimed are PROCESSING too.
Reread(d) ==
  /\ drain[d].pc = "reread"
  /\ Proceed(d, { [event |-> e, attempts |-> row[e].attempts] :
                    e \in { x \in drain[d].ids : row[x].status = "PROCESSING" } })
  /\ UNCHANGED <<row, available, run, handled, dropped, ended>>

-----------------------------------------------------------------------------
(* process: each interested consumer, unless it succeeded before. *)

\* A mistake the checks must catch: a run that failed counts as done.
HasRun(e, c) == run[e][c] # "none"

Succeeded(e, c) == run[e][c] = "succeeded"

Check(d) ==
  /\ drain[d].pc = "check"
  /\ IF Succeeded(Current(d).event, Turn(d))
     THEN NextConsumer(d, drain[d].failed)
     ELSE drain' = [drain EXCEPT ![d].pc = "handle"]
  /\ UNCHANGED <<row, available, run, handled, dropped, ended>>

\* The consumer does its work and returns, or throws, before or after it has.
Handle(d, done, ok) ==
  LET x == Current(d) IN
  /\ drain[d].pc = "handle"
  /\ ok => done
  /\ ~ok => x.attempts < MaxFailures[Turn(d)]
  /\ handled' = IF done THEN handled \cup {<<x.event, Turn(d)>>} ELSE handled
  /\ drain' = [drain EXCEPT ![d].pc = "record", ![d].ok = ok]
  /\ UNCHANGED <<row, available, run, dropped, ended>>

\* recordRun: an upsert, whatever the row says by now.
Record(d) ==
  /\ drain[d].pc = "record"
  /\ run' = [run EXCEPT ![Current(d).event][Turn(d)] =
               IF drain[d].ok THEN "succeeded" ELSE "failed"]
  /\ NextConsumer(d, drain[d].failed \/ ~drain[d].ok)
  /\ UNCHANGED <<row, available, handled, dropped, ended>>

\* The update names the row; attempts is the number read with it, plus one.
Finalize(d) ==
  LET x        == Current(d)
      attempts == x.attempts + 1
  IN
  /\ drain[d].pc = "finalize"
  /\ IF drain[d].failed
     THEN /\ row' = [row EXCEPT ![x.event] =
                       [status |-> IF attempts >= MaxAttempts THEN "FAILED" ELSE "PENDING",
                        attempts |-> attempts]]
          /\ available' = available \ {x.event}
     ELSE /\ row' = [row EXCEPT ![x.event] = [status |-> "PROCESSED", attempts |-> attempts]]
          /\ UNCHANGED available
  /\ Proceed(d, drain[d].batch \ {x})
  /\ UNCHANGED <<run, handled, dropped, ended>>

\* A process dies, or a statement outside the try of the handlers throws: what
\* was claimed stays as it is.
EndEarly(d) ==
  /\ drain[d].pc # "idle"
  /\ ended < MaxEnded
  /\ ended' = ended + 1
  /\ dropped' = dropped \cup drain[d].claimed \cup { x.event : x \in drain[d].batch }
  /\ drain' = [drain EXCEPT ![d] = Idle]
  /\ UNCHANGED <<row, available, run, handled>>

-----------------------------------------------------------------------------
Step(d) ==
  \/ Select(d)
  \/ Claim(d)
  \/ Reread(d)
  \/ Check(d)
  \/ \E done, ok \in BOOLEAN : Handle(d, done, ok)
  \/ Record(d)
  \/ Finalize(d)

Next ==
  \/ \E e \in Events : Emit(e) \/ Elapse(e)
  \/ \E d \in Drainers : Step(d) \/ EndEarly(d)

\* The interval of two seconds, in a process that runs or is started again, and
\* the clock.
Fairness ==
  /\ \A d \in Drainers : WF_vars(Step(d))
  /\ \A e \in Events : WF_vars(Elapse(e))

Spec == Init /\ [][Next]_vars /\ Fairness

-----------------------------------------------------------------------------
(* Properties. *)

\* The shape of the state.
TypeOK ==
  /\ row \in [Events -> [status : EventStatuses \cup {NoRow}, attempts : Nat]]
  /\ available \subseteq { e \in Events : Emitted(e) }
  /\ run \in [Events -> [Consumers -> {"none", "failed", "succeeded"}]]
  /\ handled \subseteq Wanted
  /\ drain \in [Drainers -> Drain]
  /\ dropped \subseteq Events
  /\ ended \in 0 .. MaxEnded

HandledByAll(e) == \A c \in Interested[e] : <<e, c>> \in handled

\* An event is marked PROCESSED only when every consumer has handled it, however
\* many drainers share its row and whatever order their writes come in.
ProcessedIsHandled ==
  \A e \in Events : row[e].status = "PROCESSED" => HandledByAll(e)

\* No event is left behind in PROCESSING: somebody has it, or a drain that had
\* it ended early.
ClaimedIsHeld ==
  \A e \in Events : row[e].status = "PROCESSING" =>
    \/ e \in dropped
    \/ \E d \in Drainers : e \in drain[d].claimed \/ e \in { x.event : x \in drain[d].batch }

Promise == INSTANCE Delivery
  WITH emitted <- { e \in Events : Emitted(e) }

\* Every event is handled by all its consumers in the end, retries past the
\* fifth attempt included, unless a drain that had it ended early.
LostOnlyByEndingEarly ==
  \A e \in Events : Emitted(e) ~> (HandledByAll(e) \/ e \in dropped)

\* "Delivery is at-least-once ...: a handler can succeed and the process can
\* die before the run is recorded."
AtLeastOnce == Promise!Spec
=============================================================================
