------------------------------ MODULE Updates ------------------------------
(***************************************************************************)
(* Updates from Telegram                                                   *)
(* (apps/api/src/modules/telegram/telegram.controller.ts,                  *)
(* telegram-update.router.ts, crm/customers.service.ts): Telegram repeats  *)
(* an update until it is answered, the gateway records it before it does   *)
(* anything, and whatever goes wrong afterwards is logged and answered.    *)
(***************************************************************************)
EXTENDS Integers, FiniteSets

CONSTANTS
  UpdateIds,
  KindOf,     \* UpdateIds -> "message", "contact", "callback", "block"
  Handlers    \* deliveries in progress at a time

\* What is assumed of the constants, wherever they are given values.
UpdatesAssumption == KindOf \in [UpdateIds -> {"message", "contact", "callback", "block"}]

VARIABLES
  known,      \* the secret of the webhook is that of a row
  processed,  \* ProcessedWebhook rows
  delivery,   \* Handlers -> the delivery in progress
  answered,   \* updates that Telegram will not send again
  customer,   \* the customer behind the updates: "NONE", "HERE", "BLOCKED"
  heard,      \* ghost: UpdateIds -> how often the router has done its work
  excused     \* ghost: updates dropped for a reason

vars == <<known, processed, delivery, answered, customer, heard, excused>>

-----------------------------------------------------------------------------
Idle == [pc |-> "idle", update |-> 0]

Kind(h) == KindOf[delivery[h].update]

Goto(h, pc) == delivery' = [delivery EXCEPT ![h].pc = pc]

\* 200.
Answer(h) ==
  /\ answered' = answered \cup {delivery[h].update}
  /\ delivery' = [delivery EXCEPT ![h] = Idle]

Excuse(h) == excused' = excused \cup {delivery[h].update}

Hear(h) == heard' = [heard EXCEPT ![delivery[h].update] = @ + 1]

Init ==
  /\ known = TRUE
  /\ processed = {}
  /\ delivery = [h \in Handlers |-> Idle]
  /\ answered = {}
  /\ customer \in {"NONE", "HERE"}
  /\ heard = [u \in UpdateIds |-> 0]
  /\ excused = {}

\* The bot is connected anew, or disconnected (Bots).
Change ==
  /\ known' = ~known
  /\ UNCHANGED <<processed, delivery, answered, customer, heard, excused>>

\* Telegram sends an update, again if it takes long.
Deliver(h, u) ==
  /\ delivery[h] = Idle
  /\ u \notin answered
  /\ delivery' = [delivery EXCEPT ![h] = [pc |-> "resolve", update |-> u]]
  /\ UNCHANGED <<known, processed, answered, customer, heard, excused>>

\* An unknown secret is answered like a known one.
Resolve(h) ==
  /\ delivery[h].pc = "resolve"
  /\ IF known THEN Goto(h, "record") /\ UNCHANGED <<answered, excused>>
     ELSE Answer(h) /\ Excuse(h)
  /\ UNCHANGED <<known, processed, customer, heard>>

\* A mistake the checks must catch: recording is not conditional.
RecordAnyway(h) ==
  /\ delivery[h].pc = "record"
  /\ processed' = processed \cup {delivery[h].update}
  /\ Goto(h, "touch")
  /\ UNCHANGED <<known, answered, customer, heard, excused>>

\* The unique row. A violation is the sign of a repetition.
Record(h) ==
  /\ delivery[h].pc = "record"
  /\ IF delivery[h].update \in processed
     THEN Answer(h) /\ UNCHANGED processed
     ELSE processed' = processed \cup {delivery[h].update} /\ Goto(h, "touch") /\ UNCHANGED answered
  /\ UNCHANGED <<known, customer, heard, excused>>

\* Any other error of the insert is taken for a repetition too.
RecordFails(h) ==
  /\ delivery[h].pc = "record"
  /\ Answer(h) /\ Excuse(h)
  /\ UNCHANGED <<known, processed, customer, heard>>

\* lastUpdateAt, on a row that may have gone.
Touch(h) ==
  /\ delivery[h].pc = "touch"
  /\ Goto(h, "route")
  /\ UNCHANGED <<known, processed, answered, customer, heard, excused>>

\* route: who is it? Only a message makes a customer.
Find(h) ==
  /\ delivery[h].pc = "route"
  /\ CASE customer # "NONE" ->
            Goto(h, "known") /\ UNCHANGED <<answered, heard>>
       [] customer = "NONE" /\ Kind(h) \in {"message", "contact"} ->
            Goto(h, "create") /\ UNCHANGED <<answered, heard>>
       [] OTHER -> Answer(h) /\ Hear(h)
  /\ UNCHANGED <<known, processed, customer, excused>>

\* upsertFromTelegram. Two first messages at a time both find nobody; the second
\* insert fails, and with it the message.
CreateCustomer(h) ==
  /\ delivery[h].pc = "create"
  /\ IF customer = "NONE"
     THEN customer' = "HERE" /\ Goto(h, "known") /\ UNCHANGED <<answered, excused>>
     ELSE Answer(h) /\ Excuse(h) /\ UNCHANGED customer
  /\ UNCHANGED <<known, processed, heard>>

\* The reply, the conversation, the phone or the mark. Nothing takes a mark back.
React(h) ==
  /\ delivery[h].pc = "known"
  /\ customer' = IF Kind(h) = "block" THEN "BLOCKED" ELSE customer
  /\ Answer(h) /\ Hear(h)
  /\ UNCHANGED <<known, processed, excused>>

\* An error of the router, a phone that is somebody else's among them, is logged
\* and answered.
RouteFails(h) ==
  /\ delivery[h].pc \in {"route", "create", "known"}
  /\ Answer(h) /\ Excuse(h)
  /\ UNCHANGED <<known, processed, customer, heard>>

\* An error outside the router is an error to Telegram, and a dead process is
\* silence: the update will come again, and be taken for a repetition.
Fail(h) ==
  /\ delivery[h] # Idle
  /\ delivery' = [delivery EXCEPT ![h] = Idle]
  /\ IF delivery[h].pc \in {"resolve", "record"} THEN UNCHANGED excused ELSE Excuse(h)
  /\ UNCHANGED <<known, processed, answered, customer, heard>>

Next ==
  \/ Change
  \/ \E h \in Handlers :
       \/ \E u \in UpdateIds : Deliver(h, u)
       \/ Resolve(h) \/ Record(h) \/ RecordFails(h) \/ Touch(h)
       \/ Find(h) \/ CreateCustomer(h) \/ React(h) \/ RouteFails(h) \/ Fail(h)

Spec == Init /\ [][Next]_vars

-----------------------------------------------------------------------------
\* The delivery of an update, with the step it is at.
DeliveryRecord == [pc : {"idle", "resolve", "record", "touch", "route", "create", "known"},
               update : UpdateIds \cup {0}]

TypeOK ==
  /\ known \in BOOLEAN
  /\ processed \subseteq UpdateIds /\ answered \subseteq UpdateIds /\ excused \subseteq UpdateIds
  /\ delivery \in [Handlers -> DeliveryRecord]
  /\ \A h \in Handlers : delivery[h] = Idle \/ (delivery[h].pc # "idle" /\ delivery[h].update \in UpdateIds)
  /\ customer \in {"NONE", "HERE", "BLOCKED"}
  /\ heard \in [UpdateIds -> Nat]

InFlight == { delivery[h].update : h \in Handlers }

\* However often Telegram repeats an update, it is heard once; and one that
\* Telegram is done with was heard, unless something failed on the way.
HeardOnce ==
  \A u \in UpdateIds :
    /\ heard[u] <= 1
    /\ u \in answered \ (InFlight \cup excused) => heard[u] = 1
=============================================================================
