----------------------------- MODULE MCTelegram -----------------------------
(* Instances of Reminders, Bots and Updates, the three conversations with    *)
(* Telegram, for TLC. A behaviour is one of them with the others at rest.    *)
EXTENDS Integers, Sequences

CONSTANTS Bookings, StartsAt, Offsets, Listed, Drainers, Workers, MaxAttempts, MaxTime,
          Tokens, Processes, Api, MaxConnects, Requests,
          UpdateIds, KindOf, Deliveries

VARIABLES part,
          now, booking, event, job, row, drainer, worker, blocked, told, lost,
          bot, hook, client, request, sender, secrets, upset, foreign,
          known, processed, delivery, answered, customer, heard, excused

R == INSTANCE Reminders WITH excused <- lost
B == INSTANCE Bots WITH Handlers <- Requests
U == INSTANCE Updates WITH Handlers <- Deliveries

ASSUME ConstantsAssumption ==
  R!RemindersAssumption /\ B!BotsAssumption /\ U!UpdatesAssumption

rVars == <<now, booking, event, job, row, drainer, worker, blocked, told, lost>>
bVars == <<bot, hook, client, request, sender, secrets, upset, foreign>>
uVars == <<known, processed, delivery, answered, customer, heard, excused>>

\* At rest the clock has stopped: nothing of Reminders can move.
Resting ==
  /\ now = MaxTime /\ booking = [b \in Bookings |-> "NONE"]
  /\ event = [b \in Bookings |-> [created |-> "none", cancelled |-> "none"]]
  /\ job = [r \in R!Reminders |-> R!NoJob] /\ row = [r \in R!Reminders |-> "NONE"]
  /\ drainer = [d \in Drainers |-> R!IdleDrainer] /\ worker = [w \in Workers |-> R!IdleWorker]
  /\ blocked = FALSE /\ told = [r \in R!Reminders |-> 0] /\ lost = {}

Init ==
  /\ part \in {"reminders", "bots", "updates"}
  /\ IF part = "reminders" THEN R!Init ELSE Resting
  /\ B!Init
  /\ U!Init /\ (part # "updates" => customer = "NONE")

Next ==
  \/ part = "reminders" /\ R!Next /\ UNCHANGED <<part, bVars, uVars>>
  \/ part = "bots"      /\ B!Next /\ UNCHANGED <<part, rVars, uVars>>
  \/ part = "updates"   /\ U!Next /\ UNCHANGED <<part, rVars, bVars>>

Spec == Init /\ [][Next]_<<part, rVars, bVars, uVars>> /\ R!Fairness

RemindedOnce       == R!RemindedOnce
NoReminderOfClosed == R!NoReminderOfClosed
ReminderComes      == R!ReminderComes
ConnectedHears     == B!ConnectedHears
SpeaksAsBot        == B!SpeaksAsBot
HeardOnce          == U!HeardOnce

\* One reminder an hour before, and a listed offset that is not configured.
MCStartsAt == [b \in Bookings |-> 2]
MCOffsets  == <<1>>
MCListed   == <<2, 1>>

\* Two first messages and one update of another kind.
MCKindOf ==
  [u \in UpdateIds |-> CASE u = 1 -> "message" [] u = 2 -> "contact" [] OTHER -> "block"]
=============================================================================
