--------------------------- MODULE TelegramProofs ---------------------------
(***************************************************************************)
(* Proofs about Reminders, Bots and Updates, for every set of bookings,    *)
(* workers, processes, requests and deliveries, every configuration of     *)
(* reminders and every bound. The three share no state, so the inductive   *)
(* invariant TelegramInv is one part for each:                             *)
(*   Reminders: one worker at most is about to send a reminder, which has  *)
(*     its row and has not gone out (SentByOne), and a worker that has     *)
(*     looked knows of a booking closed since (LooksStand);                *)
(*   Bots: what the one request in progress has done of its changes so far *)
(*     (InStep), and which client a process is about to keep (LoadsFit);   *)
(*   Updates: one delivery at most works on an update, which is recorded   *)
(*     and was not heard (WorkedByOne), and an update that was recorded or *)
(*     answered is accounted for (Accounted).                              *)
(***************************************************************************)
EXTENDS MCTelegram, SequenceTheorems, TLAPS

-----------------------------------------------------------------------------
(* Reminders. *)

Sending(w, r) == worker[w].pc = "send" /\ worker[w].reminder = r

\* The unique row lets one worker send a reminder, once.
SentByOne ==
  \A r \in R!Reminders :
    /\ told[r] \in {0, 1}
    /\ row[r] = "NONE" => told[r] = 0 /\ \A w \in Workers : ~Sending(w, r)
    /\ \A w \in Workers : Sending(w, r) =>
         told[r] = 0 /\ \A v \in Workers : Sending(v, r) => v = w

\* A worker past its look at the booking has seen it open, or is marked.
LooksStand ==
  \A w \in Workers :
    worker[w].pc \in {"record", "send"} /\ booking[worker[w].reminder[1]] \in R!Closed => worker[w].closed

RemindersInv == R!TypeOK /\ SentByOne /\ LooksStand

\* A step that leaves the bookings, the rows, the workers and the count alone.
LEMMA RemindersFrame ==
  ASSUME SentByOne, LooksStand, UNCHANGED <<booking, row, worker, told>>
  PROVE  SentByOne' /\ LooksStand'
BY DEF SentByOne, LooksStand, Sending

\* A worker that is done, or has its job taken away, sends no more.
LEMMA WorkerDone ==
  ASSUME R!TypeOK, SentByOne, LooksStand, NEW w, worker' = [worker EXCEPT ![w] = R!IdleWorker],
         \A r \in R!Reminders : row'[r] = row[r] \/ row'[r] # "NONE", UNCHANGED <<booking, told>>
  PROVE  /\ worker' \in [Workers -> R!Rounds]
         /\ \A v \in Workers : worker'[v].pc # "idle" => worker'[v].reminder \in R!Reminders
         /\ SentByOne' /\ LooksStand'
<1>0. R!IdleWorker \in R!Rounds /\ R!IdleWorker.pc = "idle"
  BY DEF R!IdleWorker, R!Rounds
<1>1. \A v \in Workers : worker'[v] = worker[v] \/ worker'[v].pc = "idle"
  BY <1>0 DEF R!TypeOK
<1>2. worker' \in [Workers -> R!Rounds]
  BY <1>0 DEF R!TypeOK
<1>3. \A v \in Workers : \A q : Sending(v, q)' => Sending(v, q)
  BY <1>1 DEF Sending
<1>4. \A q \in R!Reminders : row'[q] = "NONE" => row[q] = "NONE"
  OBVIOUS
<1>5. SentByOne'
  BY <1>3, <1>4 DEF SentByOne
<1>6. LooksStand'
  BY <1>1 DEF LooksStand
<1> QED
  BY <1>1, <1>2, <1>5, <1>6 DEF R!TypeOK

\* The job ends, and with it the work on it.
LEMMA SettleEnds ==
  ASSUME NEW w, NEW state, R!Settle(w, state) PROVE worker' = [worker EXCEPT ![w] = R!IdleWorker]
BY DEF R!Settle

\* What the handler of events does sends no reminder.
LEMMA DrainerStep ==
  ASSUME RemindersInv, NEW d \in Drainers,
         \/ \E b \in Bookings, type \in {"created", "cancelled"} : R!Tell(d, b, type)
         \/ \E queued \in BOOLEAN : R!Schedule(d, queued)
         \/ R!Unschedule(d) \/ R!Handled(d) \/ R!Throw(d)
  PROVE  RemindersInv'
<1> USE ConstantsAssumption DEF RemindersInv, R!RemindersAssumption
<1>1. UNCHANGED <<now, booking, row, worker, told>>
  BY DEF R!Tell, R!Schedule, R!Unschedule, R!Handled, R!Throw
<1>2. SentByOne' /\ LooksStand'
  BY <1>1, RemindersFrame
<1>o. Offsets \in Seq(R!OffsetSet)
  <2>1. \A i \in 1 .. Len(Offsets) : Offsets[i] \in R!OffsetSet
    BY DEF R!OffsetSet
  <2>2. Offsets \in [1 .. Len(Offsets) -> Nat] /\ Len(Offsets) \in Nat
    OBVIOUS
  <2> QED
    BY <2>1, <2>2, IsASeq
<1>3. ASSUME NEW b \in Bookings, NEW type \in {"created", "cancelled"}, R!Tell(d, b, type)
      PROVE R!TypeOK'
  <2>1. PICK todo : /\ drainer' = [drainer EXCEPT ![d] =
                         [pc |-> type, booking |-> b, type |-> type, todo |-> todo]]
                    /\ todo \in Seq(Nat) /\ (type = "created" => todo = Offsets)
    BY <1>3 DEF R!Tell
  <2>2. blocked' \in BOOLEAN /\ lost' = lost
    BY <1>3 DEF R!Tell, R!TypeOK
  <2> DEFINE n == [pc |-> type, booking |-> b, type |-> type, todo |-> todo]
  <2>3. n \in R!Runs /\ (n.pc = "created" => n.booking \in Bookings /\ n.todo \in Seq(R!OffsetSet))
    BY <2>1, <1>o DEF R!Runs
  <2>4. drainer' = [drainer EXCEPT ![d] = n]
    BY <2>1
  <2> HIDE DEF n
  <2> QED
    BY <1>1, <2>2, <2>3, <2>4 DEF R!TypeOK
<1>t. ASSUME NEW S, NEW s \in Seq(S), s # <<>> PROVE Tail(s) \in Seq(S) /\ Head(s) \in S
  BY <1>t
<1>r. ASSUME drainer[d].todo # <<>>, R!Rest(d), R!TypeOK
      PROVE  /\ drainer' \in [Drainers -> R!Runs]
             /\ \A e \in Drainers : drainer'[e].pc = "created" =>
                           drainer'[e].booking \in Bookings /\ drainer'[e].todo \in Seq(R!OffsetSet)
  <2> DEFINE rest == Tail(drainer[d].todo)
  <2>1. rest \in Seq(Nat) /\ (drainer[d].pc = "created" => rest \in Seq(R!OffsetSet))
    <3>1. drainer[d].todo \in Seq(Nat) /\ drainer[d].todo # <<>>
      BY <1>r DEF R!TypeOK, R!Runs
    <3>2. drainer[d].pc = "created" => drainer[d].todo \in Seq(R!OffsetSet)
      BY <1>r DEF R!TypeOK
    <3> QED
      BY <3>1, <3>2, <1>t
  <2>2. drainer' = [drainer EXCEPT ![d].todo = rest]
    BY <1>r DEF R!Rest
  <2> HIDE DEF rest
  <2>3. \A e \in Drainers : drainer[e] \in R!Runs
    BY DEF R!TypeOK
  <2>4. [drainer[d] EXCEPT !.todo = rest] \in R!Runs
    BY <2>1, <2>3 DEF R!Runs
  <2>5. /\ drainer'[d] = [drainer[d] EXCEPT !.todo = rest]
        /\ \A e \in Drainers : e # d => drainer'[e] = drainer[e]
        /\ drainer' \in [Drainers -> R!Runs]
    BY <2>2, <2>4 DEF R!TypeOK
  <2>6. /\ drainer'[d].pc = drainer[d].pc /\ drainer'[d].booking = drainer[d].booking
        /\ drainer'[d].todo = rest
    BY <2>3, <2>5 DEF R!Runs
  <2> QED
    BY <2>1, <2>5, <2>6 DEF R!TypeOK
<1>4. ASSUME NEW queued \in BOOLEAN, R!Schedule(d, queued) PROVE R!TypeOK'
  <2>1. drainer[d].todo # <<>> /\ drainer[d].pc = "created" /\ R!Rest(d) /\ blocked' = blocked
    BY <1>4 DEF R!Schedule
  <2>2. <<drainer[d].booking, Head(drainer[d].todo)>> \in R!Reminders
    BY <2>1, <1>t DEF R!TypeOK, R!Reminders
  <2>3. lost' \subseteq R!Reminders
    BY <1>4, <2>2 DEF R!Schedule, R!TypeOK
  <2> QED
    BY <1>1, <2>1, <2>3, <1>r DEF R!TypeOK
<1>5. ASSUME R!Unschedule(d) PROVE R!TypeOK'
  <2>1. drainer[d].todo # <<>> /\ R!Rest(d) /\ UNCHANGED <<blocked, lost>>
    BY <1>5 DEF R!Unschedule
  <2> QED
    BY <1>1, <2>1, <1>r DEF R!TypeOK
<1>6. ASSUME R!Handled(d) \/ R!Throw(d) PROVE R!TypeOK'
  <2>1. drainer' = [drainer EXCEPT ![d] = R!IdleDrainer] /\ UNCHANGED <<blocked, lost>>
    BY <1>6 DEF R!Handled, R!Throw
  <2>2. R!IdleDrainer \in R!Runs
    BY DEF R!IdleDrainer, R!Runs
  <2>3. \A e \in Drainers : drainer'[e] = drainer[e] \/ drainer'[e].pc = "idle"
    BY <2>1 DEF R!TypeOK, R!IdleDrainer
  <2> QED
    BY <1>1, <2>1, <2>2, <2>3 DEF R!TypeOK
<1> QED
  BY <1>2, <1>3, <1>4, <1>5, <1>6

\* What a worker does between its look at the booking and the outcome: the row comes
\* before the message, and nobody has a row twice.
LEMMA WorkerStep ==
  ASSUME RemindersInv, NEW w \in Workers,
         (\E r \in R!Reminders : R!Fire(w, r)) \/ R!Step(w) \/ R!Fail(w)
  PROVE  RemindersInv'
<1> USE DEF RemindersInv
<1> DEFINE r == worker[w].reminder
<1>1. UNCHANGED <<now, booking, drainer>>
  BY DEF R!Fire, R!Step, R!Fail, R!Check, R!Record, R!Duplicate, R!Update, R!Send, R!Retry
<1>d. ASSUME worker' = [worker EXCEPT ![w] = R!IdleWorker], blocked' \in BOOLEAN, told' = told,
             lost' \subseteq R!Reminders,
             row' \in [R!Reminders -> {"NONE", "QUEUED", "SENT", "FAILED", "SKIPPED"}],
             \A q \in R!Reminders : row'[q] = row[q] \/ row'[q] # "NONE"
      PROVE  RemindersInv'
  BY <1>1, <1>d, WorkerDone DEF R!TypeOK
<1>g. ASSUME NEW pc \in {"record", "send", "sent", "unsent"}, worker' = [worker EXCEPT ![w].pc = pc]
      PROVE  /\ worker' \in [Workers -> R!Rounds] /\ worker'[w].pc = pc
             /\ worker'[w].reminder = r /\ worker'[w].closed = worker[w].closed
             /\ \A v \in Workers : v # w => worker'[v] = worker[v]
  BY <1>g DEF R!TypeOK, R!Rounds
<1>2. ASSUME NEW q \in R!Reminders, R!Fire(w, q) PROVE RemindersInv'
  <2>1. /\ worker' = [worker EXCEPT ![w] = [R!IdleWorker EXCEPT !.pc = "check", !.reminder = q]]
        /\ UNCHANGED <<row, blocked, told, lost>>
    BY <1>2 DEF R!Fire
  <2>2. worker' \in [Workers -> R!Rounds]
    BY <2>1 DEF R!TypeOK, R!IdleWorker, R!Rounds
  <2>3. /\ worker'[w].pc = "check" /\ worker'[w].reminder = q
        /\ \A v \in Workers : v # w => worker'[v] = worker[v]
    BY <2>1 DEF R!TypeOK, R!IdleWorker
  <2>4. \A v \in Workers : \A p : Sending(v, p)' => Sending(v, p)
    BY <2>3 DEF Sending
  <2>5. SentByOne'
    BY <2>1, <2>4 DEF SentByOne
  <2>6. LooksStand'
    BY <1>1, <2>3 DEF LooksStand
  <2> QED
    BY <1>1, <2>1, <2>2, <2>3, <2>5, <2>6 DEF R!TypeOK
<1>3. ASSUME R!Check(w) PROVE RemindersInv'
  <2>1. worker[w].pc = "check" /\ UNCHANGED <<row, blocked, told>> /\ lost' \subseteq R!Reminders
    BY <1>3 DEF R!Check, R!TypeOK
  <2>2. CASE booking[r[1]] \in R!Closed \/ StartsAt[r[1]] < now
    BY <1>3, <1>d, <2>1, <2>2, SettleEnds DEF R!Check, R!TypeOK
  <2>3. CASE ~(booking[r[1]] \in R!Closed \/ StartsAt[r[1]] < now)
    <3>1. worker' = [worker EXCEPT ![w].pc = "record"]
      BY <1>3, <2>3 DEF R!Check
    <3>2. /\ worker' \in [Workers -> R!Rounds] /\ worker'[w].pc = "record" /\ worker'[w].reminder = r
          /\ \A v \in Workers : v # w => worker'[v] = worker[v]
      BY <1>g, <3>1
    <3>3. \A v \in Workers : \A p : Sending(v, p)' => Sending(v, p)
      BY <3>2 DEF Sending
    <3>4. SentByOne'
      BY <2>1, <3>3 DEF SentByOne
    <3>5. LooksStand'
      BY <1>1, <2>3, <3>2 DEF LooksStand
    <3> QED
      BY <1>1, <2>1, <3>2, <3>4, <3>5 DEF R!TypeOK
  <2> QED
    BY <2>2, <2>3
<1>4. ASSUME R!Record(w) PROVE RemindersInv'
  <2>1. worker[w].pc = "record" /\ row[r] = "NONE" /\ UNCHANGED <<blocked, told, lost>> /\ r \in R!Reminders
    BY <1>4 DEF R!Record, R!TypeOK
  <2>2. CASE blocked
    <3>1. row' = [row EXCEPT ![r] = "SKIPPED"] /\ worker' = [worker EXCEPT ![w] = R!IdleWorker]
      BY <1>4, <2>2, SettleEnds DEF R!Record
    <3> QED
      BY <1>d, <2>1, <3>1 DEF R!TypeOK
  <2>3. CASE ~blocked
    <3>1. row' = [row EXCEPT ![r] = "QUEUED"] /\ worker' = [worker EXCEPT ![w].pc = "send"]
      BY <1>4, <2>3 DEF R!Record
    <3>w. /\ worker' \in [Workers -> R!Rounds] /\ worker'[w].pc = "send" /\ worker'[w].reminder = r
          /\ worker'[w].closed = worker[w].closed
          /\ \A v \in Workers : v # w => worker'[v] = worker[v]
      BY <1>g, <3>1
    <3>2. R!TypeOK'
      BY <1>1, <2>1, <3>1, <3>w DEF R!TypeOK
    <3>3. SentByOne'
      <4>1. told[r] = 0 /\ \A v \in Workers : ~Sending(v, r)
        BY <2>1 DEF SentByOne
      <4>2. \A v \in Workers, q \in R!Reminders : Sending(v, q)' => Sending(v, q) \/ (v = w /\ q = r)
        BY <3>w DEF Sending
      <4>3. \A q \in R!Reminders : row'[q] = "NONE" => row[q] = "NONE" /\ q # r
        BY <2>1, <3>1 DEF R!TypeOK
      <4> QED
        BY <2>1, <4>1, <4>2, <4>3 DEF SentByOne
    <3>4. LooksStand'
      BY <1>1, <2>1, <3>w DEF LooksStand
    <3> QED
      BY <3>2, <3>3, <3>4
  <2> QED
    BY <2>2, <2>3 DEF R!TypeOK
<1>5. ASSUME NEW result \in {"delivered", "blocked", "error"}, R!Send(w, result) PROVE RemindersInv'
  <2>1. /\ worker[w].pc = "send" /\ UNCHANGED <<row, lost>> /\ r \in R!Reminders
        /\ told' = IF result = "delivered" THEN [told EXCEPT ![r] = @ + 1] ELSE told
        /\ worker' = [worker EXCEPT ![w].pc = IF result = "delivered" THEN "sent" ELSE "unsent"]
        /\ blocked' \in BOOLEAN
    BY <1>5 DEF R!Send, R!TypeOK
  <2>2. told[r] = 0 /\ row[r] # "NONE" /\ \A v \in Workers : Sending(v, r) => v = w
    BY <2>1 DEF SentByOne, Sending
  <2>w. /\ worker' \in [Workers -> R!Rounds] /\ worker'[w].pc \in {"sent", "unsent"}
        /\ worker'[w].reminder = r /\ \A v \in Workers : v # w => worker'[v] = worker[v]
    BY <1>g, <2>1
  <2>3. \A v \in Workers, q \in R!Reminders : Sending(v, q)' => Sending(v, q) /\ v # w
    BY <2>w DEF Sending
  <2>4. /\ \A q \in R!Reminders : q # r => told'[q] = told[q]
        /\ told'[r] \in {0, 1}
    BY <2>1, <2>2 DEF R!TypeOK
  <2>5. SentByOne'
    BY <2>1, <2>2, <2>3, <2>4 DEF SentByOne
  <2>6. R!TypeOK'
    <3>1. told' \in [R!Reminders -> Nat]
      BY <2>1 DEF R!TypeOK
    <3> QED
      BY <1>1, <2>1, <2>w, <3>1 DEF R!TypeOK
  <2>7. LooksStand'
    BY <1>1, <2>w DEF LooksStand
  <2> QED
    BY <2>5, <2>6, <2>7
<1>6. ASSUME R!Update(w) PROVE RemindersInv'
  <2>1. /\ r \in R!Reminders /\ worker' = [worker EXCEPT ![w] = R!IdleWorker]
        /\ row' = [row EXCEPT ![r] = IF worker[w].pc = "sent" THEN "SENT" ELSE "FAILED"]
        /\ UNCHANGED <<blocked, told, lost>>
    BY <1>6, SettleEnds DEF R!Update, R!TypeOK
  <2> QED
    BY <1>d, <2>1 DEF R!TypeOK
<1>7. ASSUME R!Fail(w) \/ R!Duplicate(w) PROVE RemindersInv'
  <2>1. /\ r \in R!Reminders /\ worker' = [worker EXCEPT ![w] = R!IdleWorker]
        /\ UNCHANGED <<row, blocked, told>> /\ lost' = lost \cup {r}
    BY <1>7 DEF R!Fail, R!Duplicate, R!Retry, R!TypeOK
  <2> QED
    BY <1>d, <2>1 DEF R!TypeOK
<1> QED
  BY <1>2, <1>3, <1>4, <1>5, <1>6, <1>7 DEF R!Step

\* Every step of the reminders keeps their invariant.
LEMMA RemindersStep == RemindersInv /\ R!Next => RemindersInv'
<1> SUFFICES ASSUME RemindersInv, R!Next PROVE RemindersInv'
  OBVIOUS
<1>1. ASSUME R!Tick PROVE RemindersInv'
  <2>1. now' \in 0 .. MaxTime /\ UNCHANGED <<booking, drainer, row, worker, blocked, told, lost>>
    BY <1>1, ConstantsAssumption DEF R!Tick, RemindersInv, R!TypeOK, R!RemindersAssumption
  <2> QED
    BY <2>1, RemindersFrame DEF RemindersInv, R!TypeOK
<1>2. ASSUME NEW b \in Bookings, R!Book(b) PROVE RemindersInv'
  <2>1. /\ booking' = [booking EXCEPT ![b] = "CONFIRMED"]
        /\ UNCHANGED <<now, drainer, row, worker, blocked, told, lost>>
    BY <1>2 DEF R!Book
  <2>2. booking' \in [Bookings -> R!Closed \cup {"NONE", "CONFIRMED"}]
    BY <2>1 DEF RemindersInv, R!TypeOK
  <2>3. \A c : c \in Bookings /\ booking'[c] \in R!Closed => booking[c] \in R!Closed
    BY <2>1 DEF RemindersInv, R!TypeOK, R!Closed
  <2>4. \A w \in Workers : worker[w].pc # "idle" => worker[w].reminder[1] \in Bookings
    BY DEF RemindersInv, R!TypeOK, R!Reminders
  <2> QED
    BY <2>1, <2>2, <2>3, <2>4 DEF RemindersInv, R!TypeOK, SentByOne, LooksStand, Sending
<1>3. ASSUME NEW b \in Bookings, NEW s \in R!Closed, R!Close(b, s) PROVE RemindersInv'
  <2>1. /\ booking' = [booking EXCEPT ![b] = s]
        /\ worker' = [w \in Workers |->
             IF worker[w].pc # "idle" /\ worker[w].reminder[1] = b
             THEN [worker[w] EXCEPT !.closed = TRUE] ELSE worker[w]]
        /\ UNCHANGED <<now, drainer, row, blocked, told, lost>>
    BY <1>3 DEF R!Close
  <2>0. ASSUME NEW q \in R!Rounds
        PROVE  LET c == [q EXCEPT !.closed = TRUE]
               IN  c \in R!Rounds /\ c.pc = q.pc /\ c.reminder = q.reminder /\ c.closed
    BY DEF R!Rounds
  <2>3. \A w \in Workers : /\ worker'[w].pc = worker[w].pc /\ worker'[w].reminder = worker[w].reminder
                           /\ worker'[w] \in R!Rounds
                           /\ worker[w].closed => worker'[w].closed
                           /\ worker[w].pc # "idle" /\ worker[w].reminder[1] = b => worker'[w].closed
    BY <2>0, <2>1 DEF RemindersInv, R!TypeOK
  <2>2. R!TypeOK'
    <3>1. worker' \in [Workers -> R!Rounds]
      BY <2>1, <2>3
    <3>2. booking' \in [Bookings -> R!Closed \cup {"NONE", "CONFIRMED"}]
      BY <2>1 DEF RemindersInv, R!TypeOK
    <3> QED
      BY <2>1, <2>3, <3>1, <3>2 DEF RemindersInv, R!TypeOK
  <2>4. SentByOne'
    BY <2>1, <2>3 DEF RemindersInv, SentByOne, Sending
  <2>5. LooksStand'
    <3>1. \A c : c # b => booking'[c] = booking[c]
      BY <2>1 DEF RemindersInv, R!TypeOK
    <3> QED
      BY <2>3, <3>1 DEF RemindersInv, LooksStand
  <2> QED
    BY <2>2, <2>4, <2>5 DEF RemindersInv
<1>4. ASSUME NEW r \in R!Reminders, NEW dead \in BOOLEAN, R!Stall(r, dead) PROVE RemindersInv'
  <2>1. /\ UNCHANGED <<now, booking, drainer, row, blocked, told>> /\ lost' = lost \cup {r}
        /\ worker' = IF dead THEN [worker EXCEPT ![job[r].owner] = R!IdleWorker] ELSE worker
    BY <1>4 DEF R!Stall
  <2>2. CASE dead
    BY <2>1, <2>2, WorkerDone DEF RemindersInv, R!TypeOK
  <2>3. CASE ~dead
    BY <2>1, <2>3, RemindersFrame DEF RemindersInv, R!TypeOK
  <2> QED
    BY <2>2, <2>3
<1> QED
  BY <1>1, <1>2, <1>3, <1>4, DrainerStep, WorkerStep DEF R!Next

\* A reminder goes out of the hands of a worker that found the booking open, or that
\* is marked.
LEMMA RemindersOpen ==
  RemindersInv /\ R!Next =>
    \A r \in R!Reminders : told'[r] > told[r] =>
      \/ booking[r[1]] \notin R!Closed
      \/ \E w \in Workers : worker[w].pc = "send" /\ worker[w].reminder = r /\ worker[w].closed
<1> SUFFICES ASSUME RemindersInv, R!Next, NEW r \in R!Reminders, told'[r] > told[r]
             PROVE  \/ booking[r[1]] \notin R!Closed
                    \/ \E w \in Workers : worker[w].pc = "send" /\ worker[w].reminder = r /\ worker[w].closed
  OBVIOUS
<1>1. told \in [R!Reminders -> Nat]
  BY DEF RemindersInv, R!TypeOK
<1>2. told' # told
  BY <1>1
<1>3. PICK w \in Workers, result \in {"delivered", "blocked", "error"} : R!Send(w, result)
  BY <1>2 DEF R!Next, R!Tick, R!Book, R!Close, R!Tell, R!Schedule, R!Unschedule, R!Handled, R!Throw,
     R!Fire, R!Step, R!Check, R!Record, R!Duplicate, R!Update, R!Fail, R!Retry, R!Stall
<1>4. /\ worker[w].pc = "send"
      /\ told' = IF result = "delivered" THEN [told EXCEPT ![worker[w].reminder] = @ + 1] ELSE told
  BY <1>3 DEF R!Send
<1>5. worker[w].reminder = r
  BY <1>1, <1>2, <1>4
<1> QED
  BY <1>4, <1>5 DEF RemindersInv, LooksStand

\* Before anything is booked there is nothing to remind of.
LEMMA RemindersInit == R!Init \/ Resting => RemindersInv
<1> SUFFICES ASSUME R!Init \/ Resting PROVE RemindersInv
  OBVIOUS
<1> USE DEF R!Init, Resting
<1>1. /\ R!IdleWorker \in R!Rounds /\ R!IdleWorker.pc = "idle"
      /\ R!IdleDrainer \in R!Runs /\ R!IdleDrainer.pc = "idle"
  BY DEF R!IdleWorker, R!Rounds, R!IdleDrainer, R!Runs
<1>2. now \in 0 .. MaxTime
  BY ConstantsAssumption DEF R!RemindersAssumption
<1>3. R!TypeOK
  <2>1. /\ worker = [w \in Workers |-> R!IdleWorker] /\ drainer = [d \in Drainers |-> R!IdleDrainer]
        /\ row = [r \in R!Reminders |-> "NONE"] /\ told = [r \in R!Reminders |-> 0]
        /\ booking = [b \in Bookings |-> "NONE"] /\ blocked = FALSE /\ lost = {}
    OBVIOUS
  <2> QED
    BY <1>1, <1>2, <2>1 DEF R!TypeOK
<1> QED
  BY <1>1, <1>3 DEF RemindersInv, SentByOne, LooksStand, Sending

-----------------------------------------------------------------------------
(* Bots. *)

\* A request that nothing has disturbed: what it has done of its changes so far.
InStep(h) ==
  /\ request[h].pc \in {"forget", "hook", "active"} =>
       /\ bot.token = request[h].token /\ bot.secret = request[h].secret
       /\ bot.status = "PENDING"
  /\ request[h].pc = "active" => hook[request[h].token] = request[h].secret
  /\ request[h].pc = "gone" => bot = B!NoBot

\* There is one request at most, and without one the row tells the truth.
OneAtATime ==
  /\ \A g, h \in B!Busy : g = h
  /\ \A h \in B!Busy : InStep(h)
  /\ B!Busy = {} /\ bot.status = "ACTIVE" => hook[bot.token] = bot.secret

Announced(p) == p = Api /\ \E h \in Requests : request[h].pc \in {"forget", "gone"}

\* The client a process has or is about to keep is one for the row, or the process
\* is among those that were overtaken.
LoadsFit ==
  \A p \in Processes :
    /\ client[p] # B!None => client[p] = bot.token \/ p \in foreign \/ Announced(p)
    /\ sender[p].pc = "store" =>
         sender[p].token = bot.token \/ sender[p].late \/ p \in foreign \/ Announced(p)

BotsInv == B!TypeOK /\ (upset \/ OneAtATime) /\ LoadsFit

\* A request goes to its next step, and the others stay where they are.
LEMMA GotoType ==
  ASSUME B!TypeOK, NEW h \in Requests, NEW pc, B!Goto(h, pc),
         pc \in {"forget", "hook", "active", "error", "delete", "gone", "unhook"},
         pc \in {"forget", "hook"} => request[h].pc \in {"upsert", "forget"}
  PROVE  /\ request' \in [Requests -> B!Changes]
         /\ \A g \in Requests : request'[g].pc \in {"upsert", "forget", "hook"} =>
                                  request'[g].token \in Tokens /\ request'[g].secret # 0
         /\ request'[h] = [request[h] EXCEPT !.pc = pc]
         /\ request'[h].pc = pc /\ request'[h].token = request[h].token
         /\ request'[h].secret = request[h].secret /\ request'[h].id = request[h].id
         /\ \A g \in Requests : g # h => request'[g] = request[g]
<1>1. request' = [request EXCEPT ![h].pc = pc]
  BY DEF B!Goto
<1>2. request[h] \in B!Changes /\ request \in [Requests -> B!Changes]
  BY DEF B!TypeOK
<1>3. /\ [request[h] EXCEPT !.pc = pc] \in B!Changes
      /\ [request[h] EXCEPT !.pc = pc].pc = pc
      /\ [request[h] EXCEPT !.pc = pc].token = request[h].token
      /\ [request[h] EXCEPT !.pc = pc].secret = request[h].secret
      /\ [request[h] EXCEPT !.pc = pc].id = request[h].id
  BY <1>2 DEF B!Changes
<1>4. request'[h] = [request[h] EXCEPT !.pc = pc] /\ \A g \in Requests : g # h => request'[g] = request[g]
  BY <1>1, <1>2
<1>5. request' \in [Requests -> B!Changes]
  BY <1>1, <1>2, <1>3
<1> QED
  BY <1>3, <1>4, <1>5 DEF B!TypeOK

\* A request begins or ends, and the others stay where they are.
LEMMA PlaceType ==
  ASSUME B!TypeOK, NEW h \in Requests, NEW q \in B!Changes, request' = [request EXCEPT ![h] = q],
         q.pc \in {"upsert", "forget", "hook"} => q.token \in Tokens /\ q.secret # 0
  PROVE  /\ request' \in [Requests -> B!Changes]
         /\ \A g \in Requests : request'[g].pc \in {"upsert", "forget", "hook"} =>
                                  request'[g].token \in Tokens /\ request'[g].secret # 0
         /\ request'[h] = q
         /\ \A g \in Requests : g # h => request'[g] = request[g]
BY DEF B!TypeOK

\* No request is one, and no bot has nothing.
LEMMA NothingType ==
  /\ B!Idle \in B!Changes /\ B!Idle.pc = "idle"
  /\ B!IdleSender \in B!Loads /\ B!IdleSender.pc = "idle"
  /\ B!NoBot.token = B!None /\ B!NoBot.status = "NONE" /\ B!NoBot.id = 0 /\ B!NoBot.secret = 0
BY ConstantsAssumption DEF B!Idle, B!Changes, B!IdleSender, B!Loads, B!NoBot, B!None, B!BotsAssumption

\* What the row holds.
LEMMA RowType ==
  ASSUME B!TypeOK
  PROVE  bot.token \in Tokens \cup {B!None} /\ bot.id \in 0 .. MaxConnects
BY NothingType, ConstantsAssumption DEF B!TypeOK, B!Rows, B!BotsAssumption

\* Requests, loads and restarts keep every variable of Bots in its type.
LEMMA BotsTypeStep == B!TypeOK /\ B!Next => B!TypeOK'
<1> SUFFICES ASSUME B!TypeOK, B!Next PROVE B!TypeOK'
  OBVIOUS
<1>a. Api \in Processes /\ MaxConnects \in Nat /\ \A t \in Tokens : t # B!None
  BY ConstantsAssumption DEF B!BotsAssumption, B!None
<1>b. B!Elsewhere /\ foreign \subseteq Processes => foreign' \subseteq Processes
  BY DEF B!Elsewhere
<1>1. ASSUME NEW h \in Requests, NEW t \in Tokens, B!Connect(h, t) PROVE B!TypeOK'
  <2>1. /\ secrets < MaxConnects /\ secrets' = secrets + 1 /\ upset' = (upset \/ B!Busy # {})
        /\ request' = [request EXCEPT ![h] = [B!Idle EXCEPT !.pc = "upsert", !.token = t,
                                                            !.secret = secrets + 1]]
        /\ UNCHANGED <<bot, hook, client, sender, foreign>>
    BY <1>1 DEF B!Connect
  <2> DEFINE q == [B!Idle EXCEPT !.pc = "upsert", !.token = t, !.secret = secrets + 1]
  <2>2. secrets' \in 1 .. MaxConnects
    BY <1>a, <2>1 DEF B!TypeOK
  <2>3. q \in B!Changes /\ q.token \in Tokens /\ q.secret # 0
    <3>1. B!Idle \in B!Changes /\ secrets + 1 \in 0 .. MaxConnects /\ secrets + 1 # 0
      BY <1>a, <2>1, <2>2, NothingType
    <3> QED
      BY <3>1 DEF B!Changes
  <2>4. request' = [request EXCEPT ![h] = q]
    BY <2>1
  <2> HIDE DEF q
  <2> QED
    BY <2>1, <2>2, <2>3, <2>4, PlaceType DEF B!TypeOK
<1>2. ASSUME NEW h \in Requests, B!Upsert(h) PROVE B!TypeOK'
  <2>1. /\ request[h].pc = "upsert" /\ B!Elsewhere /\ B!Goto(h, "forget")
        /\ bot' = [id |-> IF bot = B!NoBot THEN request[h].secret ELSE bot.id,
                   token |-> request[h].token, secret |-> request[h].secret, status |-> "PENDING"]
        /\ UNCHANGED <<hook, client, sender, secrets, upset>>
    BY <1>2 DEF B!Upsert
  <2>2. request[h].token \in Tokens /\ request[h].secret \in 1 .. MaxConnects
    BY <2>1, <1>a DEF B!TypeOK, B!Changes
  <2>3. bot' \in B!Rows
    BY <2>1, <2>2 DEF B!Rows, B!TypeOK
  <2> QED
    BY <1>b, <2>1, <2>3, GotoType DEF B!TypeOK
<1>3. ASSUME NEW h \in Requests, B!Forget(h) PROVE B!TypeOK'
  <2>1. /\ request[h].pc \in {"forget", "gone"}
        /\ client' = [client EXCEPT ![Api] = B!None] /\ foreign' = foreign \ {Api}
        /\ sender' = [sender EXCEPT ![Api].late = (sender[Api].pc = "store")]
        /\ IF request[h].pc = "forget" THEN B!Goto(h, "hook") ELSE B!Finish(h)
        /\ UNCHANGED <<bot, hook, secrets, upset>>
    BY <1>3 DEF B!Forget
  <2>2. sender' \in [Processes -> B!Loads]
    <3>1. ASSUME NEW q \in B!Loads, NEW late \in BOOLEAN PROVE [q EXCEPT !.late = late] \in B!Loads
      BY DEF B!Loads
    <3>2. [sender[Api] EXCEPT !.late = (sender[Api].pc = "store")] \in B!Loads
      BY <1>a, <3>1 DEF B!TypeOK
    <3> QED
      BY <2>1, <3>2 DEF B!TypeOK
  <2>3. client' \in [Processes -> Tokens \cup {B!None}]
    BY <1>a, <2>1 DEF B!TypeOK
  <2> QED
    BY <2>1, <2>2, <2>3, GotoType, PlaceType, NothingType DEF B!TypeOK, B!Finish
<1>4. ASSUME NEW h \in Requests, NEW reached \in BOOLEAN, B!SetWebhook(h, reached) PROVE B!TypeOK'
  <2>1. /\ request[h].pc = "hook"
        /\ hook' = IF reached THEN [hook EXCEPT ![request[h].token] = request[h].secret] ELSE hook
        /\ B!Goto(h, IF reached THEN "active" ELSE "error")
        /\ UNCHANGED <<bot, client, sender, secrets, upset, foreign>>
    BY <1>4 DEF B!SetWebhook
  <2>2. hook' \in [Tokens -> 0 .. MaxConnects]
    BY <2>1 DEF B!TypeOK, B!Changes
  <2> QED
    BY <2>1, <2>2, GotoType DEF B!TypeOK
<1>5. ASSUME NEW h \in Requests, B!SetStatus(h) PROVE B!TypeOK'
  <2>1. /\ bot' = IF bot = B!NoBot THEN bot
                  ELSE [bot EXCEPT !.status = IF request[h].pc = "active" THEN "ACTIVE" ELSE "ERROR"]
        /\ B!Finish(h) /\ UNCHANGED <<hook, client, sender, secrets, upset, foreign>>
    BY <1>5 DEF B!SetStatus
  <2>2. bot' \in {B!NoBot} \cup B!Rows
    BY <2>1 DEF B!TypeOK, B!Rows
  <2> QED
    BY <2>1, <2>2, PlaceType, NothingType DEF B!TypeOK, B!Finish
<1>6. ASSUME NEW h \in Requests, B!Disconnect(h) PROVE B!TypeOK'
  <2>1. /\ request' = [request EXCEPT ![h] = [B!Idle EXCEPT !.pc = "client", !.id = bot.id]]
        /\ upset' = (upset \/ B!Busy # {}) /\ UNCHANGED <<bot, hook, client, sender, secrets, foreign>>
    BY <1>6 DEF B!Disconnect
  <2> DEFINE q == [B!Idle EXCEPT !.pc = "client", !.id = bot.id]
  <2>2. q \in B!Changes /\ q.pc = "client"
    <3>1. B!Idle \in B!Changes /\ bot.id \in 0 .. MaxConnects
      BY RowType, NothingType
    <3> QED
      BY <3>1 DEF B!Changes
  <2>3. request' = [request EXCEPT ![h] = q]
    BY <2>1
  <2> HIDE DEF q
  <2> QED
    BY <2>1, <2>2, <2>3, PlaceType DEF B!TypeOK
<1>7. ASSUME NEW h \in Requests, B!TakeClient(h) PROVE B!TypeOK'
  <2>1. /\ client' = [client EXCEPT ![Api] = IF @ = B!None THEN bot.token ELSE @]
        /\ request' = [request EXCEPT ![h].pc = "unhook", ![h].token = client'[Api]]
        /\ UNCHANGED <<bot, hook, sender, secrets, upset, foreign>>
    BY <1>7 DEF B!TakeClient
  <2>2. client' \in [Processes -> Tokens \cup {B!None}]
    BY <1>a, <2>1, RowType DEF B!TypeOK
  <2>3. PICK c \in Tokens \cup {B!None} : c = client'[Api]
    BY <1>a, <2>2
  <2> DEFINE q == [request[h] EXCEPT !.pc = "unhook", !.token = c]
  <2>4. q \in B!Changes /\ q.pc = "unhook"
    <3>1. request[h] \in B!Changes
      BY DEF B!TypeOK
    <3> QED
      BY <3>1 DEF B!Changes
  <2>5. request' = [request EXCEPT ![h] = q]
    <3>1. request' = [request EXCEPT ![h].pc = "unhook", ![h].token = c]
      BY <2>1, <2>3
    <3>2. request \in [Requests -> B!Changes]
      BY DEF B!TypeOK
    <3> QED
      BY <3>1, <3>2
  <2> HIDE DEF q
  <2> QED
    BY <2>1, <2>2, <2>4, <2>5, PlaceType DEF B!TypeOK
<1>8. ASSUME NEW h \in Requests, NEW reached \in BOOLEAN, B!DeleteWebhook(h, reached) PROVE B!TypeOK'
  <2>1. /\ hook' = IF reached /\ request[h].token # B!None
                   THEN [hook EXCEPT ![request[h].token] = 0] ELSE hook
        /\ B!Goto(h, "delete") /\ UNCHANGED <<bot, client, sender, secrets, upset, foreign>>
    BY <1>8 DEF B!DeleteWebhook
  <2>2. hook' \in [Tokens -> 0 .. MaxConnects]
    <3>1. request[h].token \in Tokens \cup {B!None} /\ 0 \in 0 .. MaxConnects
      BY <1>a DEF B!TypeOK, B!Changes
    <3> QED
      BY <2>1, <3>1 DEF B!TypeOK
  <2> QED
    BY <2>1, <2>2, GotoType DEF B!TypeOK
<1>9. ASSUME NEW h \in Requests, B!DeleteRow(h) PROVE B!TypeOK'
  BY <1>9, <1>b, GotoType, PlaceType, NothingType DEF B!DeleteRow, B!TypeOK, B!Finish
<1>10. ASSUME NEW h \in Requests, B!Die(h) PROVE B!TypeOK'
  BY <1>10, <1>a, PlaceType, NothingType DEF B!Die, B!TypeOK, B!Finish
<1>11. ASSUME NEW p \in Processes, B!Load(p) PROVE B!TypeOK'
  <2>1. /\ sender' = [sender EXCEPT ![p] = [pc |-> "store", token |-> bot.token, late |-> FALSE]]
        /\ UNCHANGED <<bot, hook, client, request, secrets, upset, foreign>>
    BY <1>11 DEF B!Load
  <2>2. sender' \in [Processes -> B!Loads]
    BY <2>1, RowType DEF B!TypeOK, B!Loads
  <2> QED
    BY <2>1, <2>2 DEF B!TypeOK
<1>12. ASSUME NEW p \in Processes, B!Store(p) PROVE B!TypeOK'
  <2>1. sender[p].token \in Tokens \cup {B!None}
    BY DEF B!TypeOK, B!Loads
  <2> QED
    BY <1>12, <2>1, NothingType DEF B!Store, B!TypeOK
<1>13. ASSUME NEW p \in Processes, B!Restart(p) PROVE B!TypeOK'
  BY <1>13, NothingType DEF B!Restart, B!TypeOK
<1> QED
  BY <1>1, <1>2, <1>3, <1>4, <1>5, <1>6, <1>7, <1>8, <1>9, <1>10, <1>11, <1>12, <1>13 DEF B!Next

\* While requests come one after the other, each does what it is for: the webhook is
\* set for the row, or the row goes.
LEMMA OneAtATimeStep == B!TypeOK /\ (upset \/ OneAtATime) /\ B!Next => (upset' \/ OneAtATime')
<1> SUFFICES ASSUME B!TypeOK, upset \/ OneAtATime, B!Next, ~upset' PROVE OneAtATime'
  OBVIOUS
<1>u. OneAtATime
  BY DEF B!Next, B!Connect, B!Upsert, B!Forget, B!SetWebhook, B!SetStatus, B!Disconnect, B!TakeClient,
     B!DeleteWebhook, B!DeleteRow, B!Die, B!Load, B!Store, B!Restart
<1>n. B!Idle.pc = "idle"
  BY NothingType
<1>o. ASSUME NEW h \in Requests, request[h].pc # "idle" \/ B!Busy = {},
             \A g \in Requests : g # h => request'[g] = request[g]
      PROVE  B!Busy' = IF request'[h].pc = "idle" THEN {} ELSE {h}
  BY <1>o, <1>u DEF OneAtATime, B!Busy
<1>c. ASSUME NEW h \in Requests, B!Busy' = {h}, InStep(h)' PROVE OneAtATime'
  BY <1>c DEF OneAtATime
<1>d. ASSUME B!Busy' = {}, bot'.status = "ACTIVE" => hook'[bot'.token] = bot'.secret PROVE OneAtATime'
  BY <1>d DEF OneAtATime
<1>g. ASSUME NEW h \in Requests, NEW pc, B!Goto(h, pc), request[h].pc # "idle",
             pc \in {"forget", "hook", "active", "error", "delete", "gone", "unhook"},
             pc \in {"forget", "hook"} => request[h].pc \in {"upsert", "forget"}
      PROVE  /\ B!Busy' = {h} /\ request'[h].pc = pc
             /\ request'[h].token = request[h].token /\ request'[h].secret = request[h].secret
  <2>1. /\ request'[h].pc = pc /\ \A g \in Requests : g # h => request'[g] = request[g]
        /\ request'[h].token = request[h].token /\ request'[h].secret = request[h].secret
    BY <1>g, GotoType
  <2>2. B!Busy' = {h}
    BY <1>g, <1>o, <2>1
  <2> QED
    BY <2>1, <2>2
<1>1. ASSUME NEW h \in Requests, NEW t \in Tokens, B!Connect(h, t) PROVE OneAtATime'
  <2>1. /\ B!Busy = {} /\ request'[h].pc = "upsert"
        /\ \A g \in Requests : g # h => request'[g] = request[g]
    BY <1>1 DEF B!Connect, B!TypeOK, B!Idle
  <2> QED
    BY <1>c, <1>o, <2>1 DEF InStep
<1>2. ASSUME NEW h \in Requests, B!Upsert(h) PROVE OneAtATime'
  <2>1. /\ request[h].pc = "upsert" /\ B!Goto(h, "forget")
        /\ bot'.token = request[h].token /\ bot'.secret = request[h].secret /\ bot'.status = "PENDING"
    BY <1>2 DEF B!Upsert
  <2> QED
    BY <1>c, <1>g, <2>1 DEF InStep
<1>3. ASSUME NEW h \in Requests, B!Forget(h) PROVE OneAtATime'
  <2>1. /\ request[h].pc \in {"forget", "gone"} /\ InStep(h) /\ UNCHANGED <<bot, hook>>
    BY <1>3, <1>u DEF B!Forget, OneAtATime, B!Busy
  <2>2. CASE request[h].pc = "forget"
    BY <1>3, <1>c, <1>g, <2>1, <2>2 DEF InStep, B!Forget
  <2>3. CASE request[h].pc = "gone"
    <3>1. B!Finish(h) /\ bot' = B!NoBot
      BY <1>3, <2>1, <2>3 DEF B!Forget, InStep
    <3>2. request'[h].pc = "idle" /\ \A g \in Requests : g # h => request'[g] = request[g]
      BY <1>n, <3>1 DEF B!Finish, B!TypeOK
    <3> QED
      BY <1>d, <1>o, <2>3, <3>1, <3>2, NothingType
  <2> QED
    BY <2>1, <2>2, <2>3
<1>4. ASSUME NEW h \in Requests, NEW reached \in BOOLEAN, B!SetWebhook(h, reached) PROVE OneAtATime'
  <2>1. /\ request[h].pc = "hook" /\ InStep(h) /\ bot' = bot /\ request[h].token \in Tokens
        /\ hook' = IF reached THEN [hook EXCEPT ![request[h].token] = request[h].secret] ELSE hook
        /\ B!Goto(h, IF reached THEN "active" ELSE "error")
    BY <1>4, <1>u DEF B!SetWebhook, OneAtATime, B!Busy, B!TypeOK
  <2>2. reached => hook'[request[h].token] = request[h].secret
    BY <2>1 DEF B!TypeOK
  <2> QED
    BY <1>c, <1>g, <2>1, <2>2 DEF InStep
<1>5. ASSUME NEW h \in Requests, B!SetStatus(h) PROVE OneAtATime'
  <2>1. /\ request[h].pc \in {"active", "error"} /\ InStep(h) /\ hook' = hook
        /\ bot' = IF bot = B!NoBot THEN bot
                  ELSE [bot EXCEPT !.status = IF request[h].pc = "active" THEN "ACTIVE" ELSE "ERROR"]
        /\ request' = [request EXCEPT ![h] = B!Idle]
    BY <1>5, <1>u DEF B!SetStatus, OneAtATime, B!Busy, B!Finish
  <2>2. request'[h].pc = "idle" /\ \A g \in Requests : g # h => request'[g] = request[g]
    BY <1>n, <2>1 DEF B!TypeOK
  <2>3. bot'.status = "ACTIVE" =>
          request[h].pc = "active" /\ bot'.token = bot.token /\ bot'.secret = bot.secret
    BY <2>1, NothingType DEF B!TypeOK, B!Rows
  <2> QED
    BY <1>d, <1>o, <2>1, <2>2, <2>3 DEF InStep
<1>6. ASSUME NEW h \in Requests, B!Disconnect(h) PROVE OneAtATime'
  <2>1. /\ B!Busy = {} /\ request'[h].pc = "client"
        /\ \A g \in Requests : g # h => request'[g] = request[g]
    BY <1>6 DEF B!Disconnect, B!TypeOK, B!Idle
  <2> QED
    BY <1>c, <1>o, <2>1 DEF InStep
<1>7. ASSUME NEW h \in Requests, B!TakeClient(h) PROVE OneAtATime'
  <2>1. /\ request[h].pc = "client" /\ request'[h].pc = "unhook"
        /\ \A g \in Requests : g # h => request'[g] = request[g]
    BY <1>7 DEF B!TakeClient, B!TypeOK, B!Changes
  <2> QED
    BY <1>c, <1>o, <2>1 DEF InStep
<1>8. ASSUME NEW h \in Requests, NEW reached \in BOOLEAN, B!DeleteWebhook(h, reached) PROVE OneAtATime'
  <2>1. request[h].pc = "unhook" /\ B!Goto(h, "delete")
    BY <1>8 DEF B!DeleteWebhook
  <2> QED
    BY <1>c, <1>g, <2>1 DEF InStep
<1>9. ASSUME NEW h \in Requests, B!DeleteRow(h) PROVE OneAtATime'
  <2>1. request[h].pc = "delete" /\ bot' = B!NoBot /\ B!Goto(h, "gone")
    BY <1>9 DEF B!DeleteRow
  <2> QED
    BY <1>c, <1>g, <2>1 DEF InStep
<1>10. ASSUME NEW p \in Processes, B!Load(p) \/ B!Store(p) \/ B!Restart(p) PROVE OneAtATime'
  BY <1>10, <1>u DEF B!Load, B!Store, B!Restart, OneAtATime, InStep, B!Busy
<1> QED
  BY <1>1, <1>2, <1>3, <1>4, <1>5, <1>6, <1>7, <1>8, <1>9, <1>10 DEF B!Next, B!Die

\* A change of the row marks the clients that were made for the old one, or has the
\* process that makes it drop its own.
LEMMA LoadsStep == B!TypeOK /\ LoadsFit /\ B!Next => LoadsFit'
<1> SUFFICES ASSUME B!TypeOK, LoadsFit, B!Next PROVE LoadsFit'
  OBVIOUS
<1>a. Api \in Processes
  BY ConstantsAssumption DEF B!BotsAssumption
<1>n. B!Idle.pc = "idle"
  BY NothingType
\* The row, the clients and the loads are as they were, and nobody goes on past the
\* announcement.
<1>f. ASSUME bot' = bot, client' = client, sender' = sender, foreign \subseteq foreign',
             Announced(Api) => Announced(Api)' \/ Api \in foreign'
      PROVE  LoadsFit'
  BY <1>f DEF LoadsFit, Announced
<1>g. ASSUME NEW h \in Requests, request[h].pc \notin {"forget", "gone"},
             \A g \in Requests : g # h => request'[g] = request[g]
      PROVE  Announced(Api) => Announced(Api)'
  BY <1>g DEF Announced
\* The row changes.
<1>e. ASSUME B!Elsewhere, client' = client, sender' = sender, Announced(Api)' PROVE LoadsFit'
  <2>1. \A p \in Processes : p # Api => p \in foreign' \/ (client[p] = B!None /\ sender[p].pc = "idle")
    BY <1>e DEF B!Elsewhere
  <2>2. \A p \in Processes : p = Api => Announced(p)'
    BY <1>e DEF Announced
  <2> QED
    BY <1>e, <2>1, <2>2 DEF LoadsFit
<1>1. ASSUME NEW h \in Requests, (\E t \in Tokens : B!Connect(h, t)) \/ B!Disconnect(h) PROVE LoadsFit'
  <2>1. /\ request[h].pc = "idle" /\ UNCHANGED <<bot, client, sender, foreign>>
        /\ \A g \in Requests : g # h => request'[g] = request[g]
    BY <1>1, <1>n DEF B!Connect, B!Disconnect, B!NextPlace, B!TypeOK
  <2> QED
    BY <1>f, <1>g, <2>1
<1>2. ASSUME NEW h \in Requests, B!Upsert(h) PROVE LoadsFit'
  <2>1. B!Elsewhere /\ client' = client /\ sender' = sender /\ B!Goto(h, "forget")
    BY <1>2 DEF B!Upsert
  <2>2. Announced(Api)'
    BY <1>2, <2>1, GotoType DEF Announced, B!Upsert
  <2> QED
    BY <1>e, <2>1, <2>2
<1>3. ASSUME NEW h \in Requests, B!Forget(h) PROVE LoadsFit'
  <2>1. /\ client' = [client EXCEPT ![Api] = B!None] /\ foreign' = foreign \ {Api} /\ bot' = bot
        /\ sender' = [sender EXCEPT ![Api].late = (sender[Api].pc = "store")]
    BY <1>3 DEF B!Forget
  <2>2. client'[Api] = B!None /\ (sender'[Api].pc = "store" => sender'[Api].late)
    BY <1>a, <2>1 DEF B!TypeOK, B!Loads
  <2>3. \A p \in Processes : p # Api => /\ client'[p] = client[p] /\ sender'[p] = sender[p]
                                        /\ p \in foreign => p \in foreign'
    BY <2>1 DEF B!TypeOK
  <2> QED
    BY <2>1, <2>2, <2>3 DEF LoadsFit, Announced
<1>4. ASSUME NEW h \in Requests, NEW reached \in BOOLEAN,
             B!SetWebhook(h, reached) \/ B!DeleteWebhook(h, reached)
      PROVE  LoadsFit'
  <2>1. /\ request[h].pc \in {"hook", "unhook"} /\ UNCHANGED <<bot, client, sender, foreign>>
        /\ \E pc : B!Goto(h, pc)
    BY <1>4 DEF B!SetWebhook, B!DeleteWebhook
  <2>2. \A g \in Requests : g # h => request'[g] = request[g]
    BY <2>1 DEF B!Goto, B!TypeOK
  <2> QED
    BY <1>f, <1>g, <2>1, <2>2
<1>5. ASSUME NEW h \in Requests, B!SetStatus(h) PROVE LoadsFit'
  <2>1. /\ request[h].pc \in {"active", "error"} /\ bot'.token = bot.token
        /\ UNCHANGED <<client, sender, foreign>>
        /\ \A g \in Requests : g # h => request'[g] = request[g]
    BY <1>5, NothingType DEF B!SetStatus, B!TypeOK, B!Rows, B!Finish
  <2>2. Announced(Api) => Announced(Api)'
    BY <1>g, <2>1
  <2> QED
    BY <2>1, <2>2 DEF LoadsFit, Announced
<1>6. ASSUME NEW h \in Requests, B!TakeClient(h) PROVE LoadsFit'
  <2>1. /\ request[h].pc = "client" /\ UNCHANGED <<bot, sender, foreign>>
        /\ client' = [client EXCEPT ![Api] = IF @ = B!None THEN bot.token ELSE @]
        /\ \A g \in Requests : g # h => request'[g] = request[g]
    BY <1>6 DEF B!TakeClient, B!TypeOK
  <2>2. Announced(Api) => Announced(Api)'
    BY <1>g, <2>1
  <2>3. \A p \in Processes : client'[p] = client[p] \/ (p = Api /\ client'[p] = bot.token)
    BY <2>1 DEF B!TypeOK
  <2> QED
    BY <2>1, <2>2, <2>3 DEF LoadsFit, Announced
<1>7. ASSUME NEW h \in Requests, B!DeleteRow(h) PROVE LoadsFit'
  <2>1. client' = client /\ sender' = sender /\ request[h].pc = "delete"
    BY <1>7 DEF B!DeleteRow
  <2>2. CASE B!Elsewhere /\ B!Goto(h, "gone")
    <3>1. Announced(Api)'
      BY <2>1, <2>2, GotoType DEF Announced
    <3> QED
      BY <1>e, <2>1, <2>2, <3>1
  <2>3. CASE B!Finish(h) /\ bot' = bot /\ foreign' = foreign
    <3>1. \A g \in Requests : g # h => request'[g] = request[g]
      BY <2>3 DEF B!Finish, B!TypeOK
    <3> QED
      BY <1>f, <1>g, <2>1, <2>3, <3>1
  <2> QED
    BY <1>7, <2>2, <2>3 DEF B!DeleteRow
<1>8. ASSUME NEW h \in Requests, B!Die(h) PROVE LoadsFit'
  <2>1. /\ UNCHANGED <<bot, client, sender>> /\ foreign \subseteq foreign'
        /\ request[h].pc \in {"forget", "gone"} => Api \in foreign'
        /\ \A g \in Requests : g # h => request'[g] = request[g]
    BY <1>8 DEF B!Die, B!Finish, B!TypeOK
  <2> QED
    BY <1>f, <1>g, <2>1
<1>9. ASSUME NEW p \in Processes, B!Load(p) PROVE LoadsFit'
  <2>1. /\ sender' = [sender EXCEPT ![p] = [pc |-> "store", token |-> bot.token, late |-> FALSE]]
        /\ UNCHANGED <<bot, client, request, foreign>>
    BY <1>9 DEF B!Load
  <2>2. sender'[p].token = bot.token /\ \A q \in Processes : q # p => sender'[q] = sender[q]
    BY <2>1 DEF B!TypeOK
  <2> QED
    BY <2>1, <2>2 DEF LoadsFit, Announced
<1>10. ASSUME NEW p \in Processes, B!Store(p) \/ B!Restart(p) PROVE LoadsFit'
  <2>1. /\ UNCHANGED <<bot, request>> /\ sender' = [sender EXCEPT ![p] = B!IdleSender]
        /\ \A q \in Processes : q # p => client'[q] = client[q] /\ (q \in foreign => q \in foreign')
    BY <1>10 DEF B!Store, B!Restart, B!TypeOK
  <2>2. sender'[p].pc = "idle" /\ \A q \in Processes : q # p => sender'[q] = sender[q]
    BY <2>1, NothingType DEF B!TypeOK
  <2>3. client'[p] = B!None \/ client'[p] = bot.token \/ p \in foreign' \/ Announced(p)
    BY <1>10 DEF B!Store, B!Restart, B!TypeOK, LoadsFit
  <2> QED
    BY <2>1, <2>2, <2>3 DEF LoadsFit, Announced
<1> QED
  BY <1>1, <1>2, <1>3, <1>4, <1>5, <1>6, <1>7, <1>8, <1>9, <1>10 DEF B!Next

\* A business starts with no bot, no request and no client.
LEMMA BotsInit == B!Init => BotsInv
<1> SUFFICES ASSUME B!Init PROVE BotsInv
  OBVIOUS
<1> USE DEF B!Init
<1>1. B!TypeOK
  <2>1. 0 \in 0 .. MaxConnects
    BY ConstantsAssumption DEF B!BotsAssumption
  <2> QED
    BY <2>1, NothingType DEF B!TypeOK
<1>2. B!Busy = {}
  BY NothingType DEF B!Busy
<1> QED
  BY <1>1, <1>2, NothingType DEF BotsInv, OneAtATime, LoadsFit

-----------------------------------------------------------------------------
(* Updates. *)

Working(h, u) ==
  delivery[h].pc \in {"touch", "route", "create", "known"} /\ delivery[h].update = u

\* The unique row lets one delivery work on an update, once.
WorkedByOne ==
  \A u \in UpdateIds :
    /\ heard[u] \in {0, 1}
    /\ u \notin processed => heard[u] = 0 /\ \A h \in Deliveries : ~Working(h, u)
    /\ \A h \in Deliveries : Working(h, u) =>
         heard[u] = 0 /\ \A g \in Deliveries : Working(g, u) => g = h

\* What was recorded was heard, is being worked on or was dropped for a reason; what
\* was answered was recorded or dropped for a reason.
Accounted ==
  /\ \A u \in processed : heard[u] = 1 \/ u \in excused \/ \E h \in Deliveries : Working(h, u)
  /\ answered \subseteq processed \cup excused

UpdatesInv == U!TypeOK /\ WorkedByOne /\ Accounted

\* No delivery is one.
LEMMA NoDelivery == U!Idle \in U!DeliveryRecord /\ U!Idle.pc = "idle"
BY DEF U!Idle, U!DeliveryRecord

\* A delivery is none, or of an update.
Placed(g) == delivery[g] = U!Idle \/ (delivery[g].pc # "idle" /\ delivery[g].update \in UpdateIds)

\* A delivery goes to its next step and stays with its update.
LEMMA DeliveryGoes ==
  ASSUME U!TypeOK, NEW h \in Deliveries, NEW pc, U!Goto(h, pc),
         pc \in {"record", "touch", "route", "create", "known"}, delivery[h].pc # "idle"
  PROVE  /\ delivery' \in [Deliveries -> U!DeliveryRecord]
         /\ \A g \in Deliveries : Placed(g)'
         /\ delivery'[h].pc = pc /\ delivery'[h].update = delivery[h].update
         /\ \A g \in Deliveries : g # h => delivery'[g] = delivery[g]
<1>1. delivery[h] \in U!DeliveryRecord /\ delivery' = [delivery EXCEPT ![h].pc = pc]
  BY DEF U!TypeOK, Placed, U!Goto
<1>2. /\ [delivery[h] EXCEPT !.pc = pc] \in U!DeliveryRecord
      /\ [delivery[h] EXCEPT !.pc = pc].pc = pc
      /\ [delivery[h] EXCEPT !.pc = pc].update = delivery[h].update
  BY <1>1 DEF U!DeliveryRecord
<1>3. delivery[h].update \in UpdateIds
  BY NoDelivery DEF U!TypeOK
<1>4. Placed(h)'
  BY <1>1, <1>2, <1>3 DEF U!TypeOK, Placed
<1> QED
  BY <1>1, <1>2, <1>4 DEF U!TypeOK, Placed

\* A delivery ends.
LEMMA DeliveryEnds ==
  ASSUME U!TypeOK, NEW h \in Deliveries, delivery' = [delivery EXCEPT ![h] = U!Idle]
  PROVE  /\ delivery' \in [Deliveries -> U!DeliveryRecord] /\ delivery'[h].pc = "idle"
         /\ \A g \in Deliveries : Placed(g)'
         /\ \A g \in Deliveries : g # h => delivery'[g] = delivery[g]
BY NoDelivery DEF U!TypeOK, Placed

\* A delivery that goes on, without a first record of its update.
LEMMA UpdatesGoOn ==
  ASSUME UpdatesInv, NEW h \in Deliveries, NEW pc, U!Goto(h, pc), delivery[h].pc # "idle",
         pc \in {"record", "touch", "route", "create", "known"},
         Working(h, delivery[h].update) <=> pc # "record",
         known' \in BOOLEAN, customer' \in {"NONE", "HERE", "BLOCKED"},
         UNCHANGED <<processed, answered, heard, excused>>
  PROVE  UpdatesInv'
<1> USE DEF UpdatesInv
<1>1. /\ delivery' \in [Deliveries -> U!DeliveryRecord]
      /\ \A g \in Deliveries : Placed(g)'
      /\ delivery'[h].pc = pc /\ delivery'[h].update = delivery[h].update
      /\ \A g \in Deliveries : g # h => delivery'[g] = delivery[g]
  BY DeliveryGoes
<1>2. \A g \in Deliveries : \A u : Working(g, u)' <=> Working(g, u)
  BY <1>1 DEF Working
<1>3. U!TypeOK'
  BY <1>1 DEF U!TypeOK, Placed
<1> QED
  BY <1>2, <1>3 DEF WorkedByOne, Accounted

\* A delivery that ends, of an update it has heard or that is accounted for.
LEMMA UpdatesEnd ==
  ASSUME UpdatesInv, NEW h \in Deliveries, delivery[h].pc # "idle",
         delivery' = [delivery EXCEPT ![h] = U!Idle],
         known' \in BOOLEAN, customer' \in {"NONE", "HERE", "BLOCKED"}, processed' = processed,
         \/ U!Hear(h) /\ excused' = excused /\ Working(h, delivery[h].update)
         \/ heard' = heard /\ excused' = excused /\ ~Working(h, delivery[h].update)
         \/ heard' = heard /\ U!Excuse(h),
         \/ answered' = answered
         \/ answered' = answered \cup {delivery[h].update}
              /\ delivery[h].update \in processed' \cup excused'
  PROVE  UpdatesInv'
<1> USE DEF UpdatesInv
<1> DEFINE u == delivery[h].update
<1>1. /\ delivery' \in [Deliveries -> U!DeliveryRecord] /\ delivery'[h].pc = "idle"
      /\ \A g \in Deliveries : Placed(g)'
      /\ \A g \in Deliveries : g # h => delivery'[g] = delivery[g]
  BY DeliveryEnds
<1>2. \A g \in Deliveries : \A v : Working(g, v)' <=> Working(g, v) /\ g # h
  BY <1>1 DEF Working
<1>3. u \in UpdateIds /\ \A v : v # u => ~Working(h, v)
  BY NoDelivery DEF U!TypeOK, Working
<1>4. /\ \A v \in UpdateIds : v # u => heard'[v] = heard[v]
      /\ heard'[u] = heard[u] \/ (Working(h, u) /\ heard'[u] = heard[u] + 1)
      /\ heard' \in [UpdateIds -> Nat]
  BY <1>3 DEF U!Hear, U!TypeOK
<1>5. excused \subseteq excused' /\ excused' \subseteq UpdateIds /\ answered' \subseteq UpdateIds
  BY <1>3 DEF U!Excuse, U!TypeOK
<1> HIDE DEF u
<1>6. U!TypeOK'
  BY <1>1, <1>4, <1>5 DEF U!TypeOK, Placed
<1>7. WorkedByOne'
  BY <1>2, <1>3, <1>4 DEF WorkedByOne
<1>8. Working(h, u) => heard'[u] = 1 \/ u \in excused'
  <2>1. Working(h, u) => heard[u] = 0
    BY <1>3 DEF WorkedByOne
  <2> QED
    BY <1>3, <2>1 DEF U!Hear, U!Excuse, U!TypeOK, u
<1>9. \A v \in processed : heard'[v] = 1 \/ v \in excused' \/ \E g \in Deliveries : Working(g, v)'
  <2> SUFFICES ASSUME NEW v \in processed, ~(\E g \in Deliveries : Working(g, v)')
               PROVE  heard'[v] = 1 \/ v \in excused'
    OBVIOUS
  <2>1. v \in UpdateIds
    BY DEF U!TypeOK, Placed
  <2>2. CASE v = u /\ Working(h, u)
    BY <1>8, <2>2
  <2>3. CASE ~(v = u /\ Working(h, u))
    <3>1. \A g \in Deliveries : ~Working(g, v)
      BY <1>2, <1>3, <2>3
    <3>2. heard'[v] = heard[v]
      BY <1>4, <2>1, <2>3
    <3> QED
      BY <1>5, <3>1, <3>2 DEF Accounted
  <2> QED
    BY <2>2, <2>3
<1>10. Accounted'
  BY <1>5, <1>9 DEF Accounted, u
<1> QED
  BY <1>6, <1>7, <1>10

\* Every step of a delivery keeps the account of the updates.
LEMMA UpdatesStep == UpdatesInv /\ U!Next => UpdatesInv'
<1> SUFFICES ASSUME UpdatesInv, U!Next PROVE UpdatesInv'
  OBVIOUS
<1> USE DEF UpdatesInv
<1>t. known \in BOOLEAN /\ customer \in {"NONE", "HERE", "BLOCKED"}
  BY DEF U!TypeOK, Placed
<1>1. ASSUME U!Change PROVE UpdatesInv'
  <2>1. /\ known' \in BOOLEAN
        /\ UNCHANGED <<processed, delivery, answered, customer, heard, excused>>
    BY <1>1, <1>t DEF U!Change
  <2> QED
    BY <2>1 DEF U!TypeOK, Placed, WorkedByOne, Accounted, Working
<1>2. ASSUME NEW h \in Deliveries, NEW u \in UpdateIds, U!Deliver(h, u) PROVE UpdatesInv'
  <2>1. /\ delivery[h] = U!Idle /\ UNCHANGED <<known, processed, answered, customer, heard, excused>>
        /\ delivery' = [delivery EXCEPT ![h] = [pc |-> "resolve", update |-> u]]
    BY <1>2 DEF U!Deliver
  <2>2. delivery' \in [Deliveries -> U!DeliveryRecord]
    BY <2>1 DEF U!TypeOK, Placed, U!DeliveryRecord
  <2>3. /\ delivery'[h] = [pc |-> "resolve", update |-> u]
        /\ \A g \in Deliveries : g # h => delivery'[g] = delivery[g]
    BY <2>1 DEF U!TypeOK, Placed
  <2>4. \A g \in Deliveries : \A v : Working(g, v)' <=> Working(g, v)
    BY <2>1, <2>3 DEF Working, U!Idle
  <2>5. U!TypeOK'
    BY <2>1, <2>2, <2>3 DEF U!TypeOK, Placed
  <2> QED
    BY <2>1, <2>4, <2>5 DEF WorkedByOne, Accounted
<1>3. ASSUME NEW h \in Deliveries, U!Resolve(h) PROVE UpdatesInv'
  <2>1. delivery[h].pc = "resolve" /\ ~Working(h, delivery[h].update)
        /\ UNCHANGED <<known, processed, customer, heard>>
    BY <1>3 DEF U!Resolve, Working
  <2>2. CASE known
    BY <1>3, <1>t, <2>1, <2>2, UpdatesGoOn DEF U!Resolve
  <2>3. CASE ~known
    BY <1>3, <1>t, <2>1, <2>3, UpdatesEnd DEF U!Resolve, U!Answer, U!Excuse
  <2> QED
    BY <2>2, <2>3
<1>4. ASSUME NEW h \in Deliveries, U!Record(h) PROVE UpdatesInv'
  <2>0. PICK u \in UpdateIds : u = delivery[h].update
    BY <1>4, NoDelivery DEF U!Record, U!TypeOK
  <2>1. delivery[h].pc = "record" /\ ~Working(h, u) /\ UNCHANGED <<known, customer, heard, excused>>
    BY <1>4, <2>0 DEF U!Record, Working
  <2>2. CASE u \in processed
    BY <1>4, <1>t, <2>0, <2>1, <2>2, UpdatesEnd DEF U!Record, U!Answer
  <2>3. CASE u \notin processed
    <3>1. processed' = processed \cup {u} /\ U!Goto(h, "touch") /\ answered' = answered
      BY <1>4, <2>0, <2>3 DEF U!Record
    <3>2. /\ delivery' \in [Deliveries -> U!DeliveryRecord]
          /\ \A g \in Deliveries : Placed(g)'
          /\ delivery'[h].pc = "touch" /\ delivery'[h].update = u
          /\ \A g \in Deliveries : g # h => delivery'[g] = delivery[g]
      BY <2>0, <2>1, <3>1, DeliveryGoes
    <3>4. \A g \in Deliveries : \A v : Working(g, v)' <=> Working(g, v) \/ (g = h /\ v = u)
      BY <2>0, <2>1, <3>2 DEF Working
    <3>5. heard[u] = 0 /\ \A g \in Deliveries : ~Working(g, u)
      BY <2>3 DEF WorkedByOne
    <3>6. U!TypeOK'
      BY <2>1, <3>1, <3>2 DEF U!TypeOK, Placed
    <3>7. \A g \in Deliveries : \A v : v # u => (Working(g, v)' <=> Working(g, v))
      BY <3>4
    <3>8. WorkedByOne'
      <4> SUFFICES ASSUME NEW v \in UpdateIds
                   PROVE  /\ heard[v] \in {0, 1}
                          /\ v \notin processed' => heard[v] = 0 /\ \A g \in Deliveries : ~Working(g, v)'
                          /\ \A g \in Deliveries : Working(g, v)' =>
                               heard[v] = 0 /\ \A k \in Deliveries : Working(k, v)' => k = g
        BY <2>1 DEF WorkedByOne
      <4>1. CASE v = u
        BY <3>1, <3>4, <3>5, <4>1
      <4>2. CASE v # u
        BY <3>1, <3>7, <4>2 DEF WorkedByOne
      <4> QED
        BY <4>1, <4>2
    <3>9. Accounted'
      <4>1. Working(h, u)'
        BY <3>2 DEF Working
      <4> QED
        BY <2>1, <3>1, <3>4, <4>1 DEF Accounted
    <3> QED
      BY <3>6, <3>8, <3>9
  <2> QED
    BY <2>2, <2>3
<1>5. ASSUME NEW h \in Deliveries, U!RecordFails(h) \/ U!RouteFails(h) PROVE UpdatesInv'
  BY <1>5, <1>t, UpdatesEnd DEF U!RecordFails, U!RouteFails, U!Answer, U!Excuse
<1>6. ASSUME NEW h \in Deliveries, U!Touch(h) PROVE UpdatesInv'
  BY <1>6, <1>t, UpdatesGoOn DEF U!Touch, Working
<1>7. ASSUME NEW h \in Deliveries, U!Find(h) PROVE UpdatesInv'
  <2>1. /\ delivery[h].pc = "route" /\ UNCHANGED <<known, processed, customer, excused>>
        /\ \/ (U!Goto(h, "known") \/ U!Goto(h, "create")) /\ UNCHANGED <<answered, heard>>
           \/ U!Answer(h) /\ U!Hear(h)
    BY <1>7 DEF U!Find
  <2>2. Working(h, delivery[h].update) /\ delivery[h].update \in processed
    BY <2>1, NoDelivery DEF Working, WorkedByOne, U!TypeOK
  <2>3. CASE U!Answer(h) /\ U!Hear(h)
    BY <1>t, <2>1, <2>2, <2>3, UpdatesEnd DEF U!Answer
  <2>4. CASE (U!Goto(h, "known") \/ U!Goto(h, "create")) /\ UNCHANGED <<answered, heard>>
    BY <1>t, <2>1, <2>2, <2>4, UpdatesGoOn
  <2> QED
    BY <2>1, <2>3, <2>4
<1>8. ASSUME NEW h \in Deliveries, U!CreateCustomer(h) PROVE UpdatesInv'
  <2>1. /\ delivery[h].pc = "create" /\ UNCHANGED <<known, processed, heard>>
        /\ customer' \in {"NONE", "HERE", "BLOCKED"}
        /\ \/ U!Goto(h, "known") /\ UNCHANGED <<answered, excused>>
           \/ U!Answer(h) /\ U!Excuse(h)
    BY <1>8, <1>t DEF U!CreateCustomer
  <2>2. CASE U!Answer(h) /\ U!Excuse(h)
    BY <1>t, <2>1, <2>2, UpdatesEnd DEF U!Answer, U!Excuse
  <2>3. CASE U!Goto(h, "known") /\ UNCHANGED <<answered, excused>>
    BY <1>t, <2>1, <2>3, UpdatesGoOn DEF Working
  <2> QED
    BY <2>1, <2>2, <2>3
<1>9. ASSUME NEW h \in Deliveries, U!React(h) PROVE UpdatesInv'
  <2>1. /\ delivery[h].pc = "known" /\ UNCHANGED <<known, processed, excused>>
        /\ customer' \in {"NONE", "HERE", "BLOCKED"} /\ U!Answer(h) /\ U!Hear(h)
    BY <1>9, <1>t DEF U!React
  <2>2. Working(h, delivery[h].update) /\ delivery[h].update \in processed
    BY <2>1, NoDelivery DEF Working, WorkedByOne, U!TypeOK
  <2> QED
    BY <1>t, <2>1, <2>2, UpdatesEnd DEF U!Answer
<1>10. ASSUME NEW h \in Deliveries, U!Fail(h) PROVE UpdatesInv'
  <2>1. /\ delivery[h] # U!Idle /\ UNCHANGED <<known, processed, answered, customer, heard>>
        /\ delivery' = [delivery EXCEPT ![h] = U!Idle]
        /\ IF delivery[h].pc \in {"resolve", "record"} THEN excused' = excused ELSE U!Excuse(h)
    BY <1>10 DEF U!Fail
  <2>2. delivery[h].pc \in {"resolve", "record"} => ~Working(h, delivery[h].update)
    BY DEF Working
  <2>3. CASE delivery[h].pc # "idle"
    BY <1>t, <2>1, <2>2, <2>3, UpdatesEnd
  <2> QED
    BY <2>1, <2>3 DEF U!TypeOK, Placed
<1> QED
  BY <1>1, <1>2, <1>3, <1>4, <1>5, <1>6, <1>7, <1>8, <1>9, <1>10 DEF U!Next

-----------------------------------------------------------------------------
(* The three in one behaviour. *)

TelegramInv == RemindersInv /\ BotsInv /\ UpdatesInv

\* An update is unheard of at first.
LEMMA UpdatesInit == U!Init => UpdatesInv
<1> SUFFICES ASSUME U!Init PROVE UpdatesInv
  OBVIOUS
<1> USE DEF U!Init
<1>1. U!TypeOK
  BY NoDelivery DEF U!TypeOK
<1>2. \A h \in Deliveries : \A u : ~Working(h, u)
  BY NoDelivery DEF Working
<1> QED
  BY <1>1, <1>2 DEF UpdatesInv, WorkedByOne, Accounted

\* A step of another conversation leaves the reminders as they were.
LEMMA RemindersRest == RemindersInv /\ UNCHANGED rVars => RemindersInv'
<1> SUFFICES ASSUME RemindersInv, UNCHANGED rVars PROVE RemindersInv'
  OBVIOUS
<1> QED
  BY RemindersFrame DEF rVars, RemindersInv, R!TypeOK

\* A step of another conversation leaves the bots as they were.
LEMMA BotsRest == BotsInv /\ UNCHANGED bVars => BotsInv'
BY DEF bVars, BotsInv, B!TypeOK, OneAtATime, InStep, LoadsFit, Announced, B!Busy

\* A step of another conversation leaves the updates as they were.
LEMMA UpdatesRest == UpdatesInv /\ UNCHANGED uVars => UpdatesInv'
BY DEF uVars, UpdatesInv, U!TypeOK, WorkedByOne, Accounted, Working

\* The inductive invariant of the three conversations with Telegram.
THEOREM TelegramInvariant == Spec => []TelegramInv
<1>1. Init => TelegramInv
  BY RemindersInit, BotsInit, UpdatesInit DEF Init, TelegramInv
<1>2. TelegramInv /\ [Next]_<<part, rVars, bVars, uVars>> => TelegramInv'
  <2> SUFFICES ASSUME TelegramInv, [Next]_<<part, rVars, bVars, uVars>> PROVE TelegramInv'
    OBVIOUS
  <2> USE DEF TelegramInv
  <2>1. CASE R!Next /\ UNCHANGED <<bVars, uVars>>
    BY <2>1, RemindersStep, BotsRest, UpdatesRest
  <2>2. CASE B!Next /\ UNCHANGED <<rVars, uVars>>
    <3>1. BotsInv'
      BY <2>2, BotsTypeStep, OneAtATimeStep, LoadsStep DEF BotsInv
    <3> QED
      BY <2>2, <3>1, RemindersRest, UpdatesRest
  <2>3. CASE U!Next /\ UNCHANGED <<rVars, bVars>>
    BY <2>3, UpdatesStep, RemindersRest, BotsRest
  <2>4. CASE UNCHANGED <<rVars, bVars, uVars>>
    BY <2>4, RemindersRest, BotsRest, UpdatesRest
  <2> QED
    BY <2>1, <2>2, <2>3, <2>4 DEF Next
<1> QED
  BY <1>1, <1>2, PTL DEF Spec

\* However often a job runs and however many workers have it, a reminder reaches
\* the customer once at most.
THEOREM RemindersComeOnce == Spec => []RemindedOnce
<1>1. TelegramInv => RemindedOnce
  BY DEF TelegramInv, RemindersInv, SentByOne, RemindedOnce, R!RemindedOnce
<1> QED
  BY <1>1, TelegramInvariant, PTL

\* A reminder of a closed appointment goes out only when it was closed between the
\* look of the worker and the message.
THEOREM ClosedAreNotRemindedOf == Spec => NoReminderOfClosed
<1> DEFINE Open == \A r \in R!Reminders : told'[r] > told[r] =>
                     \/ booking[r[1]] \notin R!Closed
                     \/ \E w \in Workers : worker[w].pc = "send" /\ worker[w].reminder = r /\ worker[w].closed
<1>1. TelegramInv /\ [Next]_<<part, rVars, bVars, uVars>> => [Open]_R!vars
  <2> SUFFICES ASSUME TelegramInv, [Next]_<<part, rVars, bVars, uVars>> PROVE [Open]_R!vars
    OBVIOUS
  <2>1. R!Next \/ UNCHANGED rVars
    BY DEF Next
  <2>2. CASE R!Next
    BY <2>2, RemindersOpen DEF TelegramInv
  <2>3. CASE UNCHANGED rVars
    BY <2>3 DEF rVars, R!vars
  <2> QED
    BY <2>1, <2>2, <2>3
<1> QED
  BY <1>1, TelegramInvariant, PTL DEF Spec, NoReminderOfClosed, R!NoReminderOfClosed

\* A bot shown as connected hears its customers, unless changes overlapped or one
\* ended half done.
THEOREM ConnectedBotsHear == Spec => []ConnectedHears
<1>1. TelegramInv => ConnectedHears
  BY DEF TelegramInv, BotsInv, OneAtATime, ConnectedHears, B!ConnectedHears
<1> QED
  BY <1>1, TelegramInvariant, PTL

\* A process speaks as the bot of the row, but while the change is being made, or
\* when another process made it, or its own load was overtaken.
THEOREM ProcessesSpeakAsBot == Spec => []SpeaksAsBot
<1>1. TelegramInv => SpeaksAsBot
  BY DEF TelegramInv, BotsInv, LoadsFit, Announced, SpeaksAsBot, B!SpeaksAsBot
<1> QED
  BY <1>1, TelegramInvariant, PTL

\* However often Telegram repeats an update, it is heard once at most; and one that
\* was answered was heard, unless something failed on the way.
THEOREM UpdatesAreHeardOnce == Spec => []HeardOnce
<1>1. TelegramInv => HeardOnce
  <2> SUFFICES ASSUME TelegramInv, NEW u \in UpdateIds
               PROVE  /\ heard[u] <= 1
                      /\ u \in answered \ (U!InFlight \cup excused) => heard[u] = 1
    BY DEF HeardOnce, U!HeardOnce
  <2>1. heard[u] <= 1
    BY DEF TelegramInv, UpdatesInv, WorkedByOne
  <2>2. \A h \in Deliveries : Working(h, u) => u \in U!InFlight
    BY DEF Working, U!InFlight
  <2> QED
    BY <2>1, <2>2 DEF TelegramInv, UpdatesInv, Accounted
<1> QED
  BY <1>1, TelegramInvariant, PTL
=============================================================================
