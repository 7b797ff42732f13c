-------------------------------- MODULE Login --------------------------------
(***************************************************************************)
(* Throttling of logins (apps/api/src/modules/auth/auth.service.ts): a     *)
(* counter in Redis per email and address, which lives for a quarter of an *)
(* hour, and one on the user's row, which locks the account. Both are read *)
(* at the start of an attempt and written after the slow check of the      *)
(* password. Redis commands and SQL statements are atomic, and nothing     *)
(* more than one of them is.                                               *)
(***************************************************************************)
EXTENDS Integers, FiniteSets

CONSTANTS
  Handlers,          \* login requests in flight at a time
  Keys,              \* pairs of an email and an address
  Accounts,          \* users
  NoAccount,         \* no user has the email
  AccountOf,         \* Keys -> the user with that email, or NoAccount
  MaxLoginAttempts,  \* 5
  MaxWrong           \* bound: Keys -> wrong passwords tried

\* What is assumed of the constants, wherever they are given values.
LoginAssumption ==
  /\ IsFiniteSet(Handlers)
  /\ NoAccount \notin Accounts
  /\ AccountOf \in [Keys -> Accounts \cup {NoAccount}]
  /\ MaxLoginAttempts \in Nat \ {0} /\ MaxWrong \in [Keys -> Nat]

VARIABLES
  attempts,  \* Redis: Keys -> counter, 0 when the key is absent
  expiring,  \* Redis: keys with a time to live
  failed,    \* User.failedLoginAttempts
  locked,    \* accounts with lockedUntil in the future
  attempt,   \* Handlers -> the login in progress
  orphaned,  \* ghost: keys whose counter was begun by a login that then died
  guesses,   \* ghost: wrong passwords per key since its counter last went
  missed,    \* ghost: those of them whose login died before it counted them
  wrong,     \* ghost: wrong passwords per account since its last login
  unwritten, \* ghost: those of them whose login died before the row was written
  overtaken, \* ghost: accounts with a counter written over one that was not read
  crossed,   \* ghost: accounts that logged in during another attempt on them
  tried      \* bound: wrong passwords tried per key

perKey == <<guesses, missed>>
perAccount == <<wrong, unwritten, overtaken, crossed>>

vars == <<attempts, expiring, failed, locked, attempt, orphaned, perKey, perAccount, tried>>

-----------------------------------------------------------------------------
Idle == [pc |-> "idle", key |-> "none", seen |-> 0]

Throttled(k) == attempts[k] >= MaxLoginAttempts

Account(h) == AccountOf[attempt[h].key]

\* Attempts on an account that have read its row.
Under(a) ==
  { h \in Handlers : attempt[h].pc \in {"verify", "count", "expire", "fail", "clear", "reset"}
                     /\ Account(h) = a }

\* Wrong passwords that are still to be counted for a key, and on an account's row.
ToCount(k) == { h \in Handlers : attempt[h].pc = "count" /\ attempt[h].key = k }

ToRegister(a) ==
  { h \in Handlers : attempt[h].pc \in {"count", "expire", "fail"} /\ Account(h) = a }

Goto(h, pc) == attempt' = [attempt EXCEPT ![h].pc = pc]

Finish(h) == attempt' = [attempt EXCEPT ![h] = Idle]

Init ==
  /\ attempts = [k \in Keys |-> 0]
  /\ expiring = {}
  /\ failed = [a \in Accounts |-> 0]
  /\ locked = {}
  /\ attempt = [h \in Handlers |-> Idle]
  /\ orphaned = {}
  /\ guesses = [k \in Keys |-> 0] /\ missed = [k \in Keys |-> 0]
  /\ wrong = [a \in Accounts |-> 0] /\ unwritten = [a \in Accounts |-> 0]
  /\ overtaken = {} /\ crossed = {}
  /\ tried = [k \in Keys |-> 0]

-----------------------------------------------------------------------------
\* assertNotThrottled; a refusal changes nothing.
Begin(h, k) ==
  /\ attempt[h] = Idle
  /\ tried[k] < MaxWrong[k]
  /\ ~Throttled(k)
  /\ attempt' = [attempt EXCEPT ![h] = [pc |-> "lookup", key |-> k, seen |-> 0]]
  /\ UNCHANGED <<attempts, expiring, failed, locked, orphaned, perKey, perAccount, tried>>

\* The user's row with its counter. An unknown email counts as a failure, after
\* a hash that takes as long; a locked account is refused.
Lookup(h) ==
  LET a == Account(h) IN
  /\ attempt[h].pc = "lookup"
  /\ IF a = NoAccount
     THEN /\ Goto(h, "count")
          /\ tried' = [tried EXCEPT ![attempt[h].key] = @ + 1]
          /\ guesses' = [guesses EXCEPT ![attempt[h].key] = @ + 1]
     ELSE /\ attempt' = [attempt EXCEPT ![h] = IF a \in locked THEN Idle
                           ELSE [@ EXCEPT !.pc = "verify", !.seen = failed[a]]]
          /\ UNCHANGED <<tried, guesses>>
  /\ UNCHANGED <<attempts, expiring, failed, locked, orphaned, missed, perAccount>>

VerifyRight(h) ==
  /\ attempt[h].pc = "verify"
  /\ Goto(h, "clear")
  /\ UNCHANGED <<attempts, expiring, failed, locked, orphaned, perKey, perAccount, tried>>

VerifyWrong(h) ==
  /\ attempt[h].pc = "verify"
  /\ tried[attempt[h].key] < MaxWrong[attempt[h].key]
  /\ Goto(h, "count")
  /\ tried' = [tried EXCEPT ![attempt[h].key] = @ + 1]
  /\ guesses' = [guesses EXCEPT ![attempt[h].key] = @ + 1]
  /\ wrong' = [wrong EXCEPT ![Account(h)] = @ + 1]
  /\ UNCHANGED <<attempts, expiring, failed, locked, orphaned, missed, unwritten, overtaken, crossed>>

-----------------------------------------------------------------------------
(* A wrong password. *)

\* What follows recordFailedAttempt.
AfterRecord(h) == IF Account(h) = NoAccount THEN Finish(h) ELSE Goto(h, "fail")

\* A mistake the checks must catch: EXPIRE comes before INCR, and finds no key.
CountLast(h) ==
  LET k == attempt[h].key IN
  /\ attempt[h].pc = "count"
  /\ attempts' = [attempts EXCEPT ![k] = @ + 1]
  /\ AfterRecord(h)
  /\ UNCHANGED <<expiring, failed, locked, orphaned, perKey, perAccount, tried>>

\* A mistake the checks must catch: a failed attempt is not counted.
CountNothing(h) ==
  /\ attempt[h].pc = "count"
  /\ AfterRecord(h)
  /\ UNCHANGED <<attempts, expiring, failed, locked, orphaned, perKey, perAccount, tried>>

\* recordFailedAttempt: INCR, which keeps the time to live of a key that has one.
Count(h) ==
  LET k == attempt[h].key IN
  /\ attempt[h].pc = "count"
  /\ attempts' = [attempts EXCEPT ![k] = @ + 1]
  /\ IF attempts[k] = 0 THEN Goto(h, "expire") ELSE AfterRecord(h)
  /\ UNCHANGED <<expiring, failed, locked, orphaned, perKey, perAccount, tried>>

\* EXPIRE, by whoever counted first. It does nothing to a key that is gone.
Expire(h) ==
  LET k == attempt[h].key IN
  /\ attempt[h].pc = "expire"
  /\ expiring' = IF attempts[k] > 0 THEN expiring \cup {k} ELSE expiring
  /\ orphaned' = IF attempts[k] > 0 THEN orphaned \ {k} ELSE orphaned
  /\ AfterRecord(h)
  /\ UNCHANGED <<attempts, failed, locked, perKey, perAccount, tried>>

\* registerFailureOnUser: one more than was read before the password was checked.
RegisterFailure(h) ==
  LET a == Account(h)  next == attempt[h].seen + 1 IN
  /\ attempt[h].pc = "fail"
  /\ failed' = [failed EXCEPT ![a] = next]
  /\ locked' = IF next >= MaxLoginAttempts * 2 THEN locked \cup {a} ELSE locked
  /\ overtaken' = IF failed[a] # attempt[h].seen THEN overtaken \cup {a} ELSE overtaken
  /\ Finish(h)
  /\ UNCHANGED <<attempts, expiring, orphaned, perKey, wrong, unwritten, crossed, tried>>

-----------------------------------------------------------------------------
(* The right password. *)

\* The counter of a key goes: what is still to be counted begins the next one.
CounterGoes(k) ==
  /\ attempts' = [attempts EXCEPT ![k] = 0]
  /\ expiring' = expiring \ {k}
  /\ guesses' = [guesses EXCEPT ![k] = Cardinality(ToCount(k))]
  /\ missed' = [missed EXCEPT ![k] = 0]

\* clearAttempts: DEL.
Clear(h) ==
  LET k == attempt[h].key IN
  /\ attempt[h].pc = "clear"
  /\ CounterGoes(k)
  /\ orphaned' = orphaned \ {k}
  /\ Goto(h, "reset")
  /\ UNCHANGED <<failed, locked, perAccount, tried>>

\* The row is reset; the tokens that follow are another component's.
Reset(h) ==
  LET a == Account(h) IN
  /\ attempt[h].pc = "reset"
  /\ failed' = [failed EXCEPT ![a] = 0]
  /\ locked' = locked \ {a}
  /\ wrong' = [wrong EXCEPT ![a] = 0] /\ unwritten' = [unwritten EXCEPT ![a] = 0]
  /\ overtaken' = overtaken \ {a}
  /\ crossed' = IF Under(a) = {h} THEN crossed \ {a} ELSE crossed \cup {a}
  /\ Finish(h)
  /\ UNCHANGED <<attempts, expiring, orphaned, perKey, tried>>

-----------------------------------------------------------------------------
\* Redis drops a key whose time is over.
KeyExpires(k) ==
  /\ k \in expiring
  /\ CounterGoes(k)
  /\ UNCHANGED <<failed, locked, attempt, orphaned, perAccount, tried>>

\* lockedUntil passes; the counter stays where it is.
LockEnds(a) ==
  /\ a \in locked
  /\ locked' = locked \ {a}
  /\ UNCHANGED <<attempts, expiring, failed, attempt, orphaned, perKey, perAccount, tried>>

\* The process dies, or Redis or the database does not answer.
Die(h) ==
  LET k == attempt[h].key  a == Account(h) IN
  /\ attempt[h] # Idle
  /\ Finish(h)
  /\ orphaned' = IF attempt[h].pc = "expire" /\ attempts[k] > 0 /\ k \notin expiring
                 THEN orphaned \cup {k} ELSE orphaned
  /\ missed' = IF attempt[h].pc = "count" THEN [missed EXCEPT ![k] = @ + 1] ELSE missed
  /\ unwritten' = IF attempt[h].pc \in {"count", "expire", "fail"} /\ a # NoAccount
                  THEN [unwritten EXCEPT ![a] = @ + 1] ELSE unwritten
  /\ UNCHANGED <<attempts, expiring, failed, locked, guesses, wrong, overtaken, crossed, tried>>

Step(h) ==
  \/ Lookup(h) \/ VerifyRight(h) \/ VerifyWrong(h) \/ Count(h) \/ Expire(h)
  \/ RegisterFailure(h) \/ Clear(h) \/ Reset(h)

Next ==
  \/ \E h \in Handlers : (\E k \in Keys : Begin(h, k)) \/ Step(h) \/ Die(h)
  \/ \E k \in Keys : KeyExpires(k)
  \/ \E a \in Accounts : LockEnds(a)

\* A process works on, and Redis drops what is over. Nobody has to try again.
Fairness ==
  /\ \A h \in Handlers : WF_vars(Step(h))
  /\ \A k \in Keys : WF_vars(KeyExpires(k))

Spec == Init /\ [][Next]_vars /\ Fairness

-----------------------------------------------------------------------------
TypeOK ==
  /\ attempts \in [Keys -> Nat] /\ tried \in [Keys -> Nat]
  /\ expiring \subseteq { k \in Keys : attempts[k] > 0 }
  /\ orphaned \subseteq { k \in Keys : attempts[k] > 0 } \ expiring
  /\ guesses \in [Keys -> Nat] /\ missed \in [Keys -> Nat]
  /\ failed \in [Accounts -> Nat] /\ wrong \in [Accounts -> Nat] /\ unwritten \in [Accounts -> Nat]
  /\ locked \subseteq Accounts /\ crossed \subseteq Accounts /\ overtaken \subseteq Accounts
  /\ \A h \in Handlers :
       \/ attempt[h] = Idle
       \/ attempt[h] \in [pc : {"lookup", "verify", "count", "expire", "fail", "clear", "reset"},
                          key : Keys, seen : Nat]

\* A window is the life of a key's counter, until it expires or a login clears it. The
\* wrong passwords in it are those that were counted, those that are about to be, and
\* those whose login died before INCR; and but for the last there are fewer of them
\* than the limit and the logins that can pass the check together.
GuessesAreBounded ==
  \A k \in Keys :
    /\ guesses[k] = attempts[k] + Cardinality(ToCount(k)) + missed[k]
    /\ guesses[k] < MaxLoginAttempts + Cardinality(Handlers) + missed[k]

\* A login wipes the slate: an account is locked only after twice the limit of wrong
\* passwords since its last login, and its counter has missed none of them but those
\* about to be written, those whose login died first, and those of a counter that was
\* written over by an attempt that had read an earlier one. Nothing of it holds while
\* an attempt that read the row before the login may write it after.
LockIsEarned ==
  \A a \in Accounts \ crossed :
    /\ failed[a] <= wrong[a]
    /\ a \in locked => wrong[a] >= MaxLoginAttempts * 2
    /\ a \notin overtaken => wrong[a] = failed[a] + Cardinality(ToRegister(a)) + unwritten[a]

\* The two counters of wrong passwords, in Redis and on the user's row, count each of
\* them once and none besides, so far as the logins that enter them live on and the row
\* is not written from a count that is out of date.
AttemptsAreCounted == GuessesAreBounded /\ LockIsEarned

\* A throttled address may try again in the end, unless the login that began its
\* counter died between INCR and EXPIRE: such a key never expires.
ThrottleEnds ==
  \A k \in Keys : Throttled(k) ~> (~Throttled(k) \/ k \in orphaned)
=============================================================================
