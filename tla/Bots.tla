-------------------------------- MODULE Bots --------------------------------
(***************************************************************************)
(* The Telegram bot of a business                                          *)
(* (apps/api/src/modules/telegram/telegram-bot.service.ts): one row, the   *)
(* webhook that Telegram keeps for each bot, and the client that each      *)
(* process keeps for the business. Connecting and disconnecting touch the  *)
(* three one after the other. The webhook mode; the other modes have no    *)
(* receiver.                                                               *)
(***************************************************************************)
EXTENDS Integers

CONSTANTS
  Tokens,       \* of the bots its owner has, numbered as they are first used
  Processes,    \* that send messages
  Api,          \* the one of them that connects and disconnects
  Handlers,     \* requests to connect and disconnect in flight at a time
  MaxConnects   \* bound: secrets

\* What is assumed of the constants, wherever they are given values.
BotsAssumption ==
  /\ Api \in Processes
  /\ Tokens \subseteq Nat \ {0}
  /\ MaxConnects \in Nat
  /\ Handlers \subseteq Nat

VARIABLES
  bot,       \* the TelegramBot row, or NoBot
  hook,      \* Telegram: Tokens -> the secret its webhook was set with, 0 for none
  client,    \* clients: Processes -> the token it sends with, or None
  request,   \* Handlers -> the request in progress
  sender,    \* Processes -> clientFor in progress
  secrets,   \* how many secrets were made
  upset,     \* ghost: two requests overlapped, or one ended half done
  foreign    \* ghost: processes whose client is older than a change made elsewhere

vars == <<bot, hook, client, request, sender, secrets, upset, foreign>>

-----------------------------------------------------------------------------
None == 0

NoBot == [id |-> 0, token |-> None, secret |-> 0, status |-> "NONE"]

Idle == [pc |-> "idle", id |-> 0, token |-> None, secret |-> 0]

IdleSender == [pc |-> "idle", token |-> None, late |-> FALSE]

Busy == { h \in Handlers : request[h].pc # "idle" }

Init ==
  /\ bot = NoBot
  /\ hook = [t \in Tokens |-> 0]
  /\ client = [p \in Processes |-> None]
  /\ request = [h \in Handlers |-> Idle]
  /\ sender = [p \in Processes |-> IdleSender]
  /\ secrets = 0
  /\ upset = FALSE
  /\ foreign = {}

Goto(h, pc) == request' = [request EXCEPT ![h].pc = pc]

\* Requests take the places in order: which of two like ones has which says nothing.
NextPlace(h) == request[h] = Idle /\ \A g \in Handlers : g < h => request[g] # Idle

Finish(h) == request' = [request EXCEPT ![h] = Idle]

\* The row changes under the clients of the other processes.
Elsewhere ==
  foreign' = foreign \cup { p \in Processes \ {Api} : client[p] # None \/ sender[p].pc # "idle" }

-----------------------------------------------------------------------------
(* connect *)

\* getMe answers, and the bot is nobody else's. A token that is none changes nothing.
Connect(h, t) ==
  /\ NextPlace(h)
  /\ secrets < MaxConnects
  /\ t <= secrets + 1
  /\ secrets' = secrets + 1
  /\ upset' = (upset \/ Busy # {})
  /\ request' = [request EXCEPT ![h] = [Idle EXCEPT !.pc = "upsert", !.token = t,
                                                    !.secret = secrets + 1]]
  /\ UNCHANGED <<bot, hook, client, sender, foreign>>

\* A mistake the checks must catch: an update keeps the old secret.
UpsertKeeping(h) ==
  /\ request[h].pc = "upsert"
  /\ bot' = [id |-> IF bot = NoBot THEN request[h].secret ELSE bot.id,
             token |-> request[h].token,
             secret |-> IF bot = NoBot THEN request[h].secret ELSE bot.secret,
             status |-> "PENDING"]
  /\ Elsewhere
  /\ Goto(h, "forget")
  /\ UNCHANGED <<hook, client, sender, secrets, upset>>

Upsert(h) ==
  /\ request[h].pc = "upsert"
  /\ bot' = [id |-> IF bot = NoBot THEN request[h].secret ELSE bot.id,
             token |-> request[h].token, secret |-> request[h].secret, status |-> "PENDING"]
  /\ Elsewhere
  /\ Goto(h, "forget")
  /\ UNCHANGED <<hook, client, sender, secrets, upset>>

\* A mistake the checks must catch: the client stays.
ForgetNot(h) ==
  /\ request[h].pc \in {"forget", "gone"}
  /\ IF request[h].pc = "forget" THEN Goto(h, "hook") ELSE Finish(h)
  /\ UNCHANGED <<bot, hook, client, sender, secrets, upset, foreign>>

\* clients.delete of the process that handles the request. A load under way is late.
Forget(h) ==
  /\ request[h].pc \in {"forget", "gone"}
  /\ client' = [client EXCEPT ![Api] = None]
  /\ foreign' = foreign \ {Api}
  /\ sender' = [sender EXCEPT ![Api].late = (sender[Api].pc = "store")]
  /\ IF request[h].pc = "forget" THEN Goto(h, "hook") ELSE Finish(h)
  /\ UNCHANGED <<bot, hook, secrets, upset>>

\* setWebhook, with the secrets of this request, whatever the row says by now.
SetWebhook(h, reached) ==
  /\ request[h].pc = "hook"
  /\ hook' = IF reached THEN [hook EXCEPT ![request[h].token] = request[h].secret] ELSE hook
  /\ Goto(h, IF reached THEN "active" ELSE "error")
  /\ UNCHANGED <<bot, client, sender, secrets, upset, foreign>>

\* updateMany by tenant: the row that is there, if any. The commands that follow
\* are decoration.
SetStatus(h) ==
  /\ request[h].pc \in {"active", "error"}
  /\ bot' = IF bot = NoBot THEN bot
            ELSE [bot EXCEPT !.status = IF request[h].pc = "active" THEN "ACTIVE" ELSE "ERROR"]
  /\ Finish(h)
  /\ UNCHANGED <<hook, client, sender, secrets, upset, foreign>>

-----------------------------------------------------------------------------
(* disconnect *)

Disconnect(h) ==
  /\ NextPlace(h)
  /\ bot # NoBot
  /\ upset' = (upset \/ Busy # {})
  /\ request' = [request EXCEPT ![h] = [Idle EXCEPT !.pc = "client", !.id = bot.id]]
  /\ UNCHANGED <<bot, hook, client, sender, secrets, foreign>>

\* clientFor: the client that is cached, or one for the row of this moment. Its own
\* load and store are not told apart from those of a message.
TakeClient(h) ==
  /\ request[h].pc = "client"
  /\ client' = [client EXCEPT ![Api] = IF @ = None THEN bot.token ELSE @]
  /\ request' = [request EXCEPT ![h].pc = "unhook", ![h].token = client'[Api]]
  /\ UNCHANGED <<bot, hook, sender, secrets, upset, foreign>>

\* deleteWebhook. Telegram may be out of reach, which does not stop anything.
DeleteWebhook(h, reached) ==
  /\ request[h].pc = "unhook"
  /\ hook' = IF reached /\ request[h].token # None
             THEN [hook EXCEPT ![request[h].token] = 0] ELSE hook
  /\ Goto(h, "delete")
  /\ UNCHANGED <<bot, client, sender, secrets, upset, foreign>>

\* The row that was found. If it is gone, the request ends with an error.
DeleteRow(h) ==
  /\ request[h].pc = "delete"
  /\ IF bot.id = request[h].id
     THEN bot' = NoBot /\ Elsewhere /\ Goto(h, "gone") /\ UNCHANGED upset
     ELSE Finish(h) /\ upset' = TRUE /\ UNCHANGED <<bot, foreign>>
  /\ UNCHANGED <<hook, client, sender, secrets>>

\* The process of a request dies, or a statement fails.
Die(h) ==
  /\ request[h] # Idle
  /\ Finish(h)
  /\ upset' = TRUE
  /\ foreign' = IF request[h].pc \in {"forget", "gone"} THEN foreign \cup {Api} ELSE foreign
  /\ UNCHANGED <<bot, hook, client, sender, secrets>>

-----------------------------------------------------------------------------
(* clientFor *)

Load(p) ==
  /\ sender[p].pc = "idle"
  /\ client[p] = None
  /\ bot # NoBot
  /\ sender' = [sender EXCEPT ![p] = [pc |-> "store", token |-> bot.token, late |-> FALSE]]
  /\ UNCHANGED <<bot, hook, client, request, secrets, upset, foreign>>

Store(p) ==
  /\ sender[p].pc = "store"
  /\ client' = [client EXCEPT ![p] = sender[p].token]
  /\ foreign' = IF sender[p].late THEN foreign \cup {p} ELSE foreign
  /\ sender' = [sender EXCEPT ![p] = IdleSender]
  /\ UNCHANGED <<bot, hook, request, secrets, upset>>

\* A process is started again.
Restart(p) ==
  /\ p # Api \/ Busy = {}
  /\ client[p] # None \/ sender[p] # IdleSender
  /\ client' = [client EXCEPT ![p] = None]
  /\ sender' = [sender EXCEPT ![p] = IdleSender]
  /\ foreign' = foreign \ {p}
  /\ UNCHANGED <<bot, hook, request, secrets, upset>>

Next ==
  \/ \E h \in Handlers :
       \/ (\E t \in Tokens : Connect(h, t)) \/ Upsert(h) \/ Forget(h) \/ SetStatus(h)
       \/ Disconnect(h) \/ TakeClient(h) \/ DeleteRow(h) \/ Die(h)
       \/ \E reached \in BOOLEAN : SetWebhook(h, reached) \/ DeleteWebhook(h, reached)
  \/ \E p \in Processes : Load(p) \/ Store(p) \/ Restart(p)

Spec == Init /\ [][Next]_vars

-----------------------------------------------------------------------------
\* The row of a bot, a request to connect or disconnect, and a client being made.
Rows == [id : 1 .. MaxConnects, token : Tokens, secret : 1 .. MaxConnects,
         status : {"PENDING", "ACTIVE", "ERROR"}]

Changes == [pc : {"idle", "upsert", "forget", "hook", "active", "error",
                  "client", "unhook", "delete", "gone"},
            id : 0 .. MaxConnects, token : Tokens \cup {None}, secret : 0 .. MaxConnects]

Loads == [pc : {"idle", "store"}, token : Tokens \cup {None}, late : BOOLEAN]

TypeOK ==
  /\ bot \in {NoBot} \cup Rows
  /\ hook \in [Tokens -> 0 .. MaxConnects]
  /\ client \in [Processes -> Tokens \cup {None}]
  /\ request \in [Handlers -> Changes]
  /\ \A h \in Handlers : request[h].pc \in {"upsert", "forget", "hook"} =>
                           request[h].token \in Tokens /\ request[h].secret # 0
  /\ sender \in [Processes -> Loads]
  /\ secrets \in 0 .. MaxConnects
  /\ upset \in BOOLEAN /\ foreign \subseteq Processes

\* A bot that is shown as connected hears its customers: Telegram calls it with the
\* secret of its row, unless changes overlapped or one ended half done.
ConnectedHears ==
  bot.status = "ACTIVE" /\ Busy = {} => hook[bot.token] = bot.secret \/ upset

\* A process speaks as the bot of the row, but while the change is being made, or
\* when another process made it, or its own load was overtaken.
SpeaksAsBot ==
  \A p \in Processes :
    client[p] # None =>
      \/ client[p] = bot.token
      \/ p \in foreign
      \/ p = Api /\ \E h \in Handlers : request[h].pc \in {"forget", "gone"}
=============================================================================
