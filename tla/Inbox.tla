-------------------------------- MODULE Inbox --------------------------------
(***************************************************************************)
(* What a deduplicated receiver promises to a sender that delivers every   *)
(* message at least once: a message is done once and for all, and whatever *)
(* effect it has comes in the same step as the mark that it is done.       *)
(***************************************************************************)
EXTENDS Naturals

CONSTANT Key

VARIABLES
  done,      \* the keys marked as handled
  effects    \* how often each message has taken effect

Init ==
  /\ done = {}
  /\ effects = [k \in Key |-> 0]

\* A message may be done without an effect: it was void, or came too late.
Handle(k) ==
  /\ k \notin done
  /\ done' = done \cup {k}
  /\ \/ UNCHANGED effects
     \/ effects' = [effects EXCEPT ![k] = @ + 1]

Next == \E k \in Key : Handle(k)

Spec == Init /\ [][Next]_<<done, effects>>

\* No message takes effect twice, and none before it is done.
AtMostOnce == \A k \in Key : effects[k] = 0 \/ (effects[k] = 1 /\ k \in done)
=============================================================================
