------------------------------ MODULE MCOutbox ------------------------------
(* Instances of Outbox for TLC: two drainers, two events, the first of them  *)
(* wanted by two consumers.                                                  *)
EXTENDS Outbox, TLC

MCInterested == (1 :> {1, 2}) @@ (2 :> {2})

\* The first consumer always succeeds; the second can exhaust the attempts.
MCMaxFailures == (1 :> 0) @@ (2 :> 2)
=============================================================================
