----------------------------- MODULE AtMostOnce -----------------------------
(* What a server promises its clients about a message that an unreliable      *)
(* network may lose, repeat, delay or reorder: it acts on messages that were  *)
(* submitted, and on each of them at most once, ever.  A message may never be *)
(* acted on: nothing in this code retransmits.                                *)
EXTENDS Naturals

CONSTANT Message

VARIABLES
  sent,      \* the messages submitted so far
  executed   \* how often the server has acted on each message

vars == <<sent, executed>>

Init ==
  /\ sent = {}
  /\ executed = [m \in Message |-> 0]

Submit(m) ==
  /\ m \notin sent
  /\ sent' = sent \cup {m}
  /\ UNCHANGED executed

Execute(m) ==
  /\ m \in sent
  /\ executed[m] = 0
  /\ executed' = [executed EXCEPT ![m] = 1]
  /\ UNCHANGED sent

Next == \E m \in Message : Submit(m) \/ Execute(m)

Spec == Init /\ [][Next]_vars
=============================================================================
