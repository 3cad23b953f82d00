---------------------------- MODULE AtLeastOnce ----------------------------
(***************************************************************************)
(* What the transactional outbox promises for an event: once settled it    *)
(* stays due until a copy of it has reached the queue, unless the sender   *)
(* gives up; copies can be many but never of an event nobody settled.      *)
(***************************************************************************)
EXTENDS Naturals

CONSTANT Events

VARIABLES
  due,     \* "none", "due", "sent" or "failed", for each event
  copies   \* how many copies of each event have reached the queue

Init ==
  /\ due = [e \in Events |-> "none"]
  /\ copies = [e \in Events |-> 0]

Settle(e) ==
  /\ due[e] = "none"
  /\ due' = [due EXCEPT ![e] = "due"]
  /\ UNCHANGED copies

\* A copy enters the queue, of an event that may long have been sent.
Arrive(e) ==
  /\ due[e] # "none"
  /\ copies' = [copies EXCEPT ![e] = @ + 1]
  /\ UNCHANGED due

Sent(e) ==
  /\ due[e] = "due" /\ copies[e] > 0
  /\ due' = [due EXCEPT ![e] = "sent"]
  /\ UNCHANGED copies

GiveUp(e) ==
  /\ due[e] = "due"
  /\ due' = [due EXCEPT ![e] = "failed"]
  /\ UNCHANGED copies

Next == \E e \in Events : Settle(e) \/ Arrive(e) \/ Sent(e) \/ GiveUp(e)

Spec == Init /\ [][Next]_<<due, copies>>
=============================================================================
