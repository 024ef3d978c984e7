------------------------------ MODULE MCInbox -------------------------------
(***************************************************************************)
(* TLC instances of Inbox: a console op of the owner, a message between    *)
(* two sessions and a message of a session to the owner.                   *)
(***************************************************************************)
EXTENDS Inbox

(* c1: the owner runs an op at s1, m1: s1 to s2, m2: s2 to the owner. *)
MixedOps   == {"c1", "m1", "m2"}
MixedKinds == [c1 |-> "console_op", m1 |-> "message", m2 |-> "message"]
MixedFrom  == [c1 |-> "owner", m1 |-> "s1", m2 |-> "s2"]
MixedTo    == [c1 |-> "s1", m1 |-> "s2", m2 |-> "owner"]
=============================================================================
