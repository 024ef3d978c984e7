-------------------------- MODULE MCInboxDelivery ---------------------------
(* TLC instances of InboxDelivery: two messages for one session. *)
EXTENDS InboxDelivery, TLC

MessageSymmetry == Permutations(Messages)
=============================================================================
