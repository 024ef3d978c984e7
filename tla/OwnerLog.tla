------------------------------ MODULE OwnerLog ------------------------------
(***************************************************************************)
(* What an owner store promises its callers, with no file in sight: a log  *)
(* that grows by one entry per write, of which a failure may take back a   *)
(* suffix, but never an entry that was acknowledged; or, once something it *)
(* needs is damaged, no answer at all.                                     *)
(***************************************************************************)
EXTENDS Integers, FiniteSets

CONSTANT Ids   \* identities of the writes

VARIABLES log, acked, mode

Entry == [seq : Nat, id : Ids]

Init ==
    /\ log = {}
    /\ acked = {}
    /\ mode = "up"

NextSeq == Cardinality(log) + 1

(* A write is applied; the answer is ok or uncertain. *)
Write ==
    /\ mode = "up"
    /\ \E i \in Ids :
         LET e == [seq |-> NextSeq, id |-> i]
         IN  /\ \A f \in log : f.id # i
             /\ log' = log \cup {e}
             /\ acked' \in {acked, acked \cup {e}}
    /\ UNCHANGED mode

(* The prefixes of a set of entries. *)
Prefixes(entries) == {{e \in entries : e.seq <= n} : n \in 0 .. Cardinality(entries)}

(* The store goes down: an unacknowledged suffix may be lost, a write that *)
(* was not answered may have landed.                                       *)
Fail ==
    /\ mode \in {"up", "down"}
    /\ mode' = "down"
    /\ \/ log' \in Prefixes(log)
       \/ /\ mode = "up"
          /\ \E i \in Ids : log' = log \cup {[seq |-> NextSeq, id |-> i]}
    /\ acked \subseteq log'
    /\ UNCHANGED acked

Restart ==
    /\ mode = "down"
    /\ mode' = "up"
    /\ UNCHANGED <<log, acked>>

(* Damage: nothing is served any more. *)
Quarantine ==
    /\ mode' = "lost"
    /\ log' = {}
    /\ UNCHANGED acked

Next == Write \/ Fail \/ Restart \/ Quarantine

Spec == Init /\ [][Next]_<<log, acked, mode>>
=============================================================================
