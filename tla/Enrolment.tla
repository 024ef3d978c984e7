------------------------------ MODULE Enrolment ------------------------------
(* What an owner's Domain has signed at the Router (enrollmentCoordinator.ts,*)
(* admission.ts): the devices it admits and the Domains it is linked to.     *)
(* Signed statements are sent by the phone, again when it does not hear, and *)
(* come in any order. One device, one linked Domain; a statement is named by *)
(* the time it was signed at. Signatures, and rooting a Domain, are left out.*)
EXTENDS Integers, FiniteSets, FiniteSetsExt

CONSTANTS
    SignedAt        \* times statements are signed at

ASSUME SignedAssumption == SignedAt \in Nat

VARIABLES
    admissions, revocations,        \* of the device, as stored
    linkEdges, linkRevocations,     \* of the link, as stored
    said            \* what the phone has said since the link was last dropped (observer)

enrolVars == <<admissions, revocations, linkEdges, linkRevocations, said>>

Times == 1..SignedAt

EnrolInit ==
    /\ admissions = {} /\ revocations = {} /\ linkEdges = {} /\ linkRevocations = {}
    /\ said = [admit |-> {}, revoke |-> {}, link |-> {}, unlink |-> {}]

Says(what, t) == said' = [said EXCEPT ![what] = @ \cup {t}]

-----------------------------------------------------------------------------
(* The coordinator *)

admit(t) ==
    /\ admissions' = admissions \cup {t} /\ Says("admit", t)
    /\ UNCHANGED <<revocations, linkEdges, linkRevocations>>

revoke(t) ==
    /\ revocations' = revocations \cup {t} /\ Says("revoke", t)
    /\ UNCHANGED <<admissions, linkEdges, linkRevocations>>

\* An edge that was revoked before it came is not taken.
addLinkEdge(t) ==
    /\ linkEdges' = IF \E r \in linkRevocations : r >= t THEN linkEdges ELSE linkEdges \cup {t}
    /\ Says("link", t)
    /\ UNCHANGED <<admissions, revocations, linkRevocations>>

\* Mutant: a revocation with nothing to remove is not kept.
removeLinkEdgeSeen(t) ==
    /\ linkEdges' = {e \in linkEdges : e > t}
    /\ linkRevocations' = IF linkEdges = {} THEN linkRevocations ELSE linkRevocations \cup {t}
    /\ Says("unlink", t)
    /\ UNCHANGED <<admissions, revocations>>

removeLinkEdge(t) ==
    /\ linkEdges' = {e \in linkEdges : e > t}
    /\ linkRevocations' = linkRevocations \cup {t}
    /\ Says("unlink", t)
    /\ UNCHANGED <<admissions, revocations>>

\* The owner's own unlink: nothing signed, nothing kept of it.
dropLinkEdge ==
    /\ linkEdges # {}
    /\ linkEdges' = {} /\ said' = [said EXCEPT !.link = {}]
    /\ UNCHANGED <<admissions, revocations, linkRevocations>>

EnrolNext ==
    \/ dropLinkEdge
    \/ \E t \in Times : admit(t) \/ revoke(t) \/ addLinkEdge(t) \/ removeLinkEdge(t)

EnrolSpec == EnrolInit /\ [][EnrolNext]_enrolVars

-----------------------------------------------------------------------------
(* What is asked of it *)

Newest(times) == IF times = {} THEN 0 ELSE Max(times)

\* Equal times revoke.
resolveAdmitted == admissions # {} /\ \A r \in revocations : r < Newest(admissions)

hasLinkEdge == linkEdges # {} /\ \A r \in linkRevocations : r < Newest(linkEdges)
linkEdgeId == IF hasLinkEdge THEN Newest(linkEdges) ELSE 0

-----------------------------------------------------------------------------
(* Properties *)

\* Whether the device is admitted and the Domain linked follows from what the
\* owner signed last, in whatever order and however often it came; a tie is a
\* revocation (resolveAdmitted, addLinkEdge, removeLinkEdge).
LastSignedHolds ==
    /\ resolveAdmitted <=> Newest(said.admit) > Newest(said.revoke)
    /\ linkEdgeId = IF Newest(said.link) > Newest(said.unlink) THEN Newest(said.link) ELSE 0
=============================================================================
