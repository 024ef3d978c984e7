------------------------------- MODULE Shares -------------------------------
(***************************************************************************)
(* Sessions a Domain shares with others (shareService.ts, share-rules.ts)  *)
(* and the gate its peers' rows pass (ownerServices.ts, inboxService.ts).  *)
(* A share names one Domain or every trusted one. A revocation raises the  *)
(* generation of the pair in the batch that retires its rows; a row        *)
(* carries the generation it was admitted under and is delivered only when *)
(* the pair's has not passed it. An unlink marks the edge it cut before    *)
(* the edge itself is dropped.                                             *)
(***************************************************************************)
EXTENDS Naturals, FiniteSets

CONSTANTS
    Targets,        \* sessions of the Domain
    Friends,        \* other Domains
    MaxEdges,       \* bound: link edges a friend is given
    MaxGeneration,  \* bound: revocations of a pair
    UnlinkCut       \* edges whose unlink may stop before the edge is dropped

ASSUME FriendsAssumption == "everyone" \notin Friends

VARIABLES
    shares,     \* [session, to, age] records; to is a friend or "everyone"
    marks,      \* friend -> edge of the unlink mark, or 0
    generation, \* <<session, friend>> -> generation
    edge,       \* friend -> link edge in force, or 0
    edges,      \* friend -> last edge minted
    peerRows,   \* rows waiting: [pair, gen, era]
    attested,   \* sessions with a live cross-Domain job
    era,        \* pair -> times an operation on shares ended its sharing (observer)
    cut         \* friend -> edge of the owner's last unlink not taken back by a share (observer)

shareVars == <<shares, marks, generation, edge, edges, peerRows, attested, era, cut>>

Pairs == Targets \X Friends
Audience == Friends \cup {"everyone"}

\* A specific share names the Domain, a trusted one any linked Domain; a mark of
\* the edge in force hides both.
isSharedTo(ss, ms, ed, s, f) ==
    /\ ed[f] # 0 /\ ms[f] # ed[f]
    /\ \E r \in ss : r.session = s /\ r.to \in {f, "everyone"}

\* Pairs shared before a change of the records and not after it.
Revoked(after, pairs) ==
    {p \in pairs : /\ isSharedTo(shares, marks, edge, p[1], p[2])
                   /\ ~isSharedTo(after, marks, edge, p[1], p[2])}

\* The observers' part of every step that changes what is shared.
Observed ==
    era' = [p \in Pairs |-> IF isSharedTo(shares, marks, edge, p[1], p[2])
                               /\ ~isSharedTo(shares', marks', edge', p[1], p[2])
                            THEN era[p] + 1 ELSE era[p]]

\* putState: records, generations and the rows of the revoked pairs in a batch.
putState(after, bumped) ==
    /\ \A p \in bumped : generation[p] < MaxGeneration
    /\ shares' = after
    /\ generation' = [p \in Pairs |-> IF p \in bumped THEN generation[p] + 1 ELSE generation[p]]
    /\ peerRows' = {r \in peerRows : r.pair \notin bumped}
    /\ Observed

share(s, to) ==
    /\ marks' = IF to \in Friends THEN [marks EXCEPT ![to] = 0] ELSE marks
    /\ cut' = IF to \in Friends THEN [cut EXCEPT ![to] = 0] ELSE cut
    /\ UNCHANGED <<edge, edges, attested>>
    /\ putState({r \in shares : r.session # s \/ r.to # to}
                \cup {[session |-> s, to |-> to, age |-> "seen"]}, {})

unshare(s, to) ==
    LET after == {r \in shares : r.session # s \/ r.to # to}
        friends == IF to \in Friends THEN {to} ELSE Friends
    IN /\ after # shares
       /\ UNCHANGED <<marks, cut, edge, edges, attested>>
       /\ putState(after, Revoked(after, {s} \X friends))

\* Mutant: the unlink leaves no mark.
unlinkUnmarked(f) ==
    /\ edge' \in {edge, [edge EXCEPT ![f] = 0]}
    /\ edge'[f] # 0 => edge[f] \in UnlinkCut \cup {0}
    /\ cut' = [cut EXCEPT ![f] = edge[f]]
    /\ UNCHANGED <<edges, attested, marks>>
    /\ putState({r \in shares : r.to # f},
                {p \in Pairs : p[2] = f /\ isSharedTo(shares, marks, edge, p[1], f)})

\* unlink: what names the friend goes, its pairs are revoked, the edge is marked
\* unless a mark stands already, and then dropped.
unlink(f) ==
    /\ edge' \in {edge, [edge EXCEPT ![f] = 0]}
    /\ edge'[f] # 0 => edge[f] \in UnlinkCut \cup {0}
    /\ marks' = IF edge[f] # 0 /\ marks[f] = 0 THEN [marks EXCEPT ![f] = edge[f]] ELSE marks
    /\ cut' = [cut EXCEPT ![f] = edge[f]]
    /\ UNCHANGED <<edges, attested>>
    /\ putState({r \in shares : r.to # f},
                {p \in Pairs : p[2] = f /\ isSharedTo(shares, marks, edge, p[1], f)})

\* A fresh edge links the friend.
LinkFriend(f) ==
    /\ edge[f] = 0 /\ edges[f] < MaxEdges
    /\ edges' = [edges EXCEPT ![f] = @ + 1]
    /\ edge' = [edge EXCEPT ![f] = edges[f] + 1]
    /\ UNCHANGED <<shares, marks, generation, peerRows, attested, era, cut>>

\* The owner revokes the edge without unlinking: no generation moves.
RevokeEdge(f) ==
    /\ edge[f] # 0
    /\ edge' = [edge EXCEPT ![f] = 0]
    /\ UNCHANGED <<shares, marks, generation, edges, peerRows, attested, era, cut>>

-----------------------------------------------------------------------------
(* Peer rows *)

Touched(s) == {IF r.session = s THEN [r EXCEPT !.age = "seen"] ELSE r : r \in shares}

\* inbox_append of a friend's gateway: the gate admits and touches.
admitPeerRow(s, f) ==
    /\ isSharedTo(shares, marks, edge, s, f)
    /\ peerRows' = peerRows \cup {[pair |-> <<s, f>>, gen |-> generation[<<s, f>>], era |-> era[<<s, f>>]]}
    /\ shares' = Touched(s)
    /\ UNCHANGED <<marks, generation, edge, edges, attested, era, cut>>

stillShared(r) ==
    /\ isSharedTo(shares, marks, edge, r.pair[1], r.pair[2])
    /\ generation[r.pair] <= r.gen

\* pendingFor: a row that still stands is pulled (and its session touched), one
\* that does not is retired.
PullRow(r) ==
    /\ peerRows' = peerRows \ {r}
    /\ shares' = IF isSharedTo(shares, marks, edge, r.pair[1], r.pair[2]) THEN Touched(r.pair[1]) ELSE shares
    /\ UNCHANGED <<marks, generation, edge, edges, attested, era, cut>>

\* A gateway attests the jobs of its session, or that it has none; it drops, or
\* is silent for a day.
attest(s) ==
    /\ attested' \in {attested \cup {s}, attested \ {s}}
    /\ UNCHANGED <<shares, marks, generation, edge, edges, peerRows, era, cut>>

\* SHARE_TTL_MS passes without a sign of the sessions.
SharesAge ==
    /\ shares' = {[r EXCEPT !.age = "old"] : r \in shares}
    /\ UNCHANGED <<marks, generation, edge, edges, peerRows, attested, era, cut>>

\* sweep: unseen shares go, unless a live thread keeps them.
ShareSweep ==
    LET after == {r \in shares : r.age = "seen" \/ r.session \in attested}
    IN /\ after # shares
       /\ UNCHANGED <<marks, cut, edge, edges, attested>>
       /\ putState(after, Revoked(after, Pairs))

ShareInit ==
    /\ shares = {} /\ marks = [f \in Friends |-> 0]
    /\ generation = [p \in Pairs |-> 0]
    /\ edge = [f \in Friends |-> 1] /\ edges = [f \in Friends |-> 1]
    /\ peerRows = {} /\ attested = {}
    /\ era = [p \in Pairs |-> 0] /\ cut = [f \in Friends |-> 0]

ShareNext ==
    \/ \E s \in Targets, to \in Audience : share(s, to) \/ unshare(s, to)
    \/ \E f \in Friends : unlink(f) \/ LinkFriend(f) \/ RevokeEdge(f)
    \/ \E s \in Targets : attest(s) \/ \E f \in Friends : admitPeerRow(s, f)
    \/ \E r \in peerRows : PullRow(r)
    \/ SharesAge \/ ShareSweep

ShareSpec == ShareInit /\ [][ShareNext]_shareVars

-----------------------------------------------------------------------------
(* Properties *)

\* A peer's row that would be delivered now was admitted in the same unbroken
\* stretch of sharing: what was revoked and shared again, by whatever mix of
\* records, sweeps and unlinks, does not bring back the rows sent before.
\* (A revocation of the edge alone ends no stretch; its rows wait for a new edge.)
RevokedRowsGone ==
    \A r \in peerRows : stillShared(r) => r.era = era[r.pair]

\* Over the edge the owner unlinked nothing is shared until the owner shares with
\* that Domain again, even when the unlink stopped before the edge was dropped
\* and whatever is shared with everyone meanwhile.
UnlinkHolds ==
    \A f \in Friends : edge[f] # 0 /\ cut[f] = edge[f] =>
        \A s \in Targets : ~isSharedTo(shares, marks, edge, s, f)

\* What a revocation ended stays ended: for the rows sent before it, and over the
\* edge an unlink cut (shareService.ts, share-rules.ts).
RevocationHolds == RevokedRowsGone /\ UnlinkHolds
=============================================================================
