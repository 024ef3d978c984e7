----------------------------- MODULE RunbookFire -----------------------------
(* A runbook fired by the owner's phone (consoleHandler.ts, consoleRunbook-  *)
(* Fire.ts), which repeats the op until it hears. Nothing upstream tells a   *)
(* repetition from a new op: the gateway's op store does (durableOpStore.ts) *)
(* and, for this process, the set of fires that run. One op of one phone;    *)
(* the two-week expiry and the caps of the store are left out.               *)
EXTENDS Integers

CONSTANTS
    MaxTries,       \* bound: times the phone sends the op
    MaxStops,       \* bound: restarts of the gateway
    MaxFences       \* bound: migrations begun

VARIABLES
    entry,          \* the store's entry of the op
    disk,           \* what the store's file has of it
    nextGeneration, \* of the store
    firing,         \* firingNow holds the op
    fire,           \* the fire in progress: where it is, its generation (0: null)
    fence,          \* fenced, and whether the fence has settled
    tries, stops, fences,
    sent,           \* bodies queued for the session, or on their way to its gateway (observer)
    swallowed,      \* bodies a fence refused while the answer said they were taken (observer)
    failed,         \* bodies sent whose fire was told they were not (observer)
    crashed         \* restarts between a delivery and its completion on disk (observer)

observers == <<sent, swallowed, failed, crashed>>
runbookVars == <<entry, disk, nextGeneration, firing, fire, fence, tries, stops, fences, observers>>

NoMarker == [state |-> "none", generation |-> 0]
NoFire == [at |-> "none", generation |-> 0]
Unfenced == [fenced |-> FALSE, settled |-> FALSE]

RunbookInit ==
    /\ entry = NoMarker /\ disk = NoMarker /\ nextGeneration = 1
    /\ firing = FALSE /\ fire = NoFire /\ fence = Unfenced
    /\ tries = 0 /\ stops = 0 /\ fences = 0
    /\ sent = 0 /\ swallowed = 0 /\ failed = 0 /\ crashed = 0

-----------------------------------------------------------------------------
(* The op store: writes nothing behind the fence, and saves as it can *)

Generation == IF fence.fenced THEN 0 ELSE nextGeneration

persist == disk' \in {disk, entry'}

markInFlight ==
    /\ entry' = IF fence.fenced THEN entry ELSE [state |-> "in-flight", generation |-> nextGeneration]
    /\ nextGeneration' = IF fence.fenced THEN nextGeneration ELSE nextGeneration + 1
    /\ IF fence.fenced THEN UNCHANGED disk ELSE persist

Completed ==
    IF fence.fenced \/ entry.state = "complete" THEN entry
    ELSE [state |-> "complete", generation |-> IF entry.state = "none" THEN nextGeneration ELSE entry.generation]

clear(g) ==
    IF fence.fenced \/ entry.state = "complete" \/ entry.generation # g THEN entry ELSE NoMarker

-----------------------------------------------------------------------------
(* The op *)

\* Sent and heard as done, or as already running, by a phone that asks again.
Fires ==
    /\ tries < MaxTries /\ tries' = tries + 1
    /\ IF entry.state = "complete" \/ firing
       THEN UNCHANGED <<entry, disk, nextGeneration, firing, fire>>
       ELSE /\ firing' = TRUE
            /\ markInFlight
            \* into a new session, one that runs here, or one of another gateway
            /\ \E at \in {"opening", "sending", "relaying"} : fire' = [at |-> at, generation |-> Generation]
    /\ UNCHANGED <<fence, stops, fences, observers>>

\* A new session is minted or found again, launched, and waited for.
Registered ==
    /\ fire.at = "opening"
    /\ fire' = [fire EXCEPT !.at = "sending"]
    /\ UNCHANGED <<entry, disk, nextGeneration, firing, fence, tries, stops, fences, observers>>

release ==
    /\ entry' = clear(fire.generation)
    /\ IF entry' = entry THEN UNCHANGED disk ELSE persist
    /\ firing' = FALSE

\* No such runbook, a launch that failed, a session that does not listen yet, a
\* body that was not taken.
NotFired ==
    /\ fire.at \in {"opening", "sending", "relaying"}
    /\ fire' = NoFire
    /\ release
    /\ UNCHANGED <<nextGeneration, fence, tries, stops, fences, observers>>

\* Behind this gateway's fence, or that of the session's gateway, nothing is
\* queued; only "refused" is told from the answers of accept.
deliver ==
    /\ fire.at \in {"sending", "relaying"}
    /\ fire' = [fire EXCEPT !.at = "sent"]
    /\ \/ /\ fire.at = "sending" => ~fence.fenced
          /\ sent' = sent + 1 /\ UNCHANGED swallowed
       \/ /\ fire.at = "sending" => fence.fenced
          /\ swallowed' = swallowed + 1 /\ UNCHANGED sent
    /\ UNCHANGED <<entry, disk, nextGeneration, firing, fence, tries, stops, fences, failed, crashed>>

\* The relay's answer is lost or late, or a save fails after the session had
\* the body: an error, and the op is released.
FailsLate ==
    /\ fire.at = "sent"
    /\ fire' = NoFire
    /\ release
    /\ failed' = failed + 1
    /\ UNCHANGED <<nextGeneration, fence, tries, stops, fences, sent, swallowed, crashed>>

\* Mutant: a completion always ends the hold.
markCompleteFrees ==
    /\ fire.at = "sent"
    /\ fire' = NoFire
    /\ entry' = Completed
    /\ IF entry' = entry THEN UNCHANGED disk ELSE persist
    /\ nextGeneration' = IF entry.state = "none" /\ ~fence.fenced THEN nextGeneration + 1 ELSE nextGeneration
    /\ firing' = FALSE
    /\ UNCHANGED <<fence, tries, stops, fences, observers>>

\* A completion the fence refused leaves the op held by this process.
markComplete ==
    /\ fire.at = "sent"
    /\ fire' = NoFire
    /\ entry' = Completed
    /\ IF entry' = entry THEN UNCHANGED disk ELSE persist
    /\ nextGeneration' = IF entry.state = "none" /\ ~fence.fenced THEN nextGeneration + 1 ELSE nextGeneration
    /\ firing' = (entry'.state # "complete")
    /\ UNCHANGED <<fence, tries, stops, fences, observers>>

-----------------------------------------------------------------------------
(* The gateway *)

Fence ==
    /\ ~fence.fenced /\ fences < MaxFences
    /\ fence' = [Unfenced EXCEPT !.fenced = TRUE] /\ fences' = fences + 1
    /\ UNCHANGED <<entry, disk, nextGeneration, firing, fire, tries, stops, observers>>
Unfence ==
    /\ fence.fenced /\ fence' = Unfenced
    /\ UNCHANGED <<entry, disk, nextGeneration, firing, fire, tries, stops, fences, observers>>

\* A fence that lasts drops the markers, whatever runs.
failInFlight ==
    /\ fence.fenced /\ ~fence.settled
    /\ fence' = [fence EXCEPT !.settled = TRUE]
    /\ entry' = IF entry.state = "in-flight" THEN NoMarker ELSE entry
    /\ IF entry' = entry THEN UNCHANGED disk ELSE persist
    /\ UNCHANGED <<nextGeneration, firing, fire, tries, stops, fences, observers>>

\* Markers have no request: a restored one is fired again when the phone asks.
\* The fence is a file, and stays.
Stops ==
    /\ stops < MaxStops /\ stops' = stops + 1
    /\ firing' = FALSE /\ fire' = NoFire /\ fence' = [fence EXCEPT !.settled = FALSE]
    /\ entry' = disk /\ nextGeneration' = disk.generation + 1
    /\ crashed' = crashed + (IF sent > 0 /\ disk.state # "complete" THEN 1 ELSE 0)
    /\ UNCHANGED <<disk, tries, fences, sent, swallowed, failed>>

RunbookNext ==
    \/ Fires \/ Registered \/ NotFired \/ deliver \/ FailsLate \/ markComplete
    \/ Fence \/ Unfence \/ failInFlight \/ Stops

RunbookSpec == RunbookInit /\ [][RunbookNext]_runbookVars

-----------------------------------------------------------------------------
(* Properties *)

\* The session gets the runbook once, however often the phone asks and whatever
\* a fence refuses to write. It gets it again after a stop between the delivery
\* and its completion on disk, or after a fire that failed though its body had
\* left, and for no other reason (runbook_fire, durableOpStore).
FiredOnce == sent <= 1 + crashed + failed

\* An op that no fire runs is held for ever, or on record as fired, only when the
\* session has it, or when a fence refused its body: one that failed can be fired
\* again, fenced or not (release, firingNow).
HeldOnlyFired ==
    entry.state = "complete" \/ (firing /\ fire = NoFire) => sent + swallowed > 0

\* The fence between firings of one operation is neither too wide nor too narrow:
\* it lets nothing run twice and holds nothing that did not run.
FireSettles == FiredOnce /\ HeldOnlyFired
=============================================================================
