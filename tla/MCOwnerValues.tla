---------------------------- MODULE MCOwnerValues ----------------------------
(* What the Router keeps for an owner: the inbox, on a gateway that answers, *)
(* the board, the vault, writes, scheduled sends, shares, blobs, the lock of *)
(* the store, what the owner has signed; and a runbook a gateway fires. They *)
(* share nothing but the store: a behaviour is one of a single part, with    *)
(* the others at rest.                                                       *)
EXTENDS MCInbox, MCBoard, VaultSync, OwnerOpIntake, ScheduledSends, Shares, BoardRank, BlobCache, OwnerLock, RunbookFire, Enrolment

VARIABLE focus      \* the part that runs

ValuesInit ==
    /\ focus \in {"board", "vault", "intake", "scheduled", "shares", "ranks", "lock", "runbook",
                  "enrolment", "inbox", "cache"}
    /\ BoardInit /\ VaultInit /\ IntakeInit /\ SchedInit /\ ShareInit /\ RankInit
    /\ LockInit /\ RunbookInit /\ EnrolInit /\ Init /\ CacheInit
    /\ focus # "lock" => lockPath = 0
    /\ focus # "vault" => Readers = {CHOOSE c \in Gateways : TRUE}

ValuesNext ==
    \/ focus = "board" /\ BoardNext
       /\ UNCHANGED <<focus, vaultVars, intakeVars, schedVars, shareVars, ranks, lockVars,
                      runbookVars, enrolVars, vars, cacheVars>>
    \/ focus = "vault" /\ VaultNext
       /\ UNCHANGED <<focus, boardVars, intakeVars, schedVars, shareVars, ranks, lockVars,
                      runbookVars, enrolVars, vars, cacheVars>>
    \/ focus = "intake" /\ IntakeNext
       /\ UNCHANGED <<focus, boardVars, vaultVars, schedVars, shareVars, ranks, lockVars,
                      runbookVars, enrolVars, vars, cacheVars>>
    \/ focus = "scheduled" /\ SchedNext
       /\ UNCHANGED <<focus, boardVars, vaultVars, intakeVars, shareVars, ranks, lockVars,
                      runbookVars, enrolVars, vars, cacheVars>>
    \/ focus = "shares" /\ ShareNext
       /\ UNCHANGED <<focus, boardVars, vaultVars, intakeVars, schedVars, ranks, lockVars,
                      runbookVars, enrolVars, vars, cacheVars>>
    \/ focus = "ranks" /\ RankNext
       /\ UNCHANGED <<focus, boardVars, vaultVars, intakeVars, schedVars, shareVars, lockVars,
                      runbookVars, enrolVars, vars, cacheVars>>
    \/ focus = "lock" /\ LockNext
       /\ UNCHANGED <<focus, boardVars, vaultVars, intakeVars, schedVars, shareVars, ranks,
                      runbookVars, enrolVars, vars, cacheVars>>
    \/ focus = "runbook" /\ RunbookNext
       /\ UNCHANGED <<focus, boardVars, vaultVars, intakeVars, schedVars, shareVars, ranks,
                      lockVars, enrolVars, vars, cacheVars>>
    \/ focus = "enrolment" /\ EnrolNext
       /\ UNCHANGED <<focus, boardVars, vaultVars, intakeVars, schedVars, shareVars, ranks,
                      lockVars, runbookVars, vars, cacheVars>>
    \/ focus = "inbox" /\ Next
       /\ UNCHANGED <<focus, boardVars, vaultVars, intakeVars, schedVars, shareVars, ranks,
                      lockVars, runbookVars, enrolVars, cacheVars>>
    \/ focus = "cache" /\ CacheNext
       /\ UNCHANGED <<focus, boardVars, vaultVars, intakeVars, schedVars, shareVars, ranks,
                      lockVars, runbookVars, enrolVars, vars>>

partsVars ==
    <<focus, boardVars, vaultVars, intakeVars, schedVars, shareVars, ranks, lockVars, runbookVars,
      enrolVars, vars, cacheVars>>

ValuesSpec == ValuesInit /\ [][ValuesNext]_partsVars

\* Nothing reads the record of the last board write but the properties.
ValuesView ==
    <<focus, BoardView, vaultVars, intakeVars, schedVars, shareVars, ranks, lockVars, runbookVars,
      enrolVars, vars, cacheVars>>

ValuesSymmetry == Permutations(BoardSessions)
=============================================================================
