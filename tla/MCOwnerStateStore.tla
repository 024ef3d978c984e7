------------------------- MODULE MCOwnerStateStore -------------------------
(***************************************************************************)
(* Instances of OwnerStateStore for TLC, and the store shown to implement  *)
(* the log of OwnerLog.                                                    *)
(***************************************************************************)
EXTENDS OwnerStateStore

(* Every failure the store survives; the three left out lose writes that   *)
(* were answered ok.                                                       *)
Survivable == AllFaults \ {"newline", "dirsync", "wide"}

(* The log a caller sees: this.state while the store is open, what open()  *)
(* would read back while it is down, nothing once it must be quarantined.  *)
Lost == status = "quarantined" \/ (status = "down" /\ MustQuarantine)

LogMode == IF Lost THEN "lost" ELSE IF status = "down" THEN "down" ELSE "up"

LogView ==
    IF Lost THEN {}
    ELSE IF status = "down"
         THEN Replay(snapshots[manifest.gen], DropTorn(journals[manifest.gen])).log
         ELSE state.log

Log == INSTANCE OwnerLog WITH log <- LogView, mode <- LogMode

(* Every step of the store is a step of the log it promises: commits,      *)
(* crashes, power losses, replays and compactions never take back an       *)
(* acknowledged write nor serve one that did not happen.                   *)
ImplementsLog == Log!Spec
=============================================================================
