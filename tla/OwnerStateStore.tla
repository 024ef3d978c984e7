-------------------------- MODULE OwnerStateStore --------------------------
(***************************************************************************)
(* The Router's per-owner durable store (federation-server/owner/          *)
(* ownerStateStore.ts): one journal line per committed batch, fsync before *)
(* the answer, snapshot plus journal replay on open, generation-numbered   *)
(* segments swapped by an atomic manifest rename on compaction.            *)
(*                                                                         *)
(* What a batch does to the records and rows is the business of Inbox.tla. *)
(* Here a batch is the identity of the write that made it, and the state   *)
(* of the store is the set of journal lines applied to it.                 *)
(*                                                                         *)
(* A commit and a compaction are synchronous in the code, so nothing else  *)
(* of the process interleaves with them, but the process or the machine    *)
(* may stop between any two of their system calls.  A process stop keeps   *)
(* what the kernel holds; a power loss keeps what fsync covered and any    *)
(* part of the rest.                                                       *)
(***************************************************************************)
EXTENDS Integers, Sequences, FiniteSets, SequencesExt

CONSTANTS
    MaxWrites,  \* bound: commits attempted
    MaxGen,     \* bound: the highest segment generation compaction reaches
    Faults      \* which failures of the environment the run admits

AllFaults == {"stop", "power", "write", "truncate", "fsync",
              "newline", "dirsync", "damage", "wide"}

ASSUME BoundsAssumption == MaxWrites \in Nat /\ MaxGen \in Nat
ASSUME FaultsAssumption == Faults \subseteq AllFaults

Gens == 0 .. MaxGen
Ids  == 1 .. MaxWrites

(* A committed batch as the state remembers it. *)
Entry == [seq : Nat, id : Ids]

(* The in-memory state and the content of a snapshot file. *)
State == [seq : Nat, log : SUBSET Entry]

(* What sits between two newlines of a journal file.  parses is whether    *)
(* JSON.parse accepts it, nl whether its newline is there.                 *)
Line == [seq : Nat, id : Ids, parses : BOOLEAN, nl : BOOLEAN]

(* A snapshot file that is not there, or whose bytes do not parse. *)
Unreadable == [seq |-> -1, log |-> {}]

Manifest == [gen : Gens, parses : BOOLEAN, quarantine : BOOLEAN]

VARIABLES
    manifest,        \* MANIFEST.json as the file system shows it
    manifestSynced,  \* MANIFEST.json as a power loss may bring it back
    snapshots,       \* snapshot-<gen>.json
    journals,        \* journal-<gen>.log (an absent one is never read)
    synced,          \* lines of journals[current] an fsync has covered
    status,          \* "open", "closed" (after a failed truncate), "down", "quarantined"
    phase,           \* the system call a commit or a compaction is up to
    state,           \* this.state
    current,         \* the generation of this.manifest and of the open descriptor
    pending,         \* the line being committed
    attempts,        \* commits attempted so far
    acked,           \* history: entries answered ok
    failed,          \* history: ids answered durability_failure
    told,            \* history: entries answered ok or uncertain by this process
    overcut          \* history: an open() cut more than the torn line

disk    == <<manifest, manifestSynced, snapshots, journals, synced>>
process == <<status, phase, state, current, pending>>
history == <<attempts, acked, failed, told, overcut>>
vars    == <<disk, process, history>>

EmptyState_BelowZero == [seq |-> -1, log |-> {}]   \* mutant: the first seq is one too low
EmptyState == [seq |-> 0, log |-> {}]
NoLine     == [seq |-> 0, id |-> 0, parses |-> FALSE, nl |-> FALSE]

----------------------------------------------------------------------------
(* Journal files *)

EntryOf(line) == [seq |-> line.seq, id |-> line.id]

(* Appending to a file whose last line lost its newline continues that     *)
(* line: the two run together into one that does not parse.                *)
AppendBytes(journal, line) ==
    IF journal # <<>> /\ ~ Last(journal).nl
    THEN Append(Front(journal), [Last(journal) EXCEPT !.parses = FALSE, !.nl = line.nl])
    ELSE Append(journal, line)

(* The prefixes of a line: too short to parse, or whole but for the        *)
(* newline, which a stop leaves only under the newline fault.              *)
Parts(line) == {[line EXCEPT !.parses = FALSE, !.nl = FALSE], [line EXCEPT !.nl = FALSE]}

Partials(line) ==
    IF "newline" \in Faults THEN Parts(line) ELSE {[line EXCEPT !.parses = FALSE, !.nl = FALSE]}

(* open(): a last line that does not parse is not replayed. *)
DropTorn(journal) ==
    IF journal # <<>> /\ ~ Last(journal).parses THEN Front(journal) ELSE journal

(* ... and is truncated.  The length open() truncates to is counted in     *)
(* characters and applied in bytes: when a line before the torn one holds  *)
(* text outside ASCII ("wide"), the cut falls short, at any point of the   *)
(* lines that were just replayed, perhaps between two of them or between a *)
(* line and its newline.                                                   *)
ShortCuts(lines) ==
    {SubSeq(lines, 1, n) : n \in 1 .. Len(lines) - 1}
        \cup UNION {{Append(SubSeq(lines, 1, n - 1), part) : part \in Parts(lines[n])} :
                       n \in 1 .. Len(lines)}

Cuts(journal) ==
    {DropTorn(journal)}
        \cup IF "wide" \in Faults /\ DropTorn(journal) # journal
             THEN ShortCuts(DropTorn(journal)) ELSE {}

AllParse(journal) == \A i \in DOMAIN journal : journal[i].parses

(* Mutant: commit applies the line and forgets to move state.seq. *)
Apply_KeepsSeq(s, line) == [seq |-> s.seq, log |-> s.log \cup {EntryOf(line)}]

(* apply() of one line, as commit does it after the fsync. *)
Apply(s, line) == [seq |-> line.seq, log |-> s.log \cup {EntryOf(line)}]

(* The replay loop of open(): a line whose seq is not above every seq seen *)
(* so far is skipped, the others are applied in file order.  Seqs never    *)
(* fall along a journal, so the last line carries the state's seq.         *)
Replay(s, journal) ==
    LET fresh == {i \in DOMAIN journal :
                    /\ journal[i].seq > s.seq
                    /\ \A k \in 1 .. i - 1 : journal[k].seq < journal[i].seq}
    IN  [seq |-> IF fresh = {} THEN s.seq ELSE Last(journal).seq,
         log |-> s.log \cup {EntryOf(journal[i]) : i \in fresh}]

----------------------------------------------------------------------------
(* A store opened for the first time: empty segments of generation 0. *)
Init ==
    /\ manifest = [gen |-> 0, parses |-> TRUE, quarantine |-> FALSE]
    /\ manifestSynced = manifest
    /\ snapshots = [g \in Gens |-> IF g = 0 THEN EmptyState ELSE Unreadable]
    /\ journals = [g \in Gens |-> <<>>]
    /\ synced = 0
    /\ status = "open"
    /\ phase = "idle"
    /\ state = EmptyState
    /\ current = 0
    /\ pending = NoLine
    /\ attempts = 0
    /\ acked = {}
    /\ failed = {}
    /\ told = {}
    /\ overcut = FALSE

----------------------------------------------------------------------------
(* commit() *)

NextLine == [seq |-> state.seq + 1, id |-> attempts + 1, parses |-> TRUE, nl |-> TRUE]

MayCommit == status = "open" /\ phase = "idle" /\ attempts < MaxWrites

(* The quota refuses, the lock was lost, or a write fails part of the way  *)
(* and ftruncate restores the length: nothing is left in the journal.      *)
CommitFails ==
    /\ MayCommit
    /\ attempts' = attempts + 1
    /\ failed' = failed \cup {attempts + 1}
    /\ UNCHANGED <<disk, process, acked, told, overcut>>

(* The write loop finishes; the fsync is next. *)
CommitWrite ==
    /\ MayCommit
    /\ journals' = [journals EXCEPT ![current] = AppendBytes(@, NextLine)]
    /\ pending' = NextLine
    /\ attempts' = attempts + 1
    /\ phase' = "fsync"
    /\ UNCHANGED <<manifest, manifestSynced, snapshots, synced, status, state, current,
                   acked, failed, told, overcut>>

(* A write error part of the way, and the truncate fails too: the store    *)
(* refuses every later commit.                                             *)
CommitTruncateFails ==
    /\ MayCommit
    /\ "truncate" \in Faults
    /\ \E part \in Partials(NextLine) :
          journals' = [journals EXCEPT ![current] = AppendBytes(@, part)]
    /\ status' = "closed"
    /\ attempts' = attempts + 1
    /\ failed' = failed \cup {attempts + 1}
    /\ UNCHANGED <<manifest, manifestSynced, snapshots, synced, phase, state, current,
                   pending, acked, told, overcut>>

FinishCommit ==
    /\ phase = "fsync"
    /\ state' = Apply(state, pending)
    /\ told' = told \cup {EntryOf(pending)}
    /\ pending' = NoLine
    /\ phase' = "idle"
    /\ UNCHANGED <<manifest, manifestSynced, snapshots, journals, status, current,
                   attempts, failed, overcut>>

CommitFsync ==
    /\ FinishCommit
    /\ synced' = Len(journals[current])
    /\ acked' = acked \cup {EntryOf(pending)}

(* Mutants: a failed fsync answered ok; answered failed with the line left *)
(* in the file; answered uncertain without applying the line.              *)
CommitFsyncFails_AnswersOk ==
    /\ FinishCommit
    /\ "fsync" \in Faults
    /\ acked' = acked \cup {EntryOf(pending)}
    /\ UNCHANGED synced

CommitFsyncFails_AnswersFailed ==
    /\ phase = "fsync"
    /\ "fsync" \in Faults
    /\ failed' = failed \cup {pending.id}
    /\ pending' = NoLine
    /\ phase' = "idle"
    /\ UNCHANGED <<disk, status, state, current, attempts, acked, told, overcut>>

CommitFsyncFails_Unapplied ==
    /\ phase = "fsync"
    /\ "fsync" \in Faults
    /\ told' = told \cup {EntryOf(pending)}
    /\ pending' = NoLine
    /\ phase' = "idle"
    /\ UNCHANGED <<disk, status, state, current, attempts, acked, failed, overcut>>

(* A failed fsync still applies the line; the answer is uncertain. *)
CommitFsyncFails ==
    /\ FinishCommit
    /\ "fsync" \in Faults
    /\ UNCHANGED <<synced, acked>>

----------------------------------------------------------------------------
(* compact(): three atomic writes, then the switch *)

(* Mutant: the old snapshot is copied, without the journal's lines. *)
CompactSnapshot_Stale ==
    /\ status = "open" /\ phase = "idle" /\ current < MaxGen
    /\ snapshots' = [snapshots EXCEPT ![current + 1] = snapshots[current]]
    /\ phase' = "journal"
    /\ UNCHANGED <<manifest, manifestSynced, journals, synced, status, state, current,
                   pending, history>>

CompactSnapshot ==
    /\ status = "open" /\ phase = "idle" /\ current < MaxGen
    /\ snapshots' = [snapshots EXCEPT ![current + 1] = state]
    /\ phase' = "journal"
    /\ UNCHANGED <<manifest, manifestSynced, journals, synced, status, state, current,
                   pending, history>>

CompactJournal ==
    /\ phase = "journal"
    /\ journals' = [journals EXCEPT ![current + 1] = <<>>]
    /\ phase' = "manifest"
    /\ UNCHANGED <<manifest, manifestSynced, snapshots, synced, status, state, current,
                   pending, history>>

(* The rename shows the new manifest; its directory entry is not synced. *)
CompactManifest ==
    /\ phase = "manifest"
    /\ manifest' = [manifest EXCEPT !.gen = current + 1]
    /\ phase' = "directory"
    /\ UNCHANGED <<manifestSynced, snapshots, journals, synced, status, state, current,
                   pending, history>>

(* The directory is synced; the old segments go and the descriptor moves. *)
CompactSwitch ==
    /\ phase = "directory"
    /\ manifestSynced' = manifest
    /\ current' = current + 1
    /\ snapshots' = [snapshots EXCEPT ![current] = Unreadable]
    /\ journals' = [journals EXCEPT ![current] = <<>>]
    /\ synced' = 0
    /\ phase' = "idle"
    /\ UNCHANGED <<manifest, status, state, pending, history>>

(* A write before the manifest rename throws: the compaction is abandoned  *)
(* and the store goes on with the old segments.                            *)
CompactFails ==
    /\ phase \in {"journal", "manifest"}
    /\ "write" \in Faults
    /\ phase' = "idle"
    /\ UNCHANGED <<disk, status, state, current, pending, history>>

(* The rename is done and the directory sync throws out of compact(): the  *)
(* manifest on disk names the new segments, this.manifest the old ones.    *)
CompactDirectoryFails ==
    /\ phase = "directory"
    /\ "dirsync" \in Faults
    /\ phase' = "idle"
    /\ UNCHANGED <<disk, status, state, current, pending, history>>

----------------------------------------------------------------------------
(* The process and the machine *)

GoDown ==
    /\ status' = "down"
    /\ phase' = "idle"
    /\ pending' = NoLine
    /\ UNCHANGED <<state, current, acked, failed, told, overcut>>

(* close(), or the process dies: the kernel keeps every byte written. *)
Stop ==
    /\ status # "down"
    /\ "stop" \in Faults
    /\ GoDown
    /\ UNCHANGED <<disk, attempts>>

(* The process dies inside the write loop of a commit. *)
StopInWrite ==
    /\ MayCommit
    /\ "stop" \in Faults
    /\ \E part \in Partials(NextLine) :
          journals' = [journals EXCEPT ![current] = AppendBytes(@, part)]
    /\ attempts' = attempts + 1
    /\ GoDown
    /\ UNCHANGED <<manifest, manifestSynced, snapshots, synced>>

(* Unsynced lines survive up to some point, and the next one in part. *)
Remains(journal) ==
    {SubSeq(journal, 1, n) : n \in synced .. Len(journal)}
        \cup UNION {{Append(SubSeq(journal, 1, n), part) : part \in Partials(journal[n + 1])} :
                       n \in synced .. Len(journal) - 1}

PowerLoss ==
    /\ "power" \in Faults
    /\ \E left \in Remains(journals[current]) :
         /\ journals' = [journals EXCEPT ![current] = left]
         /\ synced' = Len(left)
    /\ \E m \in {manifest, manifestSynced} : manifest' = m /\ manifestSynced' = m
    /\ GoDown
    /\ UNCHANGED <<snapshots, attempts>>

(* Damage outside the code's control to what is on disk: the manifest,     *)
(* the snapshot it names, or a journal line that a synced line follows (a  *)
(* damaged last line cannot be told from a torn one).                      *)
Damage ==
    /\ status = "down" /\ manifest = manifestSynced
    /\ "damage" \in Faults
    /\ \/ /\ manifest' = [manifest EXCEPT !.parses = FALSE]
          /\ manifestSynced' = manifest'
          /\ UNCHANGED <<snapshots, journals>>
       \/ /\ snapshots' = [snapshots EXCEPT ![manifest.gen] = Unreadable]
          /\ UNCHANGED <<manifest, manifestSynced, journals>>
       \/ /\ \E i \in DOMAIN journals[manifest.gen] :
                i < synced /\ journals' = [journals EXCEPT ![manifest.gen][i].parses = FALSE]
          /\ UNCHANGED <<manifest, manifestSynced, snapshots>>
    /\ UNCHANGED <<synced, process, history>>

----------------------------------------------------------------------------
(* open() *)

(* The manifest does not parse or already names a quarantine, the snapshot *)
(* is missing or damaged, or an earlier line is damaged: quarantine.       *)
MustQuarantine ==
    \/ ~ manifest.parses
    \/ manifest.quarantine
    \/ snapshots[manifest.gen] = Unreadable
    \/ ~ AllParse(DropTorn(journals[manifest.gen]))

(* A damaged manifest is left as it is; any other cause is written down. *)
OpenQuarantined ==
    /\ status = "down"
    /\ MustQuarantine
    /\ status' = "quarantined"
    /\ state' = EmptyState
    /\ current' = manifest.gen
    /\ synced' = IF current = manifest.gen THEN synced ELSE Len(journals[manifest.gen])
    /\ manifest' = IF manifest.parses THEN [manifest EXCEPT !.quarantine = TRUE] ELSE manifest
    /\ manifestSynced' = manifest'
    /\ told' = {}
    /\ UNCHANGED <<snapshots, journals, phase, pending, attempts, acked, failed, overcut>>

(* The replayed state: memory holds the lines that parsed, whatever the    *)
(* truncate leaves of them on disk.  Segments the manifest does not name   *)
(* are removed.                                                            *)
Open ==
    /\ status = "down"
    /\ ~ MustQuarantine
    /\ state' = Replay(snapshots[manifest.gen], DropTorn(journals[manifest.gen]))
    /\ \E left \in Cuts(journals[manifest.gen]) :
         /\ journals' = [g \in Gens |-> IF g = manifest.gen THEN left ELSE <<>>]
         /\ synced' = IF current = manifest.gen /\ synced <= Len(left) THEN synced ELSE Len(left)
         /\ overcut' = (overcut \/ left # DropTorn(journals[manifest.gen]))
    /\ snapshots' = [g \in Gens |-> IF g = manifest.gen THEN snapshots[g] ELSE Unreadable]
    /\ current' = manifest.gen
    /\ status' = "open"
    /\ told' = {}
    /\ UNCHANGED <<manifest, manifestSynced, phase, pending, attempts, acked, failed>>

Next ==
    \/ CommitFails \/ CommitWrite \/ CommitTruncateFails
    \/ CommitFsync \/ CommitFsyncFails
    \/ CompactSnapshot \/ CompactJournal \/ CompactManifest \/ CompactSwitch
    \/ CompactFails \/ CompactDirectoryFails
    \/ Stop \/ StopInWrite \/ PowerLoss \/ Damage
    \/ OpenQuarantined \/ Open

Spec == Init /\ [][Next]_vars

----------------------------------------------------------------------------
(* Properties *)

(* The type invariant: every variable holds a value of its kind, and what  *)
(* a commit or a compaction works on exists while it runs.                 *)
TypeOK ==
    /\ manifest \in Manifest /\ manifestSynced \in Manifest
    /\ snapshots \in [Gens -> State \cup {Unreadable}]
    /\ journals \in [Gens -> Seq(Line)]
    /\ synced \in Nat
    /\ status \in {"open", "closed", "down", "quarantined"}
    /\ phase \in IF status = "open" THEN {"idle", "fsync", "journal", "manifest", "directory"}
                 ELSE {"idle"}
    /\ state \in State
    /\ current \in Gens
    /\ pending \in IF phase = "fsync" THEN Line ELSE {NoLine}
    /\ phase \in {"journal", "manifest", "directory"} => current < MaxGen
    /\ attempts \in 0 .. MaxWrites
    /\ acked \in SUBSET Entry /\ told \in SUBSET Entry
    /\ failed \in SUBSET Ids
    /\ overcut \in BOOLEAN

(* A write answered ok is in the state of every later open store: no crash,*)
(* torn tail, replay or compaction drops it.  Only quarantine, which       *)
(* refuses every read, may stand in its way.                               *)
AckedSurvive == status = "open" => acked \subseteq state.log

(* The replayed state is one history: each seq from 1 to state.seq was     *)
(* applied once, none is skipped and none twice.  Not said of a store that *)
(* an earlier open() cut too short: memory goes on numbering from lines    *)
(* the file no longer has.                                                 *)
OneHistory ==
    status = "open" /\ ~ overcut =>
        /\ \A e \in state.log : e.seq \in 1 .. state.seq
        /\ \A n \in 1 .. state.seq : \E e \in state.log : e.seq = n
        /\ \A e, f \in state.log : e.seq = f.seq => e = f

(* A write answered durability_failure never shows up after a reopen. *)
FailedStayOut == status = "open" => \A e \in state.log : e.id \notin failed

(* "Never reuse sequence after fsync failure": within one process, no two  *)
(* answered writes carry the same sequence number.                         *)
SeqsOnce == \A e, f \in told : e.seq = f.seq => e = f
=============================================================================
