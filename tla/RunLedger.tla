------------------------------ MODULE RunLedger ------------------------------
(***************************************************************************)
(* The journal store of one run directory                                  *)
(* (crates/nopal-core/src/run_ledger_store.rs), as several `nopal`         *)
(* processes use it.  A command takes the run's file lock, replays the     *)
(* journal, repairs stale projections, decides, publishes one transaction  *)
(* file by write-then-rename (the durability point) and rewrites the       *)
(* projections one file at a time.  A process may die between any two of   *)
(* those steps; its lock is then released by the operating system.         *)
(*                                                                         *)
(* Data is abstracted to what the properties tell apart.  The content of a *)
(* projection is the revision of the transaction that last wrote it: 0 for *)
(* content an older, unjournaled run already had, Absent for no file.      *)
(***************************************************************************)
EXTENDS Lifecycle, Integers, Sequences

CONSTANTS
    Procs,          \* processes that may work on the run at the same time
    NoProc,         \* the lock is free
    Keys,           \* caller-supplied operation identities
    NoKey,          \* the caller gave none: the store makes up a fresh one
    Payloads,       \* request bodies
    Artifacts,      \* files under artifacts/
    GateFile,       \* the envelope file of each gate attempt, in order
    Commands,       \* the commands the processes may issue
    LegacyStatuses, \* statuses an unjournaled run may be found in
    OrdinaryLimit,  \* JOURNAL_ORDINARY_LIMIT, 100_000 in the code
    FileLimit       \* JOURNAL_FILE_LIMIT, 100_002 in the code

Absent == -1
Paths  == Artifacts \cup
          {"checkpoint", "events", "report", "run", "transcript"}

\* A command and the artifact effects its request names.
Command == [kind   : Kinds,
            target : Status \cup {NoStatus},
            key    : Keys \cup {NoKey},
            payload: Payloads,
            write  : SUBSET (Artifacts \cup {"report"}),
            create : SUBSET Artifacts,  \* immutable: refused when ever written
            remove : SUBSET Artifacts,  \* refused when absent
            clear  : SUBSET Artifacts]  \* removed when present

\* read_run_snapshot: locks, replays and repairs, but commits nothing.
Snapshot == [kind |-> "snapshot"]
NoOp     == [kind |-> "none"]

ASSUME ConstantsAssumption ==
    /\ NoProc \notin Procs
    /\ NoKey \notin Keys
    /\ Commands \subseteq Command
    /\ GateFile \in Seq(Artifacts)
    /\ LegacyStatuses \subseteq Status
    /\ Artifacts \cap {"checkpoint", "events", "report", "run", "transcript"} = {}

\* Only adapter evidence creates, removes or clears artifacts.
ASSUME EffectsAssumption ==
    \A c \in Commands : c.kind # "evidence" =>
        c.create = {} /\ c.remove = {} /\ c.clear = {}

ASSUME LimitsAssumption ==
    /\ OrdinaryLimit \in Nat \ {0}
    /\ FileLimit = OrdinaryLimit + 2

VARIABLES
    dir,       \* "absent", "run" (created), "journal" (with transactions/)
    legacy,    \* status of the unjournaled run, or NoStatus for a native one
    anchored,  \* has the revision-zero legacy anchor been published?
    journal,   \* the published transactions; journal[r] is revision r
    temp,      \* does transactions/ hold a temporary file?
    disk,      \* the projection files
    lock,      \* holder of the run lock
    pc, op,    \* what each process does, and for which command
    base,      \* the revision its replayed state stands at
    todo,      \* projection files it has still to rewrite
    acks       \* history: commands reported successful, with their revision

store == <<dir, legacy, anchored, journal, temp>>
local == <<pc, op, base, todo>>
vars  == <<dir, legacy, anchored, journal, temp, disk, lock,
           pc, op, base, todo, acks>>

-----------------------------------------------------------------------------
(* Projections                                                             *)

BaseFiles == [q \in Paths |->
                IF legacy # NoStatus /\ q \in {"events", "run", "transcript"}
                THEN 0 ELSE Absent]

\* Replaying revisions 1..r yields these projections and this status.
FilesAt(r)  == IF r = 0 THEN BaseFiles ELSE journal[r].files
StatusAt(r) == IF r = 0 THEN legacy ELSE journal[r].status

Revision   == Len(journal)
EverWritten(q, r) == \E i \in 0..r : FilesAt(i)[q] # Absent

FreeAttempts(r) == {n \in DOMAIN GateFile : FilesAt(r)[GateFile[n]] = Absent}
\* Mutant: the attempt after the free ones, one too low.
NextAttempt_Reused(r) ==
    IF FreeAttempts(r) = DOMAIN GateFile THEN 1
    ELSE CHOOSE n \in DOMAIN GateFile \ FreeAttempts(r) : TRUE

NextAttempt(r) == CHOOSE n \in FreeAttempts(r) :
                        \A m \in FreeAttempts(r) : n <= m

\* Every command appends an event: events.jsonl, transcript.md and run.json.
Written(c, r) ==
    {"events", "run", "transcript"} \cup c.write \cup c.create
    \cup (IF c.kind \in {"checkpoint", "gate", "interrupt", "finalize"}
          THEN {"checkpoint"} ELSE {})
    \cup (IF c.kind = "gate" THEN {GateFile[NextAttempt(r)]} ELSE {})

Removed(c, r) == c.remove \cup {q \in c.clear : FilesAt(r)[q] # Absent}

\* The projections after command c is applied to revision r.
Applied(c, r) ==
    [q \in Paths |-> IF q \in Removed(c, r) THEN Absent
                     ELSE IF q \in Written(c, r) THEN r + 1
                     ELSE FilesAt(r)[q]]

\* The files whose bytes the command may change.
Touched(c, r) == {q \in Paths : q \in Written(c, r) \cup Removed(c, r)}

\* Projections are rewritten in the byte order of their paths.
Rank(q) == CASE q \in Artifacts     -> 0
             [] q = "checkpoint" -> 1
             [] q = "events"     -> 2
             [] q = "report"     -> 3
             [] q = "run"        -> 4
             [] q = "transcript" -> 5

\* Mutant: a hash map instead of an ordered map of changed paths.
InOrder_Unordered(q, S) == q \in S

InOrder(q, S) == q \in S /\ \A s \in S : Rank(q) <= Rank(s)

-----------------------------------------------------------------------------
(* Decisions commit_command takes on its replayed state, in its order      *)

\* Mutant: ordinary commands may use one reserved revision.
Exhausted_OffByOne(c, r) ==
    \/ r >= FileLimit
    \/ r > OrdinaryLimit /\ c.kind \notin {"interrupt", "finalize"}

Exhausted(c, r) ==
    \/ r >= FileLimit
    \/ r >= OrdinaryLimit /\ c.kind \notin {"interrupt", "finalize"}

\* Mutant: the latest transaction is not compared with the identity.
Prior_OffByOne(c, r) == {i \in 1..(r - 1) : c.key # NoKey /\ journal[i].cmd.key = c.key}

\* The revision that already committed this operation identity, if any.
Prior(c, r) == {i \in 1..r : c.key # NoKey /\ journal[i].cmd.key = c.key}

\* Mutant: finalize skips the lifecycle check.
Admissible_FinalizeUnchecked(c, r) ==
    /\ c.kind = "initialize" => r = 0
    /\ c.kind = "finalize" \/ Legal(StatusAt(r), c)
    /\ c.kind = "gate" => FreeAttempts(r) # {}
    /\ \A q \in c.create : ~EverWritten(q, r)
    /\ \A q \in c.remove : FilesAt(r)[q] # Absent

Admissible(c, r) ==
    /\ c.kind = "initialize" => r = 0
    /\ Legal(StatusAt(r), c)
    /\ c.kind = "gate" => FreeAttempts(r) # {}
    /\ \A q \in c.create : ~EverWritten(q, r)
    /\ \A q \in c.remove : FilesAt(r)[q] # Absent

FileCount == Len(journal) + (IF anchored THEN 1 ELSE 0)

-----------------------------------------------------------------------------
Init ==
    /\ legacy \in LegacyStatuses \cup {NoStatus}
    /\ dir = IF legacy = NoStatus THEN "absent" ELSE "run"
    /\ anchored = FALSE
    /\ journal = <<>>
    /\ temp = FALSE
    /\ disk = BaseFiles
    /\ lock = NoProc
    /\ pc = [p \in Procs |-> "idle"]
    /\ op = [p \in Procs |-> NoOp]
    /\ base = [p \in Procs |-> 0]
    /\ todo = [p \in Procs |-> {}]
    /\ acks = {}

\* The process is done with its command, whatever came of it.
Leave(p) ==
    /\ pc' = [pc EXCEPT ![p] = "idle"]
    /\ op' = [op EXCEPT ![p] = NoOp]
    /\ base' = [base EXCEPT ![p] = 0]
    /\ todo' = [todo EXCEPT ![p] = {}]
    /\ lock' = IF lock = p THEN NoProc ELSE lock

Begin(p, c) ==
    /\ pc[p] = "idle"
    /\ pc' = [pc EXCEPT ![p] = "lock"]
    /\ op' = [op EXCEPT ![p] = c]
    /\ UNCHANGED <<legacy, anchored, journal, temp, disk, lock, base, todo, acks>>

\* init_run: fs::create_dir of the run directory admits one creator.
BeginInitialize(p) ==
    \E c \in Commands :
        /\ c.kind = "initialize"
        /\ dir = "absent"
        /\ dir' = "run"
        /\ Begin(p, c)

\* Every other command finds the run by its run.json.
BeginMutation(p) ==
    \E c \in Commands :
        /\ c.kind # "initialize"
        /\ disk["run"] # Absent
        /\ Begin(p, c)
        /\ UNCHANGED dir

\* An exact resume query; an unjournaled run is read without the lock.
BeginSnapshot(p) ==
    /\ disk["run"] # Absent
    /\ dir = "journal"
    /\ Begin(p, Snapshot)
    /\ UNCHANGED dir

\* Mutant: the lock file is opened but not locked.
Acquire_Unlocked(p) ==
    /\ pc[p] = "lock"
    /\ lock' = p
    /\ pc' = [pc EXCEPT ![p] = "load"]
    /\ UNCHANGED <<store, disk, op, base, todo, acks>>

Acquire(p) ==
    /\ pc[p] = "lock"
    /\ lock = NoProc
    /\ lock' = p
    /\ pc' = [pc EXCEPT ![p] = "load"]
    /\ UNCHANGED <<store, disk, op, base, todo, acks>>

\* Mutant: the lock is waited for without a deadline.
TimeOut_Never(p) == FALSE /\ Leave(p) /\ UNCHANGED <<store, disk, acks>>

\* try_lock kept failing until the deadline.
TimeOut(p) ==
    /\ pc[p] = "lock"
    /\ lock # NoProc
    /\ Leave(p)
    /\ UNCHANGED <<store, disk, acks>>

\* A journal directory with a foreign entry or too many files is refused.
Unreadable == temp \/ FileCount > FileLimit

LoadFails(p) ==
    /\ pc[p] = "load"
    /\ Unreadable
    /\ Leave(p)
    /\ UNCHANGED <<store, disk, acks>>

\* First journaled command on a legacy run: publish the revision-zero anchor.
StageAnchor(p) ==
    /\ pc[p] = "load"
    /\ ~Unreadable
    /\ FileCount = 0
    /\ disk["run"] # Absent
    /\ dir' = "journal"
    /\ temp' = TRUE
    /\ pc' = [pc EXCEPT ![p] = "anchor"]
    /\ UNCHANGED <<legacy, anchored, journal, disk, lock, op, base, todo, acks>>

PublishAnchor(p) ==
    /\ pc[p] = "anchor"
    /\ temp' = FALSE
    /\ anchored' = TRUE
    /\ pc' = [pc EXCEPT ![p] = "load"]
    /\ UNCHANGED <<dir, legacy, journal, disk, lock, op, base, todo, acks>>

\* Mutant: the replayed revision is counted one too low.
Load_OffByOne(p) ==
    /\ pc[p] = "load"
    /\ ~Unreadable
    /\ FileCount > 0 \/ disk["run"] = Absent
    /\ base' = [base EXCEPT ![p] = Revision - 1]
    /\ todo' = [todo EXCEPT ![p] = {}]
    /\ pc' = [pc EXCEPT ![p] = "repair"]
    /\ UNCHANGED <<store, disk, lock, op, acks>>

\* Mutant: repair forgets the files a committed transaction removed.
Load_NoTombstones(p) ==
    /\ pc[p] = "load"
    /\ ~Unreadable
    /\ FileCount > 0 \/ disk["run"] = Absent
    /\ base' = [base EXCEPT ![p] = Revision]
    /\ todo' = [todo EXCEPT ![p] = {q \in Paths : disk[q] # FilesAt(Revision)[q]
                                        /\ FilesAt(Revision)[q] # Absent}]
    /\ pc' = [pc EXCEPT ![p] = "repair"]
    /\ UNCHANGED <<store, disk, lock, op, acks>>

\* load_journal: replay the chain, then compare every projection with disk.
Load(p) ==
    /\ pc[p] = "load"
    /\ ~Unreadable
    /\ FileCount > 0 \/ disk["run"] = Absent
    /\ base' = [base EXCEPT ![p] = Revision]
    /\ todo' = [todo EXCEPT ![p] = {q \in Paths : disk[q] # FilesAt(Revision)[q]}]
    /\ pc' = [pc EXCEPT ![p] = "repair"]
    /\ UNCHANGED <<store, disk, lock, op, acks>>

\* repair_projections: removed files first, then the rest in path order.
Repair(p) ==
    /\ pc[p] = "repair"
    /\ LET gone == {q \in todo[p] : FilesAt(base[p])[q] = Absent}
       IN \E q \in todo[p] :
            /\ IF gone # {} THEN q \in gone ELSE InOrder(q, todo[p])
            /\ disk' = [disk EXCEPT ![q] = FilesAt(base[p])[q]]
            /\ todo' = [todo EXCEPT ![p] = @ \ {q}]
    /\ UNCHANGED <<store, lock, pc, op, base, acks>>

Repaired(p) ==
    /\ pc[p] = "repair"
    /\ todo[p] = {}
    /\ pc' = [pc EXCEPT ![p] = "decide"]
    /\ UNCHANGED <<store, disk, lock, op, base, todo, acks>>

ReplySnapshot(p) ==
    /\ pc[p] = "decide"
    /\ op[p] = Snapshot
    /\ Leave(p)
    /\ UNCHANGED <<store, disk, acks>>

Acknowledge(c, r) == acks' = acks \cup {[cmd |-> c, rev |-> r]}

\* The identity was committed before with the same bytes: same answer.
Replay(p) ==
    /\ pc[p] = "decide"
    /\ op[p] # Snapshot
    /\ ~Exhausted(op[p], base[p])
    /\ \E i \in Prior(op[p], base[p]) :
          /\ journal[i].cmd = op[p]
          /\ Acknowledge(op[p], i)
    /\ Leave(p)
    /\ UNCHANGED <<store, disk>>

Refuse(p) ==
    /\ pc[p] = "decide"
    /\ op[p] # Snapshot
    /\ \/ Exhausted(op[p], base[p])
       \/ \E i \in Prior(op[p], base[p]) : journal[i].cmd # op[p]
       \/ /\ Prior(op[p], base[p]) = {}
          /\ ~Admissible(op[p], base[p])
    /\ Leave(p)
    /\ UNCHANGED <<store, disk, acks>>

\* The record is built in memory and written to a temporary file.
Stage(p) ==
    /\ pc[p] = "decide"
    /\ op[p] # Snapshot
    /\ ~Exhausted(op[p], base[p])
    /\ Prior(op[p], base[p]) = {}
    /\ Admissible(op[p], base[p])
    /\ base[p] = Revision        \* the target must not exist
    /\ dir' = "journal"
    /\ temp' = TRUE
    /\ pc' = [pc EXCEPT ![p] = "rename"]
    /\ UNCHANGED <<legacy, anchored, journal, disk, lock, op, base, todo, acks>>

\* Mutant: the write error is swallowed and success reported.
StageFails_Swallowed(p) ==
    /\ pc[p] = "rename"
    /\ temp' = FALSE
    /\ Acknowledge(op[p], base[p] + 1)
    /\ Leave(p)
    /\ UNCHANGED <<dir, legacy, anchored, journal, disk>>

\* Writing the temporary file fails: it is removed and the error returned.
StageFails(p) ==
    /\ pc[p] \in {"anchor", "rename"}
    /\ temp' = FALSE
    /\ Leave(p)
    /\ UNCHANGED <<dir, legacy, anchored, journal, disk, acks>>

\* The revision a process staged goes after the last one it replayed.  A rename
\* replaces whatever stands there: only the run lock makes it an append.
Installed(c, r) ==
    LET e == [cmd |-> c, status |-> Target(c), files |-> Applied(c, r)]
    IN IF r = Revision THEN Append(journal, e) ELSE [journal EXCEPT ![r + 1] = e]

\* Mutant: the lock is dropped at the durability point.
Publish_Unlocks(p) ==
    /\ pc[p] = "rename"
    /\ journal' = Installed(op[p], base[p])
    /\ todo' = [todo EXCEPT ![p] = Touched(op[p], base[p])]
    /\ temp' = FALSE
    /\ lock' = NoProc
    /\ pc' = [pc EXCEPT ![p] = "project"]
    /\ UNCHANGED <<dir, legacy, anchored, disk, op, base, acks>>

\* The rename is the durability point.
Publish(p) ==
    /\ pc[p] = "rename"
    /\ journal' = Installed(op[p], base[p])
    /\ todo' = [todo EXCEPT ![p] = Touched(op[p], base[p])]
    /\ temp' = FALSE
    /\ pc' = [pc EXCEPT ![p] = "project"]
    /\ UNCHANGED <<dir, legacy, anchored, disk, lock, op, base, acks>>

Project(p) ==
    /\ pc[p] = "project"
    /\ \E q \in todo[p] :
          /\ InOrder(q, todo[p])
          /\ disk' = [disk EXCEPT ![q] = FilesAt(base[p] + 1)[q]]
          /\ todo' = [todo EXCEPT ![p] = @ \ {q}]
    /\ UNCHANGED <<store, lock, pc, op, base, acks>>

Reply(p) ==
    /\ pc[p] = "project"
    /\ todo[p] = {}
    /\ Acknowledge(op[p], base[p] + 1)
    /\ Leave(p)
    /\ UNCHANGED <<store, disk>>

\* The process dies, or gives up with an I/O error, wherever it stands.
Crash(p) ==
    /\ pc[p] # "idle"
    /\ Leave(p)
    /\ UNCHANGED <<store, disk, acks>>

Step(p) ==
    \/ Acquire(p) \/ TimeOut(p)
    \/ LoadFails(p) \/ StageAnchor(p) \/ PublishAnchor(p) \/ Load(p)
    \/ Repair(p) \/ Repaired(p)
    \/ ReplySnapshot(p) \/ Replay(p) \/ Refuse(p)
    \/ Stage(p) \/ StageFails(p) \/ Publish(p)
    \/ Project(p) \/ Reply(p)

Next == \E p \in Procs :
            \/ BeginInitialize(p) \/ BeginMutation(p) \/ BeginSnapshot(p)
            \/ Step(p)
            \/ Crash(p)

Spec == Init /\ [][Next]_vars

\* A command that was started keeps being scheduled: try_lock is polled to a
\* deadline, nothing else waits.  Nobody owes a new command or a crash.
FairSpec == Spec /\ \A p \in Procs : WF_vars(Step(p))

-----------------------------------------------------------------------------
(* Properties                                                              *)

File    == [Paths -> Nat \cup {Absent}]
Entry   == [cmd: Command, status: Status, files: File]
Working == {"load", "anchor", "repair", "decide", "rename", "project"}

\* Every variable keeps its type.
TypeOK ==
    /\ dir \in {"absent", "run", "journal"}
    /\ legacy \in Status \cup {NoStatus}
    /\ anchored \in BOOLEAN
    /\ journal \in Seq(Entry)
    /\ temp \in BOOLEAN
    /\ disk \in File
    /\ lock \in Procs \cup {NoProc}
    /\ pc \in [Procs -> {"idle", "lock"} \cup Working]
    /\ op \in [Procs -> Commands \cup {Snapshot, NoOp}]
    /\ base \in [Procs -> Nat]
    /\ todo \in [Procs -> SUBSET Paths]
    /\ acks \subseteq [cmd: Command, rev: Nat]

\* The state a process decides on and publishes from is the whole journal:
\* no other process committed since it replayed (no lost update), so the
\* revision it renames onto is free.
DecidesOnWholeJournal ==
    \A p \in Procs : pc[p] \in {"repair", "decide", "rename"} => base[p] = Revision

\* A success report is never taken back: whatever dies afterwards, the command
\* stands in the journal at the revision that was reported.
AckedIsCommitted ==
    \A a \in acks : a.rev \in DOMAIN journal /\ journal[a.rev].cmd = a.cmd

\* A caller's operation identity names at most one transition, however often
\* and by whomever the command is retried after an uncertain outcome.
OneTransitionPerIdentity ==
    \A i, j \in DOMAIN journal :
        journal[i].cmd.key = journal[j].cmd.key /\ i # j
            => journal[i].cmd.key = NoKey

\* Nothing follows a failed or completed run, and nothing but finalize makes one.
TerminalIsLast ==
    \A i \in 0..Revision : StatusAt(i) \in Terminal =>
        /\ i = Revision
        /\ i > 0 => journal[i].cmd.kind = "finalize"

\* What a reader that takes no lock finds in a projection file is what some
\* committed revision put there; repair never meets foreign bytes.
DiskIsCommittedBoundary ==
    \A q \in Paths : \E r \in 0..Revision : disk[q] = FilesAt(r)[q]

\* A reader that takes no lock (resume and dashboard scan run.json) never
\* finds run.json ahead of what it names: the events it counts and the
\* artifacts and checkpoints it lists are on disk at least as new.
RunJsonNeverAhead ==
    \A q \in Paths : Rank(q) < Rank("run") /\ disk["run"] # Absent =>
        \E r \in disk["run"]..Revision : disk[q] = FilesAt(r)[q]

\* After replay and repair the projections are exactly the replayed state, so
\* an exact resume query and a plain read agree.
RepairCompletes ==
    \A p \in Procs : pc[p] = "decide" => disk = FilesAt(base[p])

\* Two gate attempts never share an envelope file and immutable evidence is
\* written once, even after a removal.
EvidenceNeverOverwritten ==
    \A i \in DOMAIN journal :
        LET c == journal[i].cmd
        IN /\ \A q \in c.create : \A j \in 0..(i - 1) : FilesAt(j)[q] = Absent
           /\ c.kind = "gate" =>
                \E n \in DOMAIN GateFile :
                    /\ FilesAt(i)[GateFile[n]] = i
                    /\ FilesAt(i - 1)[GateFile[n]] = Absent

\* The two reserved revisions suffice: a running run can always be interrupted
\* and then finalized, however full its journal is.
ReserveSuffices == StatusAt(Revision) = "running" => Revision + 2 <= FileLimit

\* A reader of run.json never goes back to an older revision, through crashes
\* and repairs by other processes.
ReadersNeverGoBack == [][disk'["run"] >= disk["run"]]_vars

\* Every command that is started comes back or its process dies: nobody waits
\* for the run lock, or in a repair, for ever.
EveryCommandEnds == \A p \in Procs : pc[p] # "idle" ~> pc[p] = "idle"

\* The store implements the abstract log of LedgerLog: a transition takes effect
\* at the rename, whatever the files, locks and crashes around it do.
Log == INSTANCE LedgerLog
         WITH start  <- legacy,
              log    <- [i \in DOMAIN journal |->
                           [cmd |-> journal[i].cmd, status |-> journal[i].status]],
              Starts <- LegacyStatuses \cup {NoStatus}

ImplementsLog == Log!Spec

(* What the documentation promises and the store does not keep             *)

\* "A crash before publication leaves no authoritative transition" and the run
\* stays usable: no dead process makes the journal unreadable.
CrashLeavesRunReadable == (\A p \in Procs : pc[p] = "idle") => ~temp

\* "A crash after transaction publication can be repaired": a published
\* transition can be reached by a later command.
PublishedRunIsFound ==
    Revision > 0 /\ (\A p \in Procs : pc[p] = "idle") => disk["run"] # Absent

\* The reserved revisions keep the run readable.
FullJournalIsReadable == FileCount <= FileLimit

=============================================================================
