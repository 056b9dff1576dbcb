--------------------------- MODULE RunLedgerProofs ---------------------------
(***************************************************************************)
(* Theorems about RunLedger, for every set of processes and commands and   *)
(* for every journal capacity.                                             *)
(***************************************************************************)
EXTENDS RunLedger, WellFoundedInduction, TLAPS

\* Whoever works on the replayed state holds the lock, and nobody else does.
LockInv == \A p \in Procs : pc[p] \in Working <=> lock = p

\* What a process stages was decided on; what it projects is published.
StagedInv ==
    \A p \in Procs :
        /\ pc[p] # "idle" => op[p] \in Commands \cup {Snapshot}
        /\ pc[p] \in {"rename", "project"} => op[p] \in Commands
        /\ pc[p] = "rename" => /\ ~Exhausted(op[p], base[p])
                               /\ Prior(op[p], base[p]) = {}
                               /\ Admissible(op[p], base[p])
        /\ pc[p] = "project" => /\ Revision = base[p] + 1
                                /\ journal[Revision].cmd = op[p]

\* The part of the invariant that is about the processes.
ProcInv == TypeOK /\ LockInv /\ DecidesOnWholeJournal /\ StagedInv

-----------------------------------------------------------------------------
(* Lemmas about the operators                                              *)

LEMMA BaseFilesType == BaseFiles \in File
  BY DEF BaseFiles, File, Absent

\* Every revision in the journal has a projection of every path and a status.
LEMMA FilesType ==
    ASSUME journal \in Seq(Entry), NEW r \in 0..Revision
    PROVE  FilesAt(r) \in File
  <1>1. CASE r = 0
    BY <1>1, BaseFilesType DEF FilesAt
  <1>2. CASE r # 0
    <2>1. r \in 1..Len(journal)
      BY <1>2 DEF Revision
    <2>2. journal[r] \in Entry
      BY <2>1
    <2> QED BY <1>2, <2>2 DEF FilesAt, Entry
  <1> QED BY <1>1, <1>2

LEMMA AppliedType ==
    ASSUME journal \in Seq(Entry), NEW r \in 0..Revision, NEW c
    PROVE  Applied(c, r) \in File
  <1>1. r \in Nat /\ FilesAt(r) \in File
    BY FilesType DEF Revision
  <1> QED BY <1>1 DEF Applied, File

LEMMA TargetType ==
    ASSUME NEW s, NEW c \in Command, Legal(s, c)
    PROVE  Target(c) \in Status
  <1>1. CASE c.kind = "finalize"
    BY <1>1 DEF Legal, Target, Final, Status, Ordinary
  <1>2. CASE c.kind # "finalize"
    BY <1>2 DEF Target, Status
  <1> QED BY <1>1, <1>2

LEMMA SnapshotIsNoCommand ==
    /\ Snapshot \notin Command
    /\ NoOp \notin Command
    /\ Snapshot # NoOp
  <1>1. \A c \in Command : c.kind \in Kinds
    BY DEF Command
  <1>2. Snapshot.kind \notin Kinds /\ NoOp.kind \notin Kinds /\ Snapshot.kind # NoOp.kind
    BY DEF Snapshot, NoOp, Kinds
  <1> QED BY <1>1, <1>2

\* The decisions look at the journal and at nothing else.
LEMMA DecisionsFrame ==
    ASSUME journal' = journal, legacy' = legacy
    PROVE  /\ Revision' = Revision
           /\ \A r : FilesAt(r)' = FilesAt(r) /\ StatusAt(r)' = StatusAt(r)
           /\ \A c, r : Prior(c, r)' = Prior(c, r)
           /\ \A c, r : Admissible(c, r)' = Admissible(c, r)
  BY DEF Revision, FilesAt, StatusAt, BaseFiles, Prior, Admissible,
         EverWritten, FreeAttempts

\* A published transaction leaves the earlier revisions as they were.
LEMMA AppendFrame ==
    ASSUME journal \in Seq(Entry), NEW e \in Entry,
           journal' = Append(journal, e), legacy' = legacy
    PROVE  /\ Revision \in Nat
           /\ Revision' = Revision + 1
           /\ \A r \in 1..Revision : journal'[r] = journal[r]
           /\ journal'[Revision + 1] = e
           /\ \A r \in 0..Revision : FilesAt(r)' = FilesAt(r) /\ StatusAt(r)' = StatusAt(r)
           /\ \A r : r = Revision + 1 => FilesAt(r)' = e.files /\ StatusAt(r)' = e.status
  <1>1. /\ Revision \in Nat
        /\ Revision' = Revision + 1
        /\ \A r \in 1..Revision : journal'[r] = journal[r]
        /\ journal'[Revision + 1] = e
    BY DEF Revision
  <1>2. BaseFiles' = BaseFiles
    BY DEF BaseFiles
  <1>3. ASSUME NEW r \in 0..Revision
        PROVE  FilesAt(r)' = FilesAt(r) /\ StatusAt(r)' = StatusAt(r)
    <2>1. CASE r = 0
      BY <2>1, <1>2 DEF FilesAt, StatusAt
    <2>2. CASE r # 0
      <3>1. r \in 1..Revision
        BY <1>1, <2>2
      <3>2. journal'[r] = journal[r]
        BY ONLY <1>1, <3>1
      <3> QED BY ONLY <3>2, <2>2 DEF FilesAt, StatusAt
    <2> QED BY <2>1, <2>2
  <1>4. ASSUME NEW r, r = Revision + 1
        PROVE  FilesAt(r)' = e.files /\ StatusAt(r)' = e.status
    <2>1. r # 0 /\ journal'[r] = e
      BY ONLY <1>1, <1>4
    <2> QED BY ONLY <2>1 DEF FilesAt, StatusAt
  <1> QED BY <1>1, <1>3, <1>4

-----------------------------------------------------------------------------
(* The processes                                                           *)

LEMMA ProcInit == Init => ProcInv
  <1> SUFFICES ASSUME Init PROVE ProcInv
    OBVIOUS
  <1>1. BaseFiles \in File
    BY BaseFilesType
  <1>2. TypeOK
    <2>1. dir \in {"absent", "run", "journal"} /\ legacy \in Status \cup {NoStatus}
      BY ConstantsAssumption DEF Init
    <2>2. journal \in Seq(Entry) /\ disk \in File
      BY <1>1 DEF Init
    <2>3. /\ op \in [Procs -> Commands \cup {Snapshot, NoOp}]
          /\ base \in [Procs -> Nat]
          /\ todo \in [Procs -> SUBSET Paths]
      BY DEF Init
    <2>4. pc \in [Procs -> {"idle", "lock"} \cup Working]
      BY DEF Init
    <2> QED BY <2>1, <2>2, <2>3, <2>4 DEF Init, TypeOK
  <1>3. LockInv
    BY ConstantsAssumption DEF Init, LockInv, Working
  <1>4. DecidesOnWholeJournal
    BY DEF Init, DecidesOnWholeJournal
  <1>5. StagedInv
    BY DEF Init, StagedInv
  <1> QED BY <1>2, <1>3, <1>4, <1>5 DEF ProcInv

\* A process that leaves, for whatever reason, disturbs no other.
LEMMA LeaveKeeps ==
    ASSUME ProcInv, NEW p \in Procs, Leave(p),
           UNCHANGED <<dir, legacy, anchored, journal>>,
           disk' = disk, temp' \in BOOLEAN,
           acks' \subseteq [cmd: Command, rev: Nat]
    PROVE  ProcInv'
  <1>1. TypeOK'
    BY DEF ProcInv, TypeOK, Leave
  <1>2. LockInv'
    BY ConstantsAssumption DEF ProcInv, TypeOK, LockInv, Leave, Working
  <1>3. DecidesOnWholeJournal'
    BY DecisionsFrame DEF ProcInv, TypeOK, DecidesOnWholeJournal, Leave
  <1>4. StagedInv'
    BY DecisionsFrame DEF ProcInv, TypeOK, StagedInv, Leave, Exhausted
  <1> QED BY <1>1, <1>2, <1>3, <1>4 DEF ProcInv

\* Taking a command: the process waits for the lock or runs ahead under it.
LEMMA BeginKeeps ==
    ASSUME ProcInv, NEW p \in Procs, NEW c \in Commands \cup {Snapshot},
           Begin(p, c), dir' \in {dir, "run"}
    PROVE  ProcInv'
  <1>1. TypeOK'
    BY DEF ProcInv, TypeOK, Begin
  <1>2. LockInv'
    BY DEF ProcInv, TypeOK, LockInv, Begin, Working
  <1>3. DecidesOnWholeJournal'
    BY DecisionsFrame DEF ProcInv, TypeOK, DecidesOnWholeJournal, Begin
  <1>4. StagedInv'
    BY DecisionsFrame DEF ProcInv, TypeOK, StagedInv, Begin, Exhausted
  <1> QED BY <1>1, <1>2, <1>3, <1>4 DEF ProcInv

\* The only step that changes the journal.
LEMMA PublishKeeps ==
    ASSUME ProcInv, NEW p \in Procs, Publish(p)
    PROVE  ProcInv'
  <1> DEFINE c == op[p]
             r == base[p]
             e == [cmd |-> c, status |-> Target(c), files |-> Applied(c, r)]
  <1>1. /\ pc[p] = "rename" /\ r = Revision /\ r \in Nat
        /\ c \in Commands /\ c \in Command
        /\ Admissible(c, r)
    BY ConstantsAssumption DEF ProcInv, TypeOK, StagedInv, DecidesOnWholeJournal, Publish
  <1>2. e \in Entry
    <2>1. Target(c) \in Status
      BY <1>1, TargetType DEF Admissible
    <2>2. Applied(c, r) \in File
      BY <1>1, AppliedType DEF ProcInv, TypeOK, Revision
    <2> QED BY <1>1, <2>1, <2>2 DEF Entry
  <1>3. journal' = Append(journal, e) /\ legacy' = legacy
    BY <1>1 DEF Publish, Installed
  <1>4. /\ Revision' = Revision + 1
        /\ journal'[Revision + 1] = e
    BY <1>2, <1>3, AppendFrame DEF ProcInv, TypeOK
  <1>5. TypeOK'
    <2>1. journal' \in Seq(Entry)
      BY <1>2, <1>3 DEF ProcInv, TypeOK
    <2>2. Touched(c, r) \in SUBSET Paths
      BY DEF Touched
    <2> QED BY <2>1, <2>2 DEF ProcInv, TypeOK, Publish, Working
  <1>6. LockInv'
    BY <1>1 DEF ProcInv, TypeOK, LockInv, Publish, Working
  <1>7. \A q \in Procs : q # p => pc[q] \notin Working
    BY <1>1 DEF ProcInv, LockInv, Working
  <1>8. DecidesOnWholeJournal'
    BY <1>1, <1>7 DEF ProcInv, TypeOK, DecidesOnWholeJournal, Publish, Working
  <1>9. StagedInv'
    <2>1. /\ pc' = [pc EXCEPT ![p] = "project"]
          /\ op' = op /\ base' = base
      BY DEF Publish
    <2>2. journal'[Revision'].cmd = op[p] /\ Revision' = base[p] + 1
      BY <1>1, <1>4
    <2> QED BY <1>1, <1>7, <2>1, <2>2 DEF ProcInv, TypeOK, StagedInv, Working
  <1> QED BY <1>5, <1>6, <1>8, <1>9 DEF ProcInv

LEMMA ProcStep == ProcInv /\ [Next]_vars => ProcInv'
  <1> SUFFICES ASSUME ProcInv, [Next]_vars PROVE ProcInv'
    OBVIOUS
  <1> USE DEF store, local
  <1>0. CASE UNCHANGED vars
    BY <1>0, DecisionsFrame DEF vars, ProcInv, TypeOK, LockInv, DecidesOnWholeJournal,
                                StagedInv, Exhausted
  <1>1. ASSUME NEW p \in Procs, BeginInitialize(p) PROVE ProcInv'
    BY <1>1, BeginKeeps DEF BeginInitialize
  <1>2. ASSUME NEW p \in Procs, BeginMutation(p) PROVE ProcInv'
    BY <1>2, BeginKeeps DEF BeginMutation
  <1>3. ASSUME NEW p \in Procs, BeginSnapshot(p) PROVE ProcInv'
    BY <1>3, BeginKeeps DEF BeginSnapshot
  <1>4. ASSUME NEW p \in Procs, Acquire(p) PROVE ProcInv'
    <2>1. TypeOK'
      BY <1>4 DEF ProcInv, TypeOK, Acquire, Working
    <2>2. LockInv'
      BY <1>4, ConstantsAssumption DEF ProcInv, TypeOK, LockInv, Acquire, Working
    <2>3. DecidesOnWholeJournal'
      BY <1>4, DecisionsFrame DEF ProcInv, TypeOK, DecidesOnWholeJournal, Acquire
    <2>4. StagedInv'
      BY <1>4, DecisionsFrame DEF ProcInv, TypeOK, StagedInv, Acquire, Exhausted
    <2> QED BY <2>1, <2>2, <2>3, <2>4 DEF ProcInv
  <1>5. ASSUME NEW p \in Procs, TimeOut(p) PROVE ProcInv'
    BY <1>5, LeaveKeeps DEF TimeOut, ProcInv, TypeOK
  <1>6. ASSUME NEW p \in Procs, LoadFails(p) PROVE ProcInv'
    BY <1>6, LeaveKeeps DEF LoadFails, ProcInv, TypeOK
  <1>7. ASSUME NEW p \in Procs, StageAnchor(p) PROVE ProcInv'
    <2>1. TypeOK'
      BY <1>7 DEF ProcInv, TypeOK, StageAnchor, Working
    <2>2. LockInv'
      BY <1>7 DEF ProcInv, TypeOK, LockInv, StageAnchor, Working
    <2>3. DecidesOnWholeJournal'
      BY <1>7, DecisionsFrame DEF ProcInv, TypeOK, DecidesOnWholeJournal, StageAnchor
    <2>4. StagedInv'
      BY <1>7, DecisionsFrame DEF ProcInv, TypeOK, StagedInv, StageAnchor, Exhausted
    <2> QED BY <2>1, <2>2, <2>3, <2>4 DEF ProcInv
  <1>8. ASSUME NEW p \in Procs, PublishAnchor(p) PROVE ProcInv'
    <2>1. TypeOK'
      BY <1>8 DEF ProcInv, TypeOK, PublishAnchor, Working
    <2>2. LockInv'
      BY <1>8 DEF ProcInv, TypeOK, LockInv, PublishAnchor, Working
    <2>3. DecidesOnWholeJournal'
      BY <1>8, DecisionsFrame DEF ProcInv, TypeOK, DecidesOnWholeJournal, PublishAnchor
    <2>4. StagedInv'
      BY <1>8, DecisionsFrame DEF ProcInv, TypeOK, StagedInv, PublishAnchor, Exhausted
    <2> QED BY <2>1, <2>2, <2>3, <2>4 DEF ProcInv
  <1>9. ASSUME NEW p \in Procs, Load(p) PROVE ProcInv'
    <2>1. TypeOK'
      BY <1>9 DEF ProcInv, TypeOK, Load, Working, Revision
    <2>2. LockInv'
      BY <1>9 DEF ProcInv, TypeOK, LockInv, Load, Working
    <2>3. DecidesOnWholeJournal'
      BY <1>9, DecisionsFrame DEF ProcInv, TypeOK, DecidesOnWholeJournal, Load
    <2>4. StagedInv'
      BY <1>9, DecisionsFrame DEF ProcInv, TypeOK, StagedInv, Load, Exhausted
    <2> QED BY <2>1, <2>2, <2>3, <2>4 DEF ProcInv
  <1>10. ASSUME NEW p \in Procs, Repair(p) PROVE ProcInv'
    <2>1. FilesAt(base[p]) \in File
      BY <1>10, FilesType DEF ProcInv, TypeOK, DecidesOnWholeJournal, Repair, Revision
    <2>2. TypeOK'
      BY <1>10, <2>1 DEF ProcInv, TypeOK, Repair, File
    <2>3. LockInv'
      BY <1>10 DEF ProcInv, LockInv, Repair
    <2>4. DecidesOnWholeJournal'
      BY <1>10, DecisionsFrame DEF ProcInv, DecidesOnWholeJournal, Repair
    <2>5. StagedInv'
      BY <1>10, DecisionsFrame DEF ProcInv, StagedInv, Repair, Exhausted
    <2> QED BY <2>2, <2>3, <2>4, <2>5 DEF ProcInv
  <1>11. ASSUME NEW p \in Procs, Repaired(p) PROVE ProcInv'
    <2>1. TypeOK'
      BY <1>11 DEF ProcInv, TypeOK, Repaired, Working
    <2>2. LockInv'
      BY <1>11 DEF ProcInv, TypeOK, LockInv, Repaired, Working
    <2>3. DecidesOnWholeJournal'
      BY <1>11, DecisionsFrame DEF ProcInv, TypeOK, DecidesOnWholeJournal, Repaired
    <2>4. StagedInv'
      BY <1>11, DecisionsFrame DEF ProcInv, TypeOK, StagedInv, Repaired, Exhausted
    <2> QED BY <2>1, <2>2, <2>3, <2>4 DEF ProcInv
  <1>12. ASSUME NEW p \in Procs, ReplySnapshot(p) PROVE ProcInv'
    BY <1>12, LeaveKeeps DEF ReplySnapshot, ProcInv, TypeOK
  <1>13. ASSUME NEW p \in Procs, Replay(p) PROVE ProcInv'
    <2>1. op[p] \in Command
      BY <1>13, ConstantsAssumption DEF Replay, ProcInv, StagedInv
    <2>2. acks' \subseteq [cmd: Command, rev: Nat]
      BY <1>13, <2>1 DEF Replay, Acknowledge, Prior, ProcInv, TypeOK
    <2> QED BY <1>13, <2>2, LeaveKeeps DEF Replay, ProcInv, TypeOK
  <1>14. ASSUME NEW p \in Procs, Refuse(p) PROVE ProcInv'
    BY <1>14, LeaveKeeps DEF Refuse, ProcInv, TypeOK
  <1>15. ASSUME NEW p \in Procs, Stage(p) PROVE ProcInv'
    <2>1. TypeOK'
      BY <1>15 DEF ProcInv, TypeOK, Stage, Working
    <2>2. LockInv'
      BY <1>15 DEF ProcInv, TypeOK, LockInv, Stage, Working
    <2>3. DecidesOnWholeJournal'
      BY <1>15, DecisionsFrame DEF ProcInv, TypeOK, DecidesOnWholeJournal, Stage
    <2>4. StagedInv'
      BY <1>15, DecisionsFrame DEF ProcInv, TypeOK, StagedInv, Stage, Exhausted
    <2> QED BY <2>1, <2>2, <2>3, <2>4 DEF ProcInv
  <1>16. ASSUME NEW p \in Procs, StageFails(p) PROVE ProcInv'
    BY <1>16, LeaveKeeps DEF StageFails, ProcInv, TypeOK
  <1>17. ASSUME NEW p \in Procs, Publish(p) PROVE ProcInv'
    BY <1>17, PublishKeeps
  <1>18. ASSUME NEW p \in Procs, Project(p) PROVE ProcInv'
    <2>1. FilesAt(base[p] + 1) \in File
      BY <1>18, FilesType DEF ProcInv, TypeOK, StagedInv, Project, Revision
    <2>2. TypeOK'
      BY <1>18, <2>1 DEF ProcInv, TypeOK, Project, File
    <2>3. LockInv'
      BY <1>18 DEF ProcInv, LockInv, Project
    <2>4. DecidesOnWholeJournal'
      BY <1>18, DecisionsFrame DEF ProcInv, DecidesOnWholeJournal, Project
    <2>5. StagedInv'
      BY <1>18, DecisionsFrame DEF ProcInv, StagedInv, Project, Exhausted
    <2> QED BY <2>2, <2>3, <2>4, <2>5 DEF ProcInv
  <1>19. ASSUME NEW p \in Procs, Reply(p) PROVE ProcInv'
    <2>1. op[p] \in Command /\ base[p] + 1 \in Nat
      BY <1>19, ConstantsAssumption DEF Reply, ProcInv, TypeOK, StagedInv
    <2>2. acks' \subseteq [cmd: Command, rev: Nat]
      BY <1>19, <2>1 DEF Reply, Acknowledge, ProcInv, TypeOK
    <2> QED BY <1>19, <2>2, LeaveKeeps DEF Reply, ProcInv, TypeOK
  <1>20. ASSUME NEW p \in Procs, Crash(p) PROVE ProcInv'
    BY <1>20, LeaveKeeps DEF Crash, ProcInv, TypeOK
  <1> QED
    BY <1>0, <1>1, <1>2, <1>3, <1>4, <1>5, <1>6, <1>7, <1>8, <1>9, <1>10, <1>11,
       <1>12, <1>13, <1>14, <1>15, <1>16, <1>17, <1>18, <1>19, <1>20
    DEF Next, Step

\* The processes keep to the run lock and to what they replayed.
THEOREM ProcInvariant == Spec => []ProcInv
  <1>1. Init => ProcInv
    BY ProcInit
  <1>2. ProcInv /\ [Next]_vars => ProcInv'
    BY ProcStep
  <1> QED BY <1>1, <1>2, PTL DEF Spec

\* Every variable keeps its type.
THEOREM TypeCorrect == Spec => []TypeOK
  <1>1. ProcInv => TypeOK
    BY DEF ProcInv
  <1> QED BY <1>1, ProcInvariant, PTL

\* No lost update: commit_command decides on, and publishes over, the whole
\* journal, because the run lock is held from replay to reply.
THEOREM NoLostUpdate == Spec => []DecidesOnWholeJournal
  <1>1. ProcInv => DecidesOnWholeJournal
    BY DEF ProcInv
  <1> QED BY <1>1, ProcInvariant, PTL

-----------------------------------------------------------------------------
(* What the journal says                                                   *)

\* The properties of RunLedger that are about the committed transitions.
JournalInv ==
    /\ AckedIsCommitted
    /\ OneTransitionPerIdentity
    /\ TerminalIsLast
    /\ ReserveSuffices

\* Only a publication changes what JournalInv looks at.
LEMMA JournalFrame ==
    ASSUME JournalInv, journal' = journal, legacy' = legacy,
           \A a \in acks' : a \in acks \/ ( a.rev \in DOMAIN journal
                                           /\ journal[a.rev].cmd = a.cmd )
    PROVE  JournalInv'
  <1>1. AckedIsCommitted'
    BY DEF JournalInv, AckedIsCommitted
  <1>2. OneTransitionPerIdentity'
    BY DEF JournalInv, OneTransitionPerIdentity
  <1>3. TerminalIsLast'
    BY DecisionsFrame DEF JournalInv, TerminalIsLast
  <1>4. ReserveSuffices'
    BY DecisionsFrame DEF JournalInv, ReserveSuffices
  <1> QED BY <1>1, <1>2, <1>3, <1>4 DEF JournalInv

LEMMA PublishKeepsJournal ==
    ASSUME ProcInv, JournalInv, NEW p \in Procs, Publish(p)
    PROVE  JournalInv'
  <1> DEFINE c == op[p]
             r == base[p]
             e == [cmd |-> c, status |-> Target(c), files |-> Applied(c, r)]
  <1>1. /\ r = Revision /\ r \in Nat
        /\ c \in Command
        /\ ~Exhausted(c, r) /\ Prior(c, r) = {} /\ Admissible(c, r)
    BY ConstantsAssumption DEF ProcInv, TypeOK, StagedInv, DecidesOnWholeJournal, Publish
  <1>2. e \in Entry
    <2>1. Target(c) \in Status
      BY <1>1, TargetType DEF Admissible
    <2>2. Applied(c, r) \in File
      BY <1>1, AppliedType DEF ProcInv, TypeOK, Revision
    <2> QED BY <1>1, <2>1, <2>2 DEF Entry
  <1>3. journal' = Append(journal, e) /\ legacy' = legacy
    BY <1>1 DEF Publish, Installed
  <1>4. /\ Revision' = r + 1
        /\ \A i \in 1..r : journal'[i] = journal[i]
        /\ journal'[r + 1] = e
        /\ \A i \in 0..r : StatusAt(i)' = StatusAt(i)
        /\ \A i : i = r + 1 => StatusAt(i)' = Target(c)
    BY <1>1, <1>2, <1>3, AppendFrame DEF ProcInv, TypeOK
  <1>5. DOMAIN journal = 1..r /\ DOMAIN journal' = 1..(r + 1)
    BY <1>1, <1>2, <1>3 DEF ProcInv, TypeOK, Revision
  <1>6. AckedIsCommitted'
    <2>1. acks' = acks
      BY DEF Publish
    <2> QED BY ONLY <2>1, <1>1, <1>4, <1>5, JournalInv DEF JournalInv, AckedIsCommitted
  <1>7. OneTransitionPerIdentity'
    <2>1. \A i \in 1..r : c.key # NoKey => journal[i].cmd.key # c.key
      BY <1>1 DEF Prior
    <2> QED BY ONLY <2>1, <1>1, <1>4, <1>5, JournalInv
            DEF JournalInv, OneTransitionPerIdentity
  <1>8. TerminalIsLast'
    <2>1. Legal(StatusAt(r), c)
      BY <1>1 DEF Admissible
    <2>2. StatusAt(r) \notin Terminal
      BY <2>1 DEF Legal, Terminal, NoStatus
    <2>3. Target(c) \in Terminal => c.kind = "finalize"
      BY DEF Target, Terminal
    <2>4. \A i \in 0..r : StatusAt(i) \notin Terminal
      BY <1>1, <2>2 DEF JournalInv, TerminalIsLast
    <2> SUFFICES ASSUME NEW i \in 0..(r + 1), StatusAt(i)' \in Terminal
                 PROVE  i = r + 1 /\ journal'[i].cmd.kind = "finalize"
      BY <1>1, <1>4 DEF TerminalIsLast
    <2>5. i = r + 1
      BY ONLY <1>1, <1>4, <2>4, StatusAt(i)' \in Terminal, i \in 0..(r + 1)
    <2> QED BY ONLY <1>4, <2>3, <2>5, StatusAt(i)' \in Terminal
  <1>9. ReserveSuffices'
    <2> SUFFICES ASSUME Target(c) = "running" PROVE r + 3 <= FileLimit
      BY <1>1, <1>4 DEF ReserveSuffices
    <2>1. c.kind \notin {"interrupt", "finalize"}
      BY <1>1 DEF Target, Admissible, Legal, Final, Ordinary
    <2> QED BY <1>1, <2>1, LimitsAssumption DEF Exhausted
  <1> QED BY <1>6, <1>7, <1>8, <1>9 DEF JournalInv

LEMMA JournalInit == Init => JournalInv
  <1> SUFFICES ASSUME Init PROVE JournalInv
    OBVIOUS
  <1>1. Revision = 0 /\ journal = <<>>
    BY DEF Init, Revision
  <1>2. ReserveSuffices
    BY <1>1, LimitsAssumption DEF ReserveSuffices
  <1>3. TerminalIsLast
    BY <1>1 DEF TerminalIsLast
  <1> QED BY <1>1, <1>2, <1>3
          DEF Init, JournalInv, AckedIsCommitted, OneTransitionPerIdentity

LEMMA JournalStep == ProcInv /\ JournalInv /\ [Next]_vars => JournalInv'
  <1> SUFFICES ASSUME ProcInv, JournalInv, [Next]_vars PROVE JournalInv'
    OBVIOUS
  <1>1. ASSUME NEW p \in Procs, Publish(p) PROVE JournalInv'
    BY <1>1, PublishKeepsJournal
  <1>2. ASSUME NEW p \in Procs, Replay(p) PROVE JournalInv'
    <2>1. PICK i \in Prior(op[p], base[p]) :
              journal[i].cmd = op[p] /\ Acknowledge(op[p], i)
      BY <1>2 DEF Replay
    <2>2. i \in DOMAIN journal
      BY <1>2, <2>1 DEF Prior, Replay, ProcInv, TypeOK, DecidesOnWholeJournal, Revision
    <2> QED BY <1>2, <2>1, <2>2, JournalFrame DEF Replay, Acknowledge, store
  <1>3. ASSUME NEW p \in Procs, Reply(p) PROVE JournalInv'
    <2>1. base[p] + 1 \in DOMAIN journal /\ journal[base[p] + 1].cmd = op[p]
      BY <1>3 DEF Reply, ProcInv, TypeOK, StagedInv, Revision
    <2> QED BY <1>3, <2>1, JournalFrame DEF Reply, Acknowledge, store
  <1>4. CASE journal' = journal /\ legacy' = legacy /\ acks' = acks
    BY <1>4, JournalFrame
  <1> QED
    BY <1>1, <1>2, <1>3, <1>4
    DEF Next, Step, vars, store, BeginInitialize, BeginMutation, BeginSnapshot, Begin,
        Acquire, TimeOut, LoadFails, StageAnchor, PublishAnchor, Load, Repair,
        Repaired, ReplySnapshot, Refuse, Stage, StageFails, Project, Crash

\* The committed transitions keep to what callers are promised.
THEOREM JournalInvariant == Spec => []JournalInv
  <1>1. Init => ProcInv /\ JournalInv
    BY ProcInit, JournalInit
  <1>2. ProcInv /\ JournalInv /\ [Next]_vars => ProcInv' /\ JournalInv'
    BY ProcStep, JournalStep
  <1> QED BY <1>1, <1>2, PTL DEF Spec

\* A success report is never taken back, whoever crashes after it.
THEOREM AcknowledgedStays == Spec => []AckedIsCommitted
  <1>1. JournalInv => AckedIsCommitted
    BY DEF JournalInv
  <1> QED BY <1>1, JournalInvariant, PTL

\* An operation identity is committed at most once, whoever retries it.
THEOREM IdentityCommitsOnce == Spec => []OneTransitionPerIdentity
  <1>1. JournalInv => OneTransitionPerIdentity
    BY DEF JournalInv
  <1> QED BY <1>1, JournalInvariant, PTL

\* No transition follows a failed or completed status.
THEOREM TerminalStays == Spec => []TerminalIsLast
  <1>1. JournalInv => TerminalIsLast
    BY DEF JournalInv
  <1> QED BY <1>1, JournalInvariant, PTL

\* A running run always has the two revisions it takes to interrupt and
\* finalize it.
THEOREM ReserveIsKept == Spec => []ReserveSuffices
  <1>1. JournalInv => ReserveSuffices
    BY DEF JournalInv
  <1> QED BY <1>1, JournalInvariant, PTL

-----------------------------------------------------------------------------
(* The projections a reader finds on disk                                  *)

\* Every transaction rewrites run.json, so its content names its revision.
RunIsRevision == \A i \in 1..Revision : FilesAt(i)["run"] = i

\* What is not on a process's list of files to rewrite is up to date already.
TodoInv ==
    \A p \in Procs :
        /\ pc[p] = "repair" => \A q \in Paths \ todo[p] : disk[q] = FilesAt(base[p])[q]
        /\ pc[p] \in {"decide", "rename"} => disk = FilesAt(base[p])
        /\ pc[p] = "project" => \A q \in Paths \ todo[p] : disk[q] = FilesAt(Revision)[q]

DiskInv == RunIsRevision /\ TodoInv /\ DiskIsCommittedBoundary /\ RunJsonNeverAhead

LEMMA PathsAndRanks ==
    /\ "run" \in Paths
    /\ "run" \notin Artifacts
    /\ Rank("run") = 4
    /\ \A q \in Paths : Rank(q) \in Nat
  <1>1. "run" \in Paths /\ "run" \notin Artifacts
    BY ConstantsAssumption DEF Paths
  <1>2. \A q \in Paths : Rank(q) \in Nat
    BY DEF Paths, Rank
  <1>3. Rank("run") = 4
    BY <1>1, ConstantsAssumption DEF Rank
  <1> QED BY <1>1, <1>2, <1>3

\* A command never removes run.json and always rewrites it.
LEMMA AppliedRun ==
    ASSUME NEW c \in Command, NEW r
    PROVE  Applied(c, r)["run"] = r + 1
  <1>1. "run" \notin Removed(c, r)
    BY PathsAndRanks DEF Removed, Command
  <1>2. "run" \in Written(c, r)
    BY DEF Written
  <1> QED BY <1>1, <1>2, PathsAndRanks DEF Applied

\* A file the command does not touch keeps the content it had.
LEMMA AppliedUntouched ==
    ASSUME NEW c, NEW r, NEW q \in Paths \ Touched(c, r)
    PROVE  Applied(c, r)[q] = FilesAt(r)[q]
  BY DEF Applied, Touched

\* run.json only grows from revision to revision.
LEMMA RunGrows ==
    ASSUME TypeOK, RunIsRevision, NEW r \in 0..Revision
    PROVE  /\ Revision \in Nat
           /\ FilesAt(r)["run"] \in Nat \cup {Absent}
           /\ FilesAt(r)["run"] <= r
           /\ FilesAt(r)["run"] <= FilesAt(Revision)["run"]
  <1>1. Revision \in Nat
    BY DEF Revision, TypeOK
  <1>2. FilesAt(0)["run"] \in {0, Absent}
    BY PathsAndRanks DEF FilesAt, BaseFiles
  <1>3. CASE Revision = 0
    BY <1>1, <1>2, <1>3 DEF Absent
  <1>4. CASE Revision # 0
    <2>1. FilesAt(Revision)["run"] = Revision
      BY <1>1, <1>4 DEF RunIsRevision
    <2>2. CASE r = 0
      BY <1>1, <1>2, <2>1, <2>2 DEF Absent
    <2>3. CASE r # 0
      BY <1>1, <2>1, <2>3 DEF RunIsRevision
    <2> QED BY <2>2, <2>3
  <1> QED BY <1>3, <1>4

\* One file is rewritten with its content at the newest revision.
LEMMA RewriteKeeps ==
    ASSUME TypeOK, RunIsRevision, DiskIsCommittedBoundary, RunJsonNeverAhead,
           journal' = journal, legacy' = legacy,
           NEW q \in Paths, NEW S \in SUBSET Paths,
           disk' = [disk EXCEPT ![q] = FilesAt(Revision)[q]],
           \A s \in Paths \ S : disk[s] = FilesAt(Revision)[s],
           InOrder(q, S) \/ FilesAt(Revision)[q] = Absent
    PROVE  DiskIsCommittedBoundary' /\ RunJsonNeverAhead'
  <1>1. /\ Revision' = Revision /\ Revision \in Nat
        /\ \A r : FilesAt(r)' = FilesAt(r)
    BY DecisionsFrame, RunGrows DEF TypeOK, Revision
  <1>2. disk \in [Paths -> Nat \cup {Absent}]
    BY DEF TypeOK, File
  <1>3. DiskIsCommittedBoundary'
    BY <1>1, <1>2 DEF DiskIsCommittedBoundary
  <1>4. disk["run"] <= Revision /\ FilesAt(Revision)["run"] <= Revision
    <2>1. PICK r \in 0..Revision : disk["run"] = FilesAt(r)["run"]
      BY PathsAndRanks DEF DiskIsCommittedBoundary
    <2> QED BY <1>1, <2>1, RunGrows DEF Absent
  <1>5. RunJsonNeverAhead'
    <2> SUFFICES ASSUME NEW s \in Paths, Rank(s) < Rank("run"), disk'["run"] # Absent
                 PROVE  \E r \in disk'["run"]..Revision : disk'[s] = FilesAt(r)[s]
      BY <1>1 DEF RunJsonNeverAhead, Rank
    <2>1. s # "run" /\ "run" \in Paths /\ disk'["run"] \in Nat
      <3>1. FilesAt(Revision)["run"] \in Nat \cup {Absent}
        BY <1>1, RunGrows
      <3>2. disk'["run"] \in Nat \cup {Absent}
        BY <1>2, <3>1, PathsAndRanks
      <3> QED BY <3>2, PathsAndRanks
    <2>2. CASE q = "run"
      <3>1. disk'["run"] = FilesAt(Revision)["run"]
        BY <1>2, <2>1, <2>2
      <3>2. InOrder(q, S)
        BY <2>2, <3>1
      <3>3. s \notin S
        BY <2>2, <3>2, PathsAndRanks DEF InOrder
      <3>4. disk'[s] = FilesAt(Revision)[s]
        BY <1>2, <2>1, <2>2, <3>3
      <3> QED BY <1>1, <1>4, <2>1, <3>1, <3>4
    <2>3. CASE q = s
      <3>1. disk'[s] = FilesAt(Revision)[s] /\ disk'["run"] = disk["run"]
        BY <1>2, <2>1, <2>3
      <3> QED BY <1>1, <1>4, <2>1, <3>1
    <2>4. CASE q # s /\ q # "run"
      <3>1. disk'[s] = disk[s] /\ disk'["run"] = disk["run"]
        BY <1>2, <2>1, <2>4
      <3> QED BY <3>1 DEF RunJsonNeverAhead
    <2> QED BY <2>2, <2>3, <2>4
  <1> QED BY <1>3, <1>5

LEMMA DiskInit == Init => DiskInv
  <1> SUFFICES ASSUME Init PROVE DiskInv
    OBVIOUS
  <1>1. Revision = 0 /\ disk = FilesAt(0) /\ Revision \in 0..Revision
    BY DEF Init, Revision, FilesAt
  <1>2. DiskIsCommittedBoundary
    BY <1>1 DEF DiskIsCommittedBoundary
  <1>3. RunJsonNeverAhead
    <2>1. disk["run"] \in {0, Absent}
      BY <1>1, PathsAndRanks DEF FilesAt, BaseFiles
    <2> QED BY <1>1, <2>1 DEF RunJsonNeverAhead
  <1>4. RunIsRevision /\ TodoInv
    BY <1>1 DEF Init, RunIsRevision, TodoInv
  <1> QED BY <1>2, <1>3, <1>4 DEF DiskInv

\* Steps that write neither a transaction nor a projection.
LEMMA DiskFrame ==
    ASSUME RunIsRevision, DiskIsCommittedBoundary, RunJsonNeverAhead,
           journal' = journal, legacy' = legacy, disk' = disk
    PROVE  RunIsRevision' /\ DiskIsCommittedBoundary' /\ RunJsonNeverAhead'
  <1>1. Revision' = Revision /\ \A r : FilesAt(r)' = FilesAt(r)
    BY DecisionsFrame
  <1>2. RunIsRevision'
    BY <1>1 DEF RunIsRevision
  <1>3. DiskIsCommittedBoundary'
    BY <1>1 DEF DiskIsCommittedBoundary
  <1>4. RunJsonNeverAhead'
    BY <1>1 DEF RunJsonNeverAhead, Rank
  <1> QED BY <1>2, <1>3, <1>4

LEMMA LeaveKeepsTodo ==
    ASSUME ProcInv, TodoInv, NEW p \in Procs, Leave(p),
           journal' = journal, legacy' = legacy, disk' = disk
    PROVE  TodoInv'
  BY DecisionsFrame DEF ProcInv, TypeOK, TodoInv, Leave

LEMMA PublishKeepsDisk ==
    ASSUME ProcInv, DiskInv, NEW p \in Procs, Publish(p)
    PROVE  DiskInv'
  <1> DEFINE c == op[p]
             r == base[p]
             e == [cmd |-> c, status |-> Target(c), files |-> Applied(c, r)]
  <1>1. /\ r = Revision /\ r \in Nat
        /\ c \in Command
        /\ Admissible(c, r)
        /\ pc[p] = "rename"
    BY ConstantsAssumption DEF ProcInv, TypeOK, StagedInv, DecidesOnWholeJournal, Publish
  <1>2. e \in Entry
    <2>1. Target(c) \in Status
      BY <1>1, TargetType DEF Admissible
    <2>2. Applied(c, r) \in File
      BY <1>1, AppliedType DEF ProcInv, TypeOK, Revision
    <2> QED BY <1>1, <2>1, <2>2 DEF Entry
  <1>3. journal' = Append(journal, e) /\ legacy' = legacy /\ disk' = disk
    BY <1>1 DEF Publish, Installed
  <1>4. /\ Revision' = r + 1
        /\ \A i \in 0..r : FilesAt(i)' = FilesAt(i)
        /\ \A i : i = r + 1 => FilesAt(i)' = Applied(c, r)
    BY <1>1, <1>2, <1>3, AppendFrame DEF ProcInv, TypeOK
  <1>5. RunIsRevision'
    <2> SUFFICES ASSUME NEW i \in 1..(r + 1) PROVE FilesAt(i)'["run"] = i
      BY <1>4 DEF RunIsRevision
    <2>1. CASE i = r + 1
      BY <1>1, <1>4, <2>1, AppliedRun
    <2>2. CASE i # r + 1
      <3>1. i \in 1..Revision /\ i \in 0..r
        BY <1>1, <2>2
      <3> QED BY ONLY <3>1, <1>4, DiskInv DEF DiskInv, RunIsRevision
    <2> QED BY <2>1, <2>2
  <1>6. DiskIsCommittedBoundary'
    <2> SUFFICES ASSUME NEW q \in Paths
                 PROVE  \E i \in 0..(r + 1) : disk[q] = FilesAt(i)'[q]
      BY <1>3, <1>4 DEF DiskIsCommittedBoundary
    <2>1. PICK i \in 0..r : disk[q] = FilesAt(i)[q]
      BY <1>1 DEF DiskInv, DiskIsCommittedBoundary
    <2> QED BY ONLY <1>1, <1>4, <2>1
  <1>7. RunJsonNeverAhead'
    <2> SUFFICES ASSUME NEW q \in Paths, Rank(q) < Rank("run"), disk["run"] # Absent
                 PROVE  \E i \in disk["run"]..(r + 1) : disk[q] = FilesAt(i)'[q]
      BY <1>3, <1>4 DEF RunJsonNeverAhead, Rank
    <2>1. disk["run"] \in Nat
      BY PathsAndRanks DEF ProcInv, TypeOK, File
    <2>2. PICK i \in disk["run"]..r : disk[q] = FilesAt(i)[q]
      BY <1>1 DEF DiskInv, RunJsonNeverAhead
    <2> QED BY ONLY <1>1, <1>4, <2>1, <2>2
  <1>8. TodoInv'
    <2>1. \A q \in Procs : q # p => pc[q] \notin Working
      BY <1>1 DEF ProcInv, LockInv, Working
    <2>2. \A q \in Paths \ Touched(c, r) : disk[q] = Applied(c, r)[q]
      BY <1>1, AppliedUntouched DEF DiskInv, TodoInv
    <2>3. /\ pc' = [pc EXCEPT ![p] = "project"]
          /\ todo' = [todo EXCEPT ![p] = Touched(c, r)]
      BY DEF Publish
    <2>4. /\ pc'[p] = "project" /\ todo'[p] = Touched(c, r)
          /\ \A q \in Procs : q # p => pc'[q] \notin Working
      BY <2>1, <2>3 DEF ProcInv, TypeOK
    <2>5. \A i : i = Revision' => FilesAt(i)' = Applied(c, r)
      BY <1>4
    <2> QED BY ONLY <1>3, <2>2, <2>4, <2>5 DEF TodoInv, Working
  <1> QED BY <1>5, <1>6, <1>7, <1>8 DEF DiskInv

LEMMA RepairKeepsDisk ==
    ASSUME ProcInv, DiskInv, NEW p \in Procs, Repair(p)
    PROVE  DiskInv'
  <1> USE DEF store
  <1>1. /\ pc[p] = "repair" /\ base[p] = Revision /\ todo[p] \in SUBSET Paths
        /\ journal' = journal /\ legacy' = legacy /\ pc' = pc /\ base' = base
    BY DEF Repair, ProcInv, TypeOK, DecidesOnWholeJournal
  <1>2. PICK q \in todo[p] :
            /\ InOrder(q, todo[p]) \/ FilesAt(Revision)[q] = Absent
            /\ disk' = [disk EXCEPT ![q] = FilesAt(Revision)[q]]
            /\ todo' = [todo EXCEPT ![p] = @ \ {q}]
    BY <1>1 DEF Repair
  <1>3. \A s \in Paths \ todo[p] : disk[s] = FilesAt(Revision)[s]
    BY <1>1 DEF DiskInv, TodoInv
  <1>4. DiskIsCommittedBoundary' /\ RunJsonNeverAhead'
    BY <1>1, <1>2, <1>3, RewriteKeeps DEF ProcInv, DiskInv
  <1>5. RunIsRevision'
    BY <1>1, DecisionsFrame DEF DiskInv, RunIsRevision
  <1>6. TodoInv'
    <2>1. \A o \in Procs : o # p => pc[o] \notin Working
      BY <1>1 DEF ProcInv, LockInv, Working
    <2>2. \A s \in Paths \ todo'[p] : disk'[s] = FilesAt(Revision)[s]
      BY <1>1, <1>2, <1>3 DEF ProcInv, TypeOK, File
    <2>3. \A r : FilesAt(r)' = FilesAt(r)
      BY <1>1, DecisionsFrame
    <2> QED BY ONLY <1>1, <2>1, <2>2, <2>3 DEF TodoInv, Working
  <1> QED BY <1>4, <1>5, <1>6 DEF DiskInv

LEMMA ProjectKeepsDisk ==
    ASSUME ProcInv, DiskInv, NEW p \in Procs, Project(p)
    PROVE  DiskInv'
  <1> USE DEF store
  <1>1. /\ pc[p] = "project" /\ base[p] + 1 = Revision /\ todo[p] \in SUBSET Paths
        /\ journal' = journal /\ legacy' = legacy /\ pc' = pc
    BY DEF Project, ProcInv, TypeOK, StagedInv
  <1>2. PICK q \in todo[p] :
            /\ InOrder(q, todo[p])
            /\ disk' = [disk EXCEPT ![q] = FilesAt(Revision)[q]]
            /\ todo' = [todo EXCEPT ![p] = @ \ {q}]
    BY <1>1 DEF Project
  <1>3. \A s \in Paths \ todo[p] : disk[s] = FilesAt(Revision)[s]
    BY <1>1 DEF DiskInv, TodoInv
  <1>4. DiskIsCommittedBoundary' /\ RunJsonNeverAhead'
    BY <1>1, <1>2, <1>3, RewriteKeeps DEF ProcInv, DiskInv
  <1>5. RunIsRevision'
    BY <1>1, DecisionsFrame DEF DiskInv, RunIsRevision
  <1>6. TodoInv'
    <2>1. \A o \in Procs : o # p => pc[o] \notin Working
      BY <1>1 DEF ProcInv, LockInv, Working
    <2>2. \A s \in Paths \ todo'[p] : disk'[s] = FilesAt(Revision)[s]
      BY <1>1, <1>2, <1>3 DEF ProcInv, TypeOK, File
    <2>3. Revision' = Revision /\ \A r : FilesAt(r)' = FilesAt(r)
      BY <1>1, DecisionsFrame
    <2> QED BY ONLY <1>1, <2>1, <2>2, <2>3 DEF TodoInv, Working
  <1> QED BY <1>4, <1>5, <1>6 DEF DiskInv

LEMMA DiskStep == ProcInv /\ DiskInv /\ [Next]_vars => DiskInv'
  <1> SUFFICES ASSUME ProcInv, DiskInv, [Next]_vars PROVE DiskInv'
    OBVIOUS
  <1> USE DEF store
  <1>1. ASSUME NEW p \in Procs, Publish(p) PROVE DiskInv'
    BY <1>1, PublishKeepsDisk
  <1>2. ASSUME NEW p \in Procs, Repair(p) PROVE DiskInv'
    BY <1>2, RepairKeepsDisk
  <1>3. ASSUME NEW p \in Procs, Project(p) PROVE DiskInv'
    BY <1>3, ProjectKeepsDisk
  <1>4. ASSUME journal' = journal, legacy' = legacy, disk' = disk, TodoInv'
        PROVE  DiskInv'
    BY <1>4, DiskFrame DEF DiskInv
  <1>5. ASSUME NEW p \in Procs, BeginInitialize(p) \/ BeginMutation(p) \/ BeginSnapshot(p)
        PROVE  DiskInv'
    <2>1. PICK c : Begin(p, c)
      BY <1>5 DEF BeginInitialize, BeginMutation, BeginSnapshot
    <2>2. TodoInv'
      BY <2>1, DecisionsFrame DEF DiskInv, TodoInv, ProcInv, TypeOK, Begin
    <2> QED BY <2>1, <1>4, <2>2 DEF Begin
  <1>6. ASSUME NEW p \in Procs, Acquire(p) \/ StageAnchor(p) \/ PublishAnchor(p)
        PROVE  DiskInv'
    <2>1. TodoInv'
      BY <1>6, DecisionsFrame
      DEF DiskInv, TodoInv, ProcInv, TypeOK, Acquire, StageAnchor, PublishAnchor
    <2> QED BY <1>6, <1>4, <2>1 DEF Acquire, StageAnchor, PublishAnchor
  <1>7. ASSUME NEW p \in Procs, Load(p) PROVE DiskInv'
    <2>1. TodoInv'
      BY <1>7, DecisionsFrame DEF DiskInv, TodoInv, ProcInv, TypeOK, Load
    <2> QED BY <1>7, <1>4, <2>1 DEF Load
  <1>8. ASSUME NEW p \in Procs, Repaired(p) PROVE DiskInv'
    <2>1. base[p] = Revision /\ Revision \in Nat
      BY <1>8 DEF ProcInv, DecidesOnWholeJournal, TypeOK, Revision, Repaired
    <2>2. disk \in File /\ FilesAt(base[p]) \in File
      BY <2>1, FilesType DEF ProcInv, TypeOK
    <2>3. disk = FilesAt(base[p])
      BY <1>8, <2>2 DEF DiskInv, TodoInv, Repaired, File
    <2>4. TodoInv'
      BY <1>8, <2>3, DecisionsFrame DEF DiskInv, TodoInv, ProcInv, TypeOK, Repaired
    <2> QED BY <1>8, <1>4, <2>4 DEF Repaired
  <1>9. ASSUME NEW p \in Procs, Stage(p) PROVE DiskInv'
    <2>1. TodoInv'
      BY <1>9, DecisionsFrame DEF DiskInv, TodoInv, ProcInv, TypeOK, Stage
    <2> QED BY <1>9, <1>4, <2>1 DEF Stage
  <1>10. ASSUME NEW p \in Procs,
                \/ TimeOut(p) \/ LoadFails(p) \/ ReplySnapshot(p) \/ Replay(p)
                \/ Refuse(p) \/ StageFails(p) \/ Reply(p) \/ Crash(p)
         PROVE  DiskInv'
    <2>1. Leave(p) /\ journal' = journal /\ legacy' = legacy /\ disk' = disk
      BY <1>10 DEF TimeOut, LoadFails, ReplySnapshot, Replay, Refuse, StageFails,
                   Reply, Crash
    <2> QED BY <2>1, <1>4, LeaveKeepsTodo DEF DiskInv
  <1>11. CASE UNCHANGED vars
    <2>1. TodoInv'
      BY <1>11, DecisionsFrame DEF DiskInv, TodoInv, vars
    <2> QED BY <1>11, <1>4, <2>1 DEF vars
  <1> QED
    BY <1>1, <1>2, <1>3, <1>5, <1>6, <1>7, <1>8, <1>9, <1>10, <1>11 DEF Next, Step

\* The projections keep to the journal.
THEOREM DiskInvariant == Spec => [](ProcInv /\ DiskInv)
  <1>1. Init => ProcInv /\ DiskInv
    BY ProcInit, DiskInit
  <1>2. ProcInv /\ DiskInv /\ [Next]_vars => ProcInv' /\ DiskInv'
    BY ProcStep, DiskStep
  <1> QED BY <1>1, <1>2, PTL DEF Spec

\* A reader that takes no lock finds committed content only.
THEOREM DiskIsCommitted == Spec => []DiskIsCommittedBoundary
  <1>1. DiskInv => DiskIsCommittedBoundary
    BY DEF DiskInv
  <1> QED BY <1>1, DiskInvariant, PTL

\* It never finds a run.json ahead of the files run.json names.
THEOREM RunJsonIsBacked == Spec => []RunJsonNeverAhead
  <1>1. DiskInv => RunJsonNeverAhead
    BY DEF DiskInv
  <1> QED BY <1>1, DiskInvariant, PTL

\* After replay and repair the projections are the replayed state.
THEOREM RepairIsComplete == Spec => []RepairCompletes
  <1>1. DiskInv => RepairCompletes
    BY DEF DiskInv, TodoInv, RepairCompletes
  <1> QED BY <1>1, DiskInvariant, PTL

\* run.json never goes back, whoever repairs or rewrites it.
THEOREM ReadersAdvance == Spec => ReadersNeverGoBack
  <1>1. ASSUME ProcInv, DiskInv, [Next]_vars
        PROVE  [disk'["run"] >= disk["run"]]_vars
    <2>1. PICK r \in 0..Revision : disk["run"] = FilesAt(r)["run"]
      BY <1>1, PathsAndRanks DEF DiskInv, DiskIsCommittedBoundary
    <2>2. /\ disk["run"] \in Nat \cup {Absent}
          /\ FilesAt(Revision)["run"] \in Nat \cup {Absent}
          /\ disk["run"] <= FilesAt(Revision)["run"]
      <3>1. Revision \in 0..Revision
        BY <1>1, <2>1, RunGrows DEF ProcInv, DiskInv
      <3> QED BY <1>1, <2>1, <3>1, RunGrows DEF ProcInv, DiskInv
    <2>3. ASSUME NEW p \in Procs, Repair(p) PROVE disk'["run"] >= disk["run"]
      <3>1. base[p] = Revision
        BY <1>1, <2>3 DEF Repair, ProcInv, DecidesOnWholeJournal
      <3> QED BY <1>1, <2>2, <2>3, <3>1 DEF Repair, ProcInv, TypeOK, File, Absent
    <2>4. ASSUME NEW p \in Procs, Project(p) PROVE disk'["run"] >= disk["run"]
      <3>1. base[p] + 1 = Revision
        BY <1>1, <2>4 DEF Project, ProcInv, TypeOK, StagedInv
      <3> QED BY <1>1, <2>2, <2>4, <3>1 DEF Project, ProcInv, TypeOK, File, Absent
    <2>5. CASE disk' = disk
      BY <2>2, <2>5 DEF Absent
    <2> QED
      BY <1>1, <2>3, <2>4, <2>5
      DEF Next, Step, vars, store, BeginInitialize, BeginMutation, BeginSnapshot, Begin,
          Acquire, TimeOut, LoadFails, StageAnchor, PublishAnchor, Load, Repaired,
          ReplySnapshot, Replay, Refuse, Stage, StageFails, Publish, Reply, Crash
  <1> QED BY <1>1, DiskInvariant, PTL DEF Spec, ReadersNeverGoBack

-----------------------------------------------------------------------------
(* The store implements the abstract log                                   *)

\* A publication is the abstract commit; an answer is the abstract
\* acknowledgement; every other step is invisible to callers.
LogView == [i \in DOMAIN journal |-> [cmd |-> journal[i].cmd, status |-> journal[i].status]]

LEMMA PublishCommits ==
    ASSUME ProcInv, NEW p \in Procs, Publish(p)
    PROVE  \E c \in Commands : Log!Commit(c)
  <1> DEFINE c == op[p]
             r == base[p]
             e == [cmd |-> c, status |-> Target(c), files |-> Applied(c, r)]
  <1>1. /\ r = Revision /\ r \in Nat
        /\ c \in Commands /\ c \in Command
        /\ ~Exhausted(c, r) /\ Prior(c, r) = {} /\ Admissible(c, r)
    BY ConstantsAssumption DEF ProcInv, TypeOK, StagedInv, DecidesOnWholeJournal, Publish
  <1>2. journal' = Append(journal, e) /\ legacy' = legacy /\ acks' = acks
    BY <1>1 DEF Publish, Installed
  <1>3. Len(LogView) = r /\ DOMAIN LogView = 1..r /\ DOMAIN journal = 1..r
    BY <1>1 DEF LogView, Revision, ProcInv, TypeOK
  <1>4. Log!HasRoom(c)
    BY <1>1, <1>3, LimitsAssumption DEF Log!HasRoom, Exhausted, LogView
  <1>5. ~Log!Taken(c.key)
    BY <1>1, <1>3 DEF Log!Taken, Prior, LogView
  <1>6. Log!Legal(Log!Current, c)
    <2>1. Log!Current = StatusAt(r)
      BY <1>1, <1>3 DEF Log!Current, StatusAt, LogView
    <2>2. Legal(StatusAt(r), c)
      BY <1>1 DEF Admissible
    <2> QED BY <2>1, <2>2 DEF Legal, Log!Legal, Ordinary, Log!Ordinary, Final, Log!Final,
                              NoStatus, Log!NoStatus
  <1>7. LogView' = Append(LogView, [cmd |-> c, status |-> Log!Target(c)])
    <2>1. Log!Target(c) = Target(c)
      BY DEF Target, Log!Target
    <2> QED BY <1>1, <1>2, <1>3, <2>1 DEF LogView, ProcInv, TypeOK
  <1>8. PICK k \in Commands : k = c
    BY <1>1
  <1>9. Log!HasRoom(k) /\ ~Log!Taken(k.key) /\ Log!Legal(Log!Current, k)
        /\ LogView' = Append(LogView, [cmd |-> k, status |-> Log!Target(k)])
    BY <1>4, <1>5, <1>6, <1>7, <1>8
  <1>10. Log!Commit(k)
    BY <1>2, <1>9 DEF Log!Commit, LogView
  <1> QED BY <1>10

LEMMA AnswerAcknowledges ==
    ASSUME ProcInv, NEW p \in Procs, Replay(p) \/ Reply(p)
    PROVE  \E i \in DOMAIN LogView : Log!Acknowledge(i)
  <1>1. ASSUME NEW i \in DOMAIN journal, journal[i].cmd = op[p],
               Acknowledge(op[p], i), journal' = journal, legacy' = legacy
        PROVE  \E k \in DOMAIN LogView : Log!Acknowledge(k)
    <2>1. i \in DOMAIN LogView /\ LogView[i].cmd = op[p] /\ LogView' = LogView
      BY <1>1 DEF LogView
    <2>2. Log!Acknowledge(i)
      BY <1>1, <2>1 DEF Log!Acknowledge, Acknowledge, LogView
    <2> QED BY <2>1, <2>2
  <1>2. CASE Replay(p)
    <2>1. PICK i \in Prior(op[p], base[p]) :
              journal[i].cmd = op[p] /\ Acknowledge(op[p], i)
      BY <1>2 DEF Replay
    <2>2. i \in DOMAIN journal
      BY <1>2, <2>1 DEF Prior, Replay, ProcInv, TypeOK, DecidesOnWholeJournal, Revision
    <2> QED BY <1>1, <1>2, <2>1, <2>2 DEF Replay, store
  <1>3. CASE Reply(p)
    <2>1. base[p] + 1 \in DOMAIN journal /\ journal[base[p] + 1].cmd = op[p]
      BY <1>3 DEF Reply, ProcInv, TypeOK, StagedInv, Revision
    <2> QED BY <1>1, <1>3, <2>1 DEF Reply, store
  <1> QED BY <1>2, <1>3

LEMMA LogStep == ProcInv /\ [Next]_vars => [Log!Next]_(Log!Log_vars)
  <1> SUFFICES ASSUME ProcInv, [Next]_vars PROVE [Log!Next]_(Log!Log_vars)
    OBVIOUS
  <1>1. ASSUME NEW p \in Procs, Publish(p) PROVE Log!Next
    BY <1>1, PublishCommits DEF Log!Next
  <1>2. ASSUME NEW p \in Procs, Replay(p) \/ Reply(p) PROVE Log!Next
    BY <1>2, AnswerAcknowledges DEF Log!Next, LogView
  <1>3. CASE journal' = journal /\ legacy' = legacy /\ acks' = acks
    BY <1>3 DEF Log!Log_vars
  <1> QED
    BY <1>1, <1>2, <1>3
    DEF Next, Step, vars, store, BeginInitialize, BeginMutation, BeginSnapshot, Begin,
        Acquire, TimeOut, LoadFails, StageAnchor, PublishAnchor, Load, Repair,
        Repaired, ReplySnapshot, Refuse, Stage, StageFails, Project, Crash

\* Through crashes, lost answers, repairs and retries, what callers see is one
\* log in which each transition takes effect at the rename, once.
THEOREM Refinement == Spec => ImplementsLog
  <1>1. Init => ProcInv /\ Log!Init
    <2>1. Init => Log!Init
      BY DEF Init, Log!Init, NoStatus
    <2> QED BY <2>1, ProcInit
  <1>2. ProcInv /\ [Next]_vars => ProcInv' /\ [Log!Next]_(Log!Log_vars)
    BY ProcStep, LogStep
  <1> QED BY <1>1, <1>2, PTL DEF Spec, ImplementsLog, Log!Spec
-----------------------------------------------------------------------------
(* Evidence is written once                                                *)

LEMMA LeastNatural ==
    ASSUME NEW T \in SUBSET Nat, T # {}
    PROVE  \E x \in T : \A y \in T : x <= y
  <1> DEFINE R == OpToRel(<, Nat)
  <1>1. IsWellFoundedOn(R, Nat)
    BY NatLessThanWellFounded
  <1>2. PICK x \in T : \A y \in T : ~(<<y, x>> \in R)
    <2> HIDE DEF R
    <2> QED BY <1>1, WFMin
  <1>3. ASSUME NEW y \in T PROVE x <= y
    <2>1. ~(<<y, x>> \in R)
      BY <1>2
    <2> QED BY <2>1 DEF OpToRel
  <1> QED BY <1>2, <1>3

\* When an attempt is free, the one a gate takes is free.
LEMMA NextAttemptFree ==
    ASSUME NEW r, FreeAttempts(r) # {}
    PROVE  /\ NextAttempt(r) \in DOMAIN GateFile
           /\ FilesAt(r)[GateFile[NextAttempt(r)]] = Absent
  <1>1. FreeAttempts(r) \in SUBSET Nat
    BY ConstantsAssumption DEF FreeAttempts
  <1>2. \E n \in FreeAttempts(r) : \A m \in FreeAttempts(r) : n <= m
    BY <1>1, LeastNatural
  <1>3. NextAttempt(r) \in FreeAttempts(r)
    BY <1>2 DEF NextAttempt
  <1> QED BY <1>3 DEF FreeAttempts

\* The gate attempt that is taken is written by the transaction.
LEMMA AppliedGate ==
    ASSUME NEW c \in Commands, NEW r, c.kind = "gate", FreeAttempts(r) # {}
    PROVE  Applied(c, r)[GateFile[NextAttempt(r)]] = r + 1
  <1>1. GateFile[NextAttempt(r)] \in Paths
    BY NextAttemptFree, ConstantsAssumption DEF Paths
  <1>2. GateFile[NextAttempt(r)] \in Written(c, r)
    BY DEF Written
  <1>3. Removed(c, r) = {}
    BY EffectsAssumption DEF Removed
  <1> QED BY <1>1, <1>2, <1>3 DEF Applied

LEMMA PublishKeepsEvidence ==
    ASSUME ProcInv, EvidenceNeverOverwritten, NEW p \in Procs, Publish(p)
    PROVE  EvidenceNeverOverwritten'
  <1> DEFINE c == op[p]
             r == base[p]
             e == [cmd |-> c, status |-> Target(c), files |-> Applied(c, r)]
  <1>1. /\ r = Revision /\ r \in Nat
        /\ c \in Commands /\ c \in Command
        /\ Admissible(c, r)
    BY ConstantsAssumption DEF ProcInv, TypeOK, StagedInv, DecidesOnWholeJournal, Publish
  <1>2. e \in Entry
    <2>1. Target(c) \in Status
      BY <1>1, TargetType DEF Admissible
    <2>2. Applied(c, r) \in File
      BY <1>1, AppliedType DEF ProcInv, TypeOK, Revision
    <2> QED BY <1>1, <2>1, <2>2 DEF Entry
  <1>3. journal' = Append(journal, e) /\ legacy' = legacy
    BY <1>1 DEF Publish, Installed
  <1>4. /\ \A i \in 1..r : journal'[i] = journal[i]
        /\ journal'[r + 1] = e
        /\ \A i \in 0..r : FilesAt(i)' = FilesAt(i)
        /\ \A i : i = r + 1 => FilesAt(i)' = Applied(c, r)
    BY <1>1, <1>2, <1>3, AppendFrame DEF ProcInv, TypeOK
  <1>5. DOMAIN journal = 1..r /\ DOMAIN journal' = 1..(r + 1)
    BY <1>1, <1>2, <1>3 DEF ProcInv, TypeOK, Revision
  <1> SUFFICES ASSUME NEW i \in 1..(r + 1)
               PROVE  /\ \A q \in journal'[i].cmd.create :
                            \A j \in 0..(i - 1) : FilesAt(j)'[q] = Absent
                      /\ journal'[i].cmd.kind = "gate" =>
                            \E n \in DOMAIN GateFile :
                                /\ FilesAt(i)'[GateFile[n]] = i
                                /\ FilesAt(i - 1)'[GateFile[n]] = Absent
    BY <1>5 DEF EvidenceNeverOverwritten
  <1>6. CASE i # r + 1
    <2>1. /\ i \in 1..r /\ i \in 0..r /\ i - 1 \in 0..r
          /\ \A j \in 0..(i - 1) : j \in 0..r
      BY ONLY <1>1, <1>6, i \in 1..(r + 1)
    <2>2. /\ \A q \in journal[i].cmd.create :
                \A j \in 0..(i - 1) : FilesAt(j)[q] = Absent
          /\ journal[i].cmd.kind = "gate" =>
                \E n \in DOMAIN GateFile :
                    /\ FilesAt(i)[GateFile[n]] = i
                    /\ FilesAt(i - 1)[GateFile[n]] = Absent
      BY <1>5, <2>1 DEF EvidenceNeverOverwritten
    <2> QED BY ONLY <1>4, <2>1, <2>2
  <1>7. CASE i = r + 1
    <2>1. journal'[i].cmd = c /\ i - 1 = r /\ r \in 0..r
      BY ONLY <1>1, <1>4, <1>7
    <2>2. \A q \in c.create : \A j \in 0..r : FilesAt(j)[q] = Absent
      BY <1>1 DEF Admissible, EverWritten
    <2>3. ASSUME c.kind = "gate"
          PROVE  \E n \in DOMAIN GateFile :
                     /\ Applied(c, r)[GateFile[n]] = r + 1
                     /\ FilesAt(r)[GateFile[n]] = Absent
      <3>1. FreeAttempts(r) # {}
        BY <1>1, <2>3 DEF Admissible
      <3> QED BY <1>1, <2>3, <3>1, NextAttemptFree, AppliedGate
    <2> QED BY ONLY <1>4, <1>7, <2>1, <2>2, <2>3
  <1> QED BY <1>6, <1>7

\* Receipts, releases and outcomes are created once, even after a removal, and
\* each gate attempt has an envelope file of its own.
THEOREM EvidenceIsImmutable == Spec => []EvidenceNeverOverwritten
  <1>1. Init => ProcInv /\ EvidenceNeverOverwritten
    BY ProcInit DEF Init, EvidenceNeverOverwritten
  <1>2. ASSUME ProcInv, EvidenceNeverOverwritten, [Next]_vars
        PROVE  EvidenceNeverOverwritten'
    <2>1. ASSUME NEW p \in Procs, Publish(p) PROVE EvidenceNeverOverwritten'
      BY <1>2, <2>1, PublishKeepsEvidence
    <2>2. CASE journal' = journal /\ legacy' = legacy
      BY <1>2, <2>2, DecisionsFrame DEF EvidenceNeverOverwritten
    <2> QED
      BY <1>2, <2>1, <2>2
      DEF Next, Step, vars, store, BeginInitialize, BeginMutation, BeginSnapshot, Begin,
          Acquire, TimeOut, LoadFails, StageAnchor, PublishAnchor, Load, Repair, Project,
          Repaired, ReplySnapshot, Replay, Refuse, Stage, StageFails, Reply, Crash
  <1> QED BY <1>1, <1>2, ProcStep, PTL DEF Spec
=============================================================================
