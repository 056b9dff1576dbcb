---------------------------- MODULE LedgerReports ----------------------------
(***************************************************************************)
(* Several runs in one state directory, and the commands that look at all  *)
(* of them: `ledger resume` and `ledger dashboard` of a repository and     *)
(* `ledger prune` across repositories (run_ledger_report.rs).  They read   *)
(* the projections one after the other and without a lock, while other     *)
(* processes write; prune then finalizes, run by run, what it has judged.  *)
(*                                                                         *)
(* A transition is one step here, as RunLedger shows it to be; after it    *)
(* the gate's envelope is projected, then run.json, and its process may    *)
(* die in between.  The time a command writes is taken before it has the   *)
(* lock.  Times are hours; a version of a run keeps what the reports use.  *)
(* The time stamp in a gate's envelope is another one: its caller's, or    *)
(* none at all, and what the dashboard sorts and cuts its gates by.        *)
(***************************************************************************)
EXTENDS Lifecycle, Integers, FiniteSets

CONSTANTS
    Runs,         \* run directories
    Rank,         \* the place of each in the order of their paths, which is that of their ids
    Local,        \* those of the repository resume and dashboard are called in
    Questions,    \* what resume is asked for: the runs of a ticket and branch
    Procs,
    Commands,     \* what callers ask of one run: [kind, target, gate, stamp]
    Gates,        \* names of gates, each in its scope
    Stamps,       \* time stamps of envelopes in their order, 0 for none
    Limits,       \* what --limit of the dashboard may be
    MaxAttempts,  \* of a gate in a run; 4096 in the code
    StaleAfter,   \* hours
    MaxClock, MaxCommands,
    Absent

VARIABLES
    clock,
    claimed,      \* the run directories there are
    committed,    \* the run as its journal replays, Absent before it exists
    shown,        \* run.json
    envelopes,    \* the envelopes of its gates that are on disk
    proc,         \* each process
    commands,     \* commands and reports so far
    moved         \* history: the runs whose run.json changed during a report

disk == <<shown, envelopes, moved>>
vars == <<clock, claimed, committed, disk, proc, commands>>

Envelope == [gate : Gates, attempt : 1 .. MaxAttempts, stamp : Stamps]

\* The latest checkpoint is the envelope of its gate, Absent when it is not a gate's.
Version == [status : Status, updated : 0 .. MaxClock, finalized : (0 .. MaxClock) \cup {Absent},
            attempts : SUBSET Envelope, checkpoint : Envelope \cup {Absent}]

Command == [kind : Kinds, target : Final \cup {"none"}, gate : Gates \cup {Absent},
            stamp : Stamps \cup {Absent}]

ASSUME ConstantsAssumption ==
    /\ IsFiniteSet(Runs) /\ Local \subseteq Runs /\ Questions \subseteq SUBSET Runs
    /\ Rank \in [Runs -> 1 .. Cardinality(Runs)]
    /\ \A r, s \in Runs : Rank[r] = Rank[s] => r = s
    /\ Stamps \subseteq Nat /\ Limits \subseteq Nat /\ MaxAttempts \in Nat
    /\ Commands \subseteq Command
    /\ \A c \in Commands : c.kind = "gate" => c.gate \in Gates /\ c.stamp \in Stamps
    /\ MaxClock \in Nat /\ MaxCommands \in Nat
    /\ Absent \notin Runs /\ Absent \notin Version /\ Absent \notin Envelope

Prune == [kind |-> "finalize", target |-> "interrupted", gate |-> Absent, stamp |-> Absent]

Process ==
    [pc : {"idle", "commit", "envelope", "project", "scan", "reported", "load", "gates", "entry", "finalize"},
     kind : {"none", "command", "resume", "exact", "dashboard", "prune"}, flag : BOOLEAN,
     now : 0 .. MaxClock, run : Runs \cup {Absent}, cmd : Commands \cup {Prune, Absent},
     todo : SUBSET Runs, seen : [Runs -> Version \cup {Absent}], gates : [Runs -> SUBSET Envelope],
     limit : Limits \cup {0}, names : SUBSET Gates, found : SUBSET Envelope,
     applied : SUBSET Runs, selected : Runs \cup {Absent}, wanted : SUBSET Runs,
     prior : Version \cup {Absent}]

Nothing == [r \in Runs |-> Absent]
Empty   == [r \in Runs |-> {}]

Idle == [pc |-> "idle", kind |-> "none", flag |-> FALSE, now |-> 0, run |-> Absent, cmd |-> Absent,
         todo |-> {}, seen |-> Nothing, gates |-> Empty, limit |-> 0, names |-> {}, found |-> {},
         applied |-> {}, selected |-> Absent, wanted |-> {}, prior |-> Absent]

At(p, l)   == proc[p].pc = l
Goto(p, l) == proc' = [proc EXCEPT ![p].pc = l]
Quit(p)    == proc' = [proc EXCEPT ![p] = Idle]

-----------------------------------------------------------------------------
(* What each command makes of the run. *)

Started(now) == [status |-> "running", updated |-> now, finalized |-> Absent, attempts |-> {}, checkpoint |-> Absent]

Touched(v, now) == [v EXCEPT !.updated = now]

WithCheckpoint(v) == [v EXCEPT !.checkpoint = Absent]

\* The numbers no attempt of the gate has yet.  The least is taken.
Free(v, gate) == {n \in 1 .. MaxAttempts : \A e \in v.attempts : e.gate = gate => e.attempt # n}

NextEnvelope(v, c) ==
    [gate |-> c.gate, attempt |-> CHOOSE n \in Free(v, c.gate) : \A m \in Free(v, c.gate) : n <= m,
     stamp |-> c.stamp]

WithGate(v, c) == [v EXCEPT !.attempts = @ \cup {NextEnvelope(v, c)}, !.checkpoint = NextEnvelope(v, c)]
Interrupted(v) == [WithCheckpoint(v) EXCEPT !.status = "interrupted"]

\* A continued run keeps the time at which it was finalized.
Resumed(v) == [v EXCEPT !.status = "running"]

Finalized(v, target, now) == [WithCheckpoint(v) EXCEPT !.status = target, !.finalized = now]

Applied(v, c, now) ==
    CASE c.kind = "initialize" -> Started(now)
      [] c.kind = "event"      -> Touched(v, now)
      [] c.kind = "evidence"   -> Touched(v, now)
      [] c.kind = "checkpoint" -> Touched(WithCheckpoint(v), now)
      [] c.kind = "gate"       -> Touched(WithGate(v, c), now)
      [] c.kind = "interrupt"  -> Touched(Interrupted(v), now)
      [] c.kind = "resume"     -> Touched(Resumed(v), now)
      [] c.kind = "finalize"   -> Touched(Finalized(v, c.target, now), now)

StatusOf(v) == IF v = Absent THEN NoStatus ELSE v.status

\* A gate is refused when all its numbers are taken.
Allowed(v, c) == Legal(StatusOf(v), c) /\ (c.kind = "gate" => Free(v, c.gate) # {})

\* is_incomplete: a failed run can be resumed from a report's point of view.
Incomplete(v) == v.status # "completed"

-----------------------------------------------------------------------------
Show(r, v, there) ==
    /\ shown' = [shown EXCEPT ![r] = v]
    /\ envelopes' = [envelopes EXCEPT ![r] = there]
    /\ moved' = IF v = shown[r] THEN moved ELSE [p \in Procs |-> moved[p] \cup {r}]

\* Replay leaves the projections as the journal has them.
Repair(r) == IF committed[r] = Absent THEN UNCHANGED disk
             ELSE Show(r, committed[r], committed[r].attempts)

Held(r) == \E p \in Procs : proc[p].run = r /\ proc[p].pc \in {"envelope", "project"}

Init ==
    /\ clock = 0
    /\ claimed = {}
    /\ committed = [r \in Runs |-> Absent] /\ shown = committed
    /\ envelopes = Empty
    /\ proc = [p \in Procs |-> Idle]
    /\ commands = 0
    /\ moved = [p \in Procs |-> {}]

Tick ==
    /\ clock < MaxClock
    /\ clock' = clock + 1
    /\ UNCHANGED <<claimed, committed, disk, proc, commands>>

-----------------------------------------------------------------------------
(* One command on one run. *)

\* A new run makes its directory; find_run_dir wants a run.json in it.
Begin(p, r, c) ==
    /\ At(p, "idle") /\ commands < MaxCommands
    /\ IF c.kind = "initialize" THEN r \notin claimed ELSE shown[r] # Absent
    /\ claimed' = claimed \cup {r}
    /\ proc' = [proc EXCEPT ![p] = [Idle EXCEPT !.pc = "commit", !.kind = "command", !.run = r,
                                                !.cmd = c, !.now = clock]]
    /\ commands' = commands + 1
    /\ UNCHANGED <<clock, committed, disk>>

\* Mutant: run.json is written with the transition, before the envelope.
Commit_RunJsonFirst(p) ==
    LET r == proc[p].run
        v == Applied(committed[r], proc[p].cmd, proc[p].now)
    IN  /\ At(p, "commit") /\ ~Held(r)
        /\ Allowed(committed[r], proc[p].cmd)
        /\ committed' = [committed EXCEPT ![r] = v]
        /\ Show(r, v, IF committed[r] = Absent THEN {} ELSE committed[r].attempts)
        /\ proc' = [proc EXCEPT ![p].pc = "envelope", ![p].prior = committed[r]]
        /\ UNCHANGED <<clock, claimed, commands>>

\* The decision is made on the journal, whatever the caller has seen.
Commit(p) ==
    LET r == proc[p].run
    IN  /\ At(p, "commit") /\ ~Held(r)
        /\ Allowed(committed[r], proc[p].cmd)
        /\ committed' = [committed EXCEPT ![r] = Applied(@, proc[p].cmd, proc[p].now)]
        /\ Repair(r)
        /\ proc' = [proc EXCEPT ![p].pc = "envelope", ![p].prior = committed[r]]
        /\ UNCHANGED <<clock, claimed, commands>>

ProjectEnvelope(p) ==
    LET r == proc[p].run
    IN  /\ At(p, "envelope")
        /\ Show(r, shown[r], committed[r].attempts)
        /\ Goto(p, "project")
        /\ UNCHANGED <<clock, claimed, committed, commands>>

\* A single command is over; prune goes on to the next candidate.
Return(p, done) ==
    IF proc[p].kind = "command" THEN Quit(p)
    ELSE proc' = [proc EXCEPT ![p].pc = "finalize", ![p].applied = @ \cup done, ![p].todo = @ \ {proc[p].run},
                              ![p].run = Absent, ![p].cmd = Absent, ![p].prior = Absent]

ProjectRun(p) ==
    LET r == proc[p].run
    IN  /\ At(p, "project")
        /\ Show(r, committed[r], envelopes[r])
        /\ Return(p, {r})
        /\ UNCHANGED <<clock, claimed, committed, commands>>

\* Prune has a warning for a refused transition.
Refuse(p) ==
    LET r == proc[p].run
    IN  /\ At(p, "commit") /\ ~Held(r)
        /\ ~Allowed(committed[r], proc[p].cmd)
        /\ Repair(r)
        /\ Return(p, {})
        /\ UNCHANGED <<clock, claimed, committed, commands>>

\* The lock is not to be had in ten seconds: an error of the whole command,
\* and of the whole prune, whatever it has finalized.
TimeOut(p) ==
    /\ proc[p].pc \in {"commit", "load"} /\ Held(proc[p].run)
    /\ Quit(p)
    /\ UNCHANGED <<clock, claimed, committed, disk, commands>>

Crash(p) ==
    /\ ~At(p, "idle")
    /\ Quit(p)
    /\ UNCHANGED <<clock, claimed, committed, disk, commands>>

-----------------------------------------------------------------------------
(* The reports.  flag: resume takes completed runs too, dashboard shows     *)
(* all, prune applies.                                                      *)

Scope(kind) == IF kind = "prune" THEN Runs ELSE Local

First(S) == CHOOSE r \in S : \A s \in S \ {r} : Rank[r] < Rank[s]

BeginReport(p, kind, flag, wanted, limit) ==
    /\ At(p, "idle") /\ commands < MaxCommands
    /\ proc' = [proc EXCEPT ![p] = [Idle EXCEPT !.pc = "scan", !.kind = kind, !.flag = flag,
                                                !.wanted = wanted, !.limit = limit, !.todo = Scope(kind)]]
    /\ moved' = [moved EXCEPT ![p] = {}]
    /\ commands' = commands + 1
    /\ UNCHANGED <<clock, claimed, committed, shown, envelopes>>

Keeps(p, v) == proc[p].kind = "prune" \/ proc[p].flag \/ Incomplete(v)

\* A directory without run.json is passed over.
Scan(p) ==
    /\ At(p, "scan") /\ proc[p].todo # {}
    /\ LET r == First(proc[p].todo)
           v == shown[r]
       IN  proc' = [proc EXCEPT ![p].todo = @ \ {r},
                                ![p].seen[r] = IF v = Absent THEN @ ELSE IF Keeps(p, v) THEN v ELSE @]
    /\ UNCHANGED <<clock, claimed, committed, disk, commands>>

Scanned(p, kind) == At(p, "scan") /\ proc[p].todo = {} /\ proc[p].kind = kind

\* The runs a report has read.
Read(p) == {r \in Runs : proc[p].seen[r] # Absent}

\* The last of the stable sort by recency.
Latest(seen, among) ==
    CHOOSE r \in among : \A s \in among \ {r} :
        \/ seen[s].updated < seen[r].updated
        \/ seen[s].updated = seen[r].updated /\ Rank[s] < Rank[r]

\* Mutant: the latest run is asked for its ticket, instead of the latest run
\* with the ticket being asked for.
SelectResume_FilterLast(p) ==
    /\ Scanned(p, "resume")
    /\ LET last == IF Read(p) = {} THEN Absent ELSE Latest(proc[p].seen, Read(p))
       IN  proc' = [proc EXCEPT ![p].pc = "reported",
                                ![p].selected = IF last \in proc[p].wanted THEN last ELSE Absent]
    /\ UNCHANGED <<clock, claimed, committed, disk, commands>>

SelectResume(p) ==
    /\ Scanned(p, "resume")
    /\ LET candidates == Read(p) \cap proc[p].wanted
       IN  proc' = [proc EXCEPT ![p].pc = "reported",
                                ![p].selected = IF candidates = {} THEN Absent
                                                ELSE Latest(proc[p].seen, candidates)]
    /\ UNCHANGED <<clock, claimed, committed, disk, commands>>

\* resume with a run id: the journal's own answer, after repair.
BeginExact(p, r) ==
    /\ At(p, "idle") /\ commands < MaxCommands /\ shown[r] # Absent
    /\ proc' = [proc EXCEPT ![p] = [Idle EXCEPT !.pc = "load", !.kind = "exact", !.run = r]]
    /\ commands' = commands + 1
    /\ UNCHANGED <<clock, claimed, committed, disk>>

ReadExact(p) ==
    LET r == proc[p].run
    IN  /\ At(p, "load") /\ ~Held(r)
        /\ Repair(r)
        /\ proc' = [proc EXCEPT ![p].pc = "reported", ![p].selected = r, ![p].seen[r] = committed[r]]
        /\ UNCHANGED <<clock, claimed, committed, commands>>

\* The entries of the dashboard are made after the whole scan, the most recent
\* run first.
OpenDashboard(p) ==
    /\ Scanned(p, "dashboard")
    /\ proc' = [proc EXCEPT ![p].pc = "gates", ![p].todo = Read(p)]
    /\ UNCHANGED <<clock, claimed, committed, disk, commands>>

ComesFirst(seen, r, among) ==
    \A s \in among \ {r} :
        \/ seen[s].updated < seen[r].updated
        \/ seen[s].updated = seen[r].updated /\ Rank[r] < Rank[s]

OpenEntry(p, r) ==
    /\ At(p, "gates") /\ r \in proc[p].todo /\ ComesFirst(proc[p].seen, r, proc[p].todo)
    /\ proc' = [proc EXCEPT ![p].pc = "entry", ![p].run = r, ![p].names = Gates, ![p].found = {}]
    /\ UNCHANGED <<clock, claimed, committed, disk, commands>>

\* Gate after gate, in any order, the envelope of its last attempt that there is.
\* (A gate whose directory was not listed is one that was looked for at once.)
ReadGate(p, g) ==
    LET there == {e \in envelopes[proc[p].run] : e.gate = g}
        last  == {e \in there : \A d \in there : d.attempt <= e.attempt}
    IN  /\ At(p, "entry") /\ g \in proc[p].names
        /\ proc' = [proc EXCEPT ![p].names = @ \ {g}, ![p].found = @ \cup last]
        /\ UNCHANGED <<clock, claimed, committed, disk, commands>>

\* Mutant: the oldest first.
IsCut_OldestFirst(listed, found, limit) ==
    /\ listed \subseteq found
    /\ \/ Cardinality(listed) = limit
       \/ listed = found /\ Cardinality(found) < limit
    /\ \A e \in listed, d \in found \ listed : e.stamp <= d.stamp

\* The first by their time stamps, the newest first; of equal ones any.
IsCut(listed, found, limit) ==
    /\ listed \subseteq found
    /\ \/ Cardinality(listed) = limit
       \/ listed = found /\ Cardinality(found) < limit
    /\ \A e \in listed, d \in found \ listed : d.stamp <= e.stamp

\* At most `limit` of the gates are kept.
ListGates(p, listed) ==
    /\ At(p, "entry") /\ proc[p].names = {}
    /\ IsCut(listed, proc[p].found, proc[p].limit)
    /\ proc' = [proc EXCEPT ![p].pc = "gates", ![p].gates[proc[p].run] = listed, ![p].todo = @ \ {proc[p].run},
                            ![p].run = Absent, ![p].found = {}]
    /\ UNCHANGED <<clock, claimed, committed, disk, commands>>

CloseDashboard(p) ==
    /\ At(p, "gates") /\ proc[p].todo = {}
    /\ Goto(p, "reported")
    /\ UNCHANGED <<clock, claimed, committed, disk, commands>>

Stale(v, now) ==
    /\ Incomplete(v) /\ v.finalized = Absent
    /\ now - v.updated >= StaleAfter

JudgeStale(p) ==
    /\ Scanned(p, "prune")
    /\ proc' = [proc EXCEPT ![p].pc = IF proc[p].flag THEN "finalize" ELSE "reported",
                            ![p].todo = {r \in Read(p) : Stale(proc[p].seen[r], clock)}]
    /\ UNCHANGED <<clock, claimed, committed, disk, commands>>

FinalizeNext(p) ==
    /\ At(p, "finalize") /\ proc[p].todo # {}
    /\ proc' = [proc EXCEPT ![p].pc = "commit", ![p].run = First(proc[p].todo), ![p].cmd = Prune, ![p].now = clock]
    /\ UNCHANGED <<clock, claimed, committed, disk, commands>>

EndPrune(p) ==
    /\ At(p, "finalize") /\ proc[p].todo = {}
    /\ Goto(p, "reported")
    /\ UNCHANGED <<clock, claimed, committed, disk, commands>>

Answer(p) ==
    /\ At(p, "reported")
    /\ Quit(p)
    /\ UNCHANGED <<clock, claimed, committed, disk, commands>>

Next ==
    \/ Tick
    \/ \E p \in Procs :
          \/ \E r \in Runs : BeginExact(p, r) \/ \E c \in Commands : Begin(p, r, c)
          \/ Commit(p) \/ ProjectEnvelope(p) \/ ProjectRun(p) \/ Refuse(p) \/ TimeOut(p) \/ Crash(p)
          \/ \E flag \in BOOLEAN :
                \/ \E wanted \in Questions : BeginReport(p, "resume", flag, wanted, 0)
                \/ \E limit \in Limits : BeginReport(p, "dashboard", flag, {}, limit)
                \/ BeginReport(p, "prune", flag, {}, 0)
          \/ Scan(p) \/ SelectResume(p) \/ ReadExact(p) \/ OpenDashboard(p) \/ CloseDashboard(p)
          \/ \E r \in Runs : OpenEntry(p, r)
          \/ \E g \in Gates : ReadGate(p, g)
          \/ \E listed \in SUBSET proc[p].found : ListGates(p, listed)
          \/ JudgeStale(p) \/ FinalizeNext(p) \/ EndPrune(p) \/ Answer(p)

Spec == Init /\ [][Next]_vars

-----------------------------------------------------------------------------
Reported(p, kind) == At(p, "reported") /\ proc[p].kind = kind

\* The runs that were there, unchanged, all the while resume looked, and
\* that it is asked for.
Standing(p) == {r \in (proc[p].wanted \cap Local) \ moved[p] :
                   shown[r] # Absent /\ (proc[p].flag \/ Incomplete(shown[r]))}

\* A resume without a run id reads the runs one by one while others write
\* them.  It misses none that stood still, its choice was a run of that ticket
\* and branch when it was read, and no run that stood still is more recent.
ResumeIsJustified ==
    \A p \in Procs : Reported(p, "resume") =>
        LET s == proc[p].selected
        IN  IF s = Absent THEN Standing(p) = {}
            ELSE /\ s \in Standing(p) \cup (moved[p] \cap proc[p].wanted \cap Local)
                 /\ \A r \in Standing(p) : shown[r].updated <= proc[p].seen[s].updated

\* An attempt at the gate of e that is e or a later one.
SameOrLater(d, e) == d.gate = e.gate /\ d.attempt >= e.attempt

\* The dashboard reads run.json of every run and afterwards the envelopes of
\* its gates, without a lock and with writers killed half-way.  The gate that an
\* entry calls its latest checkpoint is listed with it, by that attempt or a
\* later one; or --limit is used up by others, none of them with an older time
\* stamp than an attempt it gave way with.
DashboardShowsItsGates ==
    \A p \in Procs : Reported(p, "dashboard") =>
        \A r \in Read(p) :
            LET latest == proc[p].seen[r].checkpoint
                listed == proc[p].gates[r]
            IN  latest # Absent =>
                    \/ \E e \in listed : SameOrLater(e, latest)
                    \/ /\ Cardinality(listed) = proc[p].limit
                       /\ \E d \in envelopes[r] :
                             SameOrLater(d, latest) /\ \A e \in listed : d.stamp <= e.stamp

\* Prune is to finalize stale runs; what it has just finalized was stale then.
PrunedIsStale ==
    \A p \in Procs : At(p, "envelope") /\ proc[p].kind = "prune" =>
        Stale(proc[p].prior, proc[p].now)

\* Shapes of the state, and the counters stay in their bounds.
TypeOK ==
    /\ clock \in 0 .. MaxClock /\ commands \in 0 .. MaxCommands
    /\ claimed \subseteq Runs
    /\ committed \in [Runs -> Version \cup {Absent}] /\ shown \in [Runs -> Version \cup {Absent}]
    /\ envelopes \in [Runs -> SUBSET Envelope]
    /\ proc \in [Procs -> Process]
    /\ moved \in [Procs -> SUBSET Runs]
=============================================================================
