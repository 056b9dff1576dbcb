---------------------------- MODULE GateExecutor ----------------------------
(***************************************************************************)
(* The tools and the processes of workflow gates                           *)
(* (nopal-cli/gate_executor.rs).  A launch looks up the executables its    *)
(* gates need, makes an alias for each in a directory of the run, makes a  *)
(* scratch directory and writes all of it into a manifest whose digest it  *)
(* hands to its callers.  Before each gate all of it is checked again.     *)
(* The gate runs as the leader of a process group; two collectors read its *)
(* streams while a loop watches the limit on its output, its deadline, its *)
(* exit and the collectors.                                                *)
(*                                                                         *)
(* A digest is modelled by what it digests, an inode by a number, output   *)
(* by a number of chunks.                                                  *)
(***************************************************************************)
EXTENDS Naturals, FiniteSets

CONSTANTS
    Desired,       \* executables the selected gates name, in commands or scripts
    Required,      \* those some gate starts with
    System,        \* those /usr/bin or /bin has
    Paths, Refused,\* canonical paths; those below the repository or a temporary root
    Contents, Absent,
    Leader, Descendants,
    CanLeave,      \* processes that may start a session of their own with a stream open
    Limit,         \* chunks in GATE_OUTPUT_LIMIT
    MaxChunks,     \* chunks the processes of a gate may write to a stream
    MaxGates, MaxDisturbances

ASSUME GateExecutorAssumption ==
    /\ Required \subseteq Desired /\ System \subseteq Desired /\ Refused \subseteq Paths
    /\ Leader \notin Descendants /\ CanLeave \subseteq Descendants
    /\ Limit \in Nat /\ MaxChunks \in Nat /\ MaxGates \in Nat /\ MaxDisturbances \in Nat

Streams == {"stdout", "stderr"}
Processes == {Leader} \cup Descendants

VARIABLES
    lookup,    \* name -> the executable PATH leads to, or Absent
    content,   \* path -> what the file holds
    alias,     \* name -> target of the link in bin/, or Absent
    tmp,       \* the directory at the scratch path: its inode, or 0
    manifest,  \* the document on disk, or Absent
    bound,     \* the manifest whose digests the launch handed out, or Absent
    pc,        \* of whoever prepares, checks, executes or cleans up
    todo,      \* names left in its current loop
    found,     \* names resolved so far -> canonical path
    gates,     \* gates executed so far
    proc,      \* process -> [live, grouped, holds]
    written, read, kept, \* stream -> chunks
    eof,       \* streams whose collector has finished
    exceeded, late, status, \* flags of the supervisor, and the leader's exit as it knows it
    outcome,
    touched,   \* for the properties: what somebody changed since the last check began
    disturbances

tools == <<lookup, content, alias, tmp, manifest>>
output == <<written, read, kept, eof, exceeded>>
vars == <<tools, bound, pc, todo, found, gates, proc, output, late, status, outcome, touched, disturbances>>

Gone == [live |-> FALSE, grouped |-> FALSE, holds |-> {}]
Nothing == [s \in Streams |-> 0]
Own == 1
Other == 2

Init ==
    /\ lookup \in [Desired \ System -> Paths \cup {Absent}]
    /\ content = [p \in Paths |-> CHOOSE v \in Contents : TRUE]
    /\ alias = [n \in Desired |-> Absent]
    /\ tmp = 0 /\ manifest = Absent /\ bound = Absent
    /\ pc = "mkdir" /\ todo = {} /\ found = [n \in {} |-> Absent] /\ gates = 0
    /\ proc = [p \in Processes |-> Gone]
    /\ written = Nothing /\ read = Nothing /\ kept = Nothing
    /\ eof = {} /\ exceeded = FALSE /\ late = FALSE /\ status = FALSE
    /\ outcome = "none" /\ touched = {} /\ disturbances = 0

At(l) == pc = l
Supervised == {"limit", "deadline", "poll", "settle", "kill", "kill_late", "wait", "wait_late", "join", "join_late"}
OnlyGate == UNCHANGED <<tools, bound, todo, found, gates, touched, disturbances>>
OnlyTools == UNCHANGED <<gates, proc, output, late, status, outcome, disturbances>>

(***************************************************************************)
(* prepare                                                                 *)
(***************************************************************************)

\* From here to keep a failure drops the guard, which removes what is at the path.
MakeScratch ==
    /\ At("mkdir") /\ tmp = 0
    /\ tmp' = Own /\ todo' = Desired /\ pc' = "scan"
    /\ UNCHANGED <<lookup, content, alias, manifest, bound, found, touched>> /\ OnlyTools

PrepareFails ==
    /\ tmp' = 0 /\ pc' = "failed"
    /\ UNCHANGED <<lookup, content, alias, manifest, bound, todo, found, touched>> /\ OnlyTools

Resolve(n) ==
    /\ At("scan") /\ n \in todo
    /\ n \notin System => lookup[n] \notin Refused
    /\ todo' = todo \ {n}
    /\ found' = IF n \in System \/ lookup[n] = Absent THEN found
                ELSE [m \in DOMAIN found \cup {n} |-> IF m = n THEN lookup[n] ELSE found[m]]
    /\ UNCHANGED <<tools, bound, pc, touched>> /\ OnlyTools

RefuseExecutable ==
    /\ At("scan") /\ \E n \in todo \ System : lookup[n] \in Refused
    /\ PrepareFails

\* validate_selected_gate_entrypoints
JudgeEntryPoints ==
    /\ At("scan") /\ todo = {}
    /\ IF Required \subseteq System \cup DOMAIN found
       THEN /\ pc' = "link" /\ todo' = DOMAIN found
            /\ bound' = [tmp |-> tmp, entries |-> [n \in {} |-> Absent]]
            /\ UNCHANGED <<tools, found, touched>> /\ OnlyTools
       ELSE PrepareFails

\* One alias and the integrity of its target as it is now.
LinkAlias(n) ==
    /\ At("link") /\ n \in todo
    /\ alias' = [alias EXCEPT ![n] = found[n]]
    /\ bound' = [bound EXCEPT !.entries = [m \in DOMAIN @ \cup {n} |->
                     IF m = n THEN [path |-> found[n], integrity |-> content[found[n]]] ELSE @[m]]]
    /\ todo' = todo \ {n}
    /\ UNCHANGED <<lookup, content, tmp, manifest, pc, found, touched>> /\ OnlyTools

WriteManifest ==
    /\ At("link") /\ todo = {}
    /\ manifest' = bound /\ pc' = "confirm"
    /\ UNCHANGED <<lookup, content, alias, tmp, bound, todo, found, touched>> /\ OnlyTools

(***************************************************************************)
(* validate: of prepare before it keeps the scratch directory, of every    *)
(* command of a session, of each gate                                      *)
(***************************************************************************)

Rejected == pc' = IF At("confirm") \/ At("confirm_entries") THEN "failed" ELSE "refused"

\* validate_tmp_dir and the two digests; the manifest is the whole of both.
\* It is read once, and its entries are then the bound ones.
CheckManifest(next) ==
    /\ IF manifest = bound /\ tmp = bound.tmp
       THEN pc' = next /\ todo' = DOMAIN bound.entries /\ UNCHANGED tmp
       ELSE Rejected /\ tmp' = (IF At("confirm") THEN 0 ELSE tmp) /\ UNCHANGED todo
    /\ touched' = {}
    /\ UNCHANGED <<lookup, content, alias, manifest, bound, found>> /\ OnlyTools

\* Mutant: the alias counts, the executable it leads to does not.
Unchanged_AliasOnly(n) == alias[n] = bound.entries[n].path

Unchanged(n) ==
    LET entry == bound.entries[n]
    IN  content[entry.path] = entry.integrity /\ alias[n] = entry.path

CheckEntry(n) ==
    /\ (At("confirm_entries") \/ At("entries")) /\ n \in todo
    /\ IF Unchanged(n)
       THEN todo' = todo \ {n} /\ UNCHANGED <<pc, tmp>>
       ELSE Rejected /\ tmp' = (IF At("confirm_entries") THEN 0 ELSE tmp) /\ UNCHANGED todo
    /\ UNCHANGED <<lookup, content, alias, manifest, bound, found, touched>> /\ OnlyTools

Confirm == At("confirm") /\ CheckManifest("confirm_entries")

Keep ==
    /\ At("confirm_entries") /\ todo = {}
    /\ pc' = "ready"
    /\ UNCHANGED <<tools, bound, todo, found, touched>> /\ OnlyTools

Validate == At("ready") /\ gates < MaxGates /\ CheckManifest("entries")

(***************************************************************************)
(* execute                                                                 *)
(***************************************************************************)

Spawn ==
    /\ At("entries") /\ todo = {}
    /\ pc' = "limit" /\ gates' = gates + 1
    /\ proc' = [p \in Processes |-> IF p = Leader THEN [live |-> TRUE, grouped |-> TRUE, holds |-> Streams] ELSE Gone]
    /\ written' = Nothing /\ read' = Nothing /\ kept' = Nothing
    /\ eof' = {} /\ exceeded' = FALSE /\ late' = FALSE /\ status' = FALSE /\ outcome' = "none"
    /\ UNCHANGED <<tools, bound, todo, found, touched, disturbances>>

\* One round of the loop: the limit, the deadline, the exit, the collectors.
WatchLimit ==
    /\ At("limit")
    /\ pc' = IF exceeded THEN "kill" ELSE "deadline"
    /\ UNCHANGED <<proc, output, late, status, outcome>> /\ OnlyGate

WatchDeadline ==
    /\ At("deadline")
    /\ pc' = IF late THEN "kill_late" ELSE "poll"
    /\ UNCHANGED <<proc, output, late, status, outcome>> /\ OnlyGate

PollLeader ==
    /\ At("poll")
    /\ status' = ~proc[Leader].live
    /\ pc' = "settle"
    /\ UNCHANGED <<proc, output, late, outcome>> /\ OnlyGate

\* Mutant: the gate is over when its shell is.
WatchCollectors_ExitOnly ==
    /\ At("settle")
    /\ pc' = IF status THEN "join" ELSE "limit"
    /\ UNCHANGED <<proc, output, late, status, outcome>> /\ OnlyGate

WatchCollectors ==
    /\ At("settle")
    /\ pc' = IF status /\ eof = Streams THEN "join" ELSE "limit"
    /\ UNCHANGED <<proc, output, late, status, outcome>> /\ OnlyGate

\* kill(-pid, SIGKILL) reaches the group, child.kill the leader.
KillGroup ==
    /\ At("kill") \/ At("kill_late")
    /\ proc' = [p \in Processes |-> IF proc[p].grouped \/ p = Leader THEN Gone ELSE proc[p]]
    /\ pc' = IF At("kill") THEN "wait" ELSE "wait_late"
    /\ UNCHANGED <<output, late, status, outcome>> /\ OnlyGate

WaitLeader ==
    /\ (At("wait") \/ At("wait_late")) /\ ~proc[Leader].live
    /\ status' = TRUE
    /\ pc' = IF At("wait") THEN "join" ELSE "join_late"
    /\ UNCHANGED <<proc, output, late, outcome>> /\ OnlyGate

\* Both joins, without a bound, then the verdict in the order of the code.
Conclude ==
    /\ (At("join") \/ At("join_late")) /\ eof = Streams
    /\ outcome' = IF exceeded \/ At("join_late") THEN "error" ELSE "ok"
    /\ pc' = "ready"
    /\ UNCHANGED <<proc, output, late, status>> /\ OnlyGate

DeadlinePasses ==
    /\ pc \in {"limit", "deadline", "poll", "settle"} /\ ~late
    /\ late' = TRUE
    /\ UNCHANGED <<pc, proc, output, status, outcome>> /\ OnlyGate

\* collect_output: past the limit it drains without keeping.
Total == read["stdout"] + read["stderr"]
\* Mutant: output past the limit is dropped without a word.
Collect_Silent(s) ==
    /\ s \notin eof /\ read[s] < written[s]
    /\ read' = [read EXCEPT ![s] = @ + 1]
    /\ kept' = IF Total + 1 > Limit THEN kept ELSE [kept EXCEPT ![s] = @ + 1]
    /\ UNCHANGED <<exceeded, written, eof, pc, proc, late, status, outcome>> /\ OnlyGate

Collect(s) ==
    /\ s \notin eof /\ read[s] < written[s]
    /\ read' = [read EXCEPT ![s] = @ + 1]
    /\ IF Total + 1 > Limit
       THEN exceeded' = TRUE /\ UNCHANGED kept
       ELSE kept' = [kept EXCEPT ![s] = @ + 1] /\ UNCHANGED exceeded
    /\ UNCHANGED <<written, eof, pc, proc, late, status, outcome>> /\ OnlyGate

EndOfStream(s) ==
    /\ gates > 0 /\ s \notin eof /\ read[s] = written[s]
    /\ \A p \in Processes : s \notin proc[p].holds
    /\ eof' = eof \cup {s}
    /\ UNCHANGED <<written, read, kept, exceeded, pc, proc, late, status, outcome>> /\ OnlyGate

(***************************************************************************)
(* The processes of a gate.  What a daemon does after its gate is over     *)
(* reaches nobody.                                                         *)
(***************************************************************************)

OnlyProcesses == pc \in Supervised /\ UNCHANGED <<pc, read, kept, eof, exceeded, late, status, outcome>> /\ OnlyGate

Write(p, s) ==
    /\ s \in proc[p].holds /\ written[s] < MaxChunks
    /\ written' = [written EXCEPT ![s] = @ + 1]
    /\ UNCHANGED proc /\ OnlyProcesses

\* A child inherits the group and the streams, or keeps some of them open only.
Fork(p, q) ==
    /\ proc[p].live /\ ~proc[q].live /\ q # Leader
    /\ \E holds \in SUBSET proc[p].holds : proc' = [proc EXCEPT ![q] = [proc[p] EXCEPT !.holds = holds]]
    /\ UNCHANGED written /\ OnlyProcesses

\* setsid: a daemon closes its streams first, others need not.
LeaveGroup(p) ==
    /\ p # Leader /\ proc[p].grouped
    /\ proc[p].holds = {} \/ p \in CanLeave
    /\ proc' = [proc EXCEPT ![p].grouped = FALSE]
    /\ UNCHANGED written /\ OnlyProcesses

Exit(p) ==
    /\ proc[p].live
    /\ proc' = [proc EXCEPT ![p] = Gone]
    /\ UNCHANGED written /\ OnlyProcesses

(***************************************************************************)
(* cleanup: load, the identity of the scratch directory, the removal       *)
(***************************************************************************)

BeginCleanup ==
    /\ At("ready")
    /\ pc' = IF manifest = bound /\ (\A n \in DOMAIN bound.entries : Unchanged(n)) /\ tmp = bound.tmp
             THEN "remove" ELSE "refused"
    /\ touched' = {}
    /\ UNCHANGED <<tools, bound, todo, found>> /\ OnlyTools

RemoveScratch ==
    /\ At("remove")
    /\ tmp' = 0 /\ pc' = "clean"
    /\ UNCHANGED <<lookup, content, alias, manifest, bound, todo, found, touched>> /\ OnlyTools

(***************************************************************************)
(* Whoever else works on the machine.  Nobody reads the tools while a gate  *)
(* is supervised: a change in that time is one made right after it.        *)
(***************************************************************************)

Disturb(what) ==
    /\ disturbances < MaxDisturbances /\ pc \notin Supervised
    /\ disturbances' = disturbances + 1
    /\ touched' = touched \cup {what}
    /\ UNCHANGED <<bound, pc, todo, found, gates, proc, output, late, status, outcome>>

Upgrade(p) ==
    /\ Disturb(p)
    /\ content' \in {[content EXCEPT ![p] = v] : v \in Contents \ {content[p]}}
    /\ UNCHANGED <<lookup, alias, tmp, manifest>>

ChangePath(n) ==
    /\ Disturb("PATH") /\ At("scan")
    /\ lookup' \in {[lookup EXCEPT ![n] = p] : p \in Paths \ {lookup[n]}}
    /\ UNCHANGED <<content, alias, tmp, manifest>>

Relink(n) ==
    /\ Disturb(n) /\ alias[n] # Absent
    /\ alias' \in {[alias EXCEPT ![n] = p] : p \in (Paths \cup {Absent}) \ {alias[n]}}
    /\ UNCHANGED <<lookup, content, tmp, manifest>>

\* A manifest written anew, for the tools and the scratch directory of now.
Rewrite ==
    /\ Disturb("manifest") /\ manifest # Absent
    /\ manifest' = [tmp |-> tmp,
                    entries |-> [n \in DOMAIN manifest.entries |->
                                    IF alias[n] = Absent THEN manifest.entries[n]
                                    ELSE [path |-> alias[n], integrity |-> content[alias[n]]]]]
    /\ UNCHANGED <<lookup, content, alias, tmp>>

\* A cleaner of /tmp removes the directory; another may get its name.
ReplaceScratch ==
    /\ Disturb("tmp") /\ tmp # 0
    /\ tmp' \in {0, Other} \ {tmp}
    /\ UNCHANGED <<lookup, content, alias, manifest>>

(***************************************************************************)
(* The specification                                                       *)
(***************************************************************************)

Prepare == MakeScratch \/ RefuseExecutable \/ JudgeEntryPoints \/ WriteManifest \/ Confirm \/ Keep
           \/ \E n \in Desired : Resolve(n) \/ LinkAlias(n)
Supervise == WatchLimit \/ WatchDeadline \/ PollLeader \/ WatchCollectors \/ KillGroup \/ WaitLeader \/ Conclude
Execute == Validate \/ (\E n \in Desired : CheckEntry(n)) \/ Spawn \/ Supervise
Cleanup == BeginCleanup \/ RemoveScratch
Gate == \E p \in Processes :
            \/ \E s \in Streams : Write(p, s)
            \/ \E q \in Processes : Fork(p, q)
            \/ LeaveGroup(p) \/ Exit(p)
Others == ReplaceScratch \/ Rewrite \/ (\E p \in Paths : Upgrade(p)) \/ (\E n \in Desired \ System : ChangePath(n) \/ Relink(n))

Next ==
    \/ Prepare \/ Execute \/ Cleanup \/ DeadlinePasses
    \/ \E s \in Streams : Collect(s) \/ EndOfStream(s)
    \/ Gate \/ Others

\* The loop and the two collectors are threads of a live process, and time
\* passes.  Nothing is assumed of a gate's processes.
Fairness ==
    /\ WF_vars(Supervise) /\ WF_vars(DeadlinePasses)
    /\ \A s \in Streams : WF_vars(Collect(s) \/ EndOfStream(s))

Spec == Init /\ [][Next]_vars /\ Fairness

(***************************************************************************)
(* Properties                                                              *)
(***************************************************************************)

\* Every variable keeps its type; what an alias or a binding names was found,
\* and never below the repository or a temporary root.
TypeOK ==
    /\ pc \in Supervised \cup {"mkdir", "scan", "link", "confirm", "confirm_entries", "entries", "ready",
                               "failed", "refused", "remove", "clean"}
    /\ tmp \in {0, Own, Other} /\ gates \in 0 .. MaxGates /\ outcome \in {"none", "ok", "error"}
    /\ \A n \in DOMAIN found : found[n] \in Paths \ Refused
    /\ \A p \in Processes : proc[p].holds # {} => proc[p].live
    /\ \A s \in Streams : kept[s] <= read[s] /\ read[s] <= written[s]

\* A gate that is reported to have ended left its whole output, within the
\* limit, and nobody who could still write to it: execute returns an outcome
\* only after the collectors have reached the end of both streams.
OutcomeIsComplete ==
    At("ready") /\ outcome = "ok" =>
        /\ ~proc[Leader].live
        /\ kept = written
        /\ kept["stdout"] + kept["stderr"] <= Limit
        /\ \A p \in Processes : proc[p].holds = {}

\* A gate runs with the executables, aliases and scratch directory its launch
\* bound, except for what changed after the check of this very gate began:
\* whatever changed earlier, the manifest included, was refused.
RunsBoundTools ==
    At("limit") =>
        /\ "tmp" \in touched \/ tmp = bound.tmp
        /\ \A n \in DOMAIN bound.entries :
              LET entry == bound.entries[n]
              IN  /\ entry.path \in touched \/ content[entry.path] = entry.integrity
                  /\ n \in touched \/ alias[n] = entry.path

\* As long as who leaves its group closes its streams, every gate comes to an end,
\* whatever they do with their streams: a background process of a shell that
\* has exited is killed at the deadline.
EveryGateEnds == pc \in Supervised ~> At("ready")

\* "descendants cannot outlive the gate timeout by retaining stdout or stderr"
\* (the supervision loop): once the group is killed nobody holds a stream.
NobodyOutlivesTheDeadline ==
    pc \in {"wait", "wait_late", "join", "join_late"} => \A p \in Processes : proc[p].holds = {}
=============================================================================
