------------------------------ MODULE Packages ------------------------------
(***************************************************************************)
(* The commands that move a project's packages, interleaved: nopal update, *)
(* nopal sync and the inspection a launch does                             *)
(* (nopal-cli/distribution_adapter.rs, launch.rs).  Projects share one     *)
(* package store.  Update and sync hold the store's mutation lock from     *)
(* their first read to their report; a launch holds nothing.  Everything   *)
(* outside Nopal may change the documents, a workspace package, the store  *)
(* or the registry between any two steps, at most MaxDisturbances times.   *)
(*                                                                         *)
(* Staging trees, displaced trees and temporary lock files carry the       *)
(* process id and a nonce in their names: nobody but their owner looks at  *)
(* them, and what a dead command leaves of them is not observable here.    *)
(***************************************************************************)
EXTENDS Distribution, TLC

CONSTANTS Commands, Projects,
          Contracts,       \* the contracts a project's author may write
          Checkout,        \* project -> [bundle, lock], what its repository holds at first
          Installed,       \* identities earlier syncs of other projects have installed
          Builtin,         \* the executing distribution, [name, version, files]
          Roots,           \* workspace roots -> the package trees they may hold
          Answers,         \* <<package, version>> -> what the registry may answer
          Damage,          \* what a damaged store entry may hold
          MaxBegins, MaxDisturbances

Free == "free"
Keys == DOMAIN Answers
Identities == UNION {{<<k[1], a.version, a.artifact>> : a \in Answers[k]} : k \in Keys}

\* The tree an archive unpacks to: its integrity fixes its bytes.
ArchiveOf(artifact) == (CHOOSE a \in UNION {Answers[k] : k \in Keys} : a.artifact = artifact).tree

ASSUME ConstantsAssumption ==
    /\ Absent # Broken /\ {Absent, Broken} \cap Contracts = {} /\ Free \notin Commands
    /\ \A p \in Projects : Checkout[p].bundle \in Contracts \cup {Absent, Broken}
    /\ \A text \in Contracts :
          /\ text.packages \in Seq(Elements(text.packages))
          /\ \A r \in Elements(text.packages) : r.kind \in {"builtin", "workspace", "npm"}
    /\ \A k \in Keys : Answers[k] # {}
    /\ MaxBegins \in Nat /\ MaxDisturbances \in Nat

\* Bytes with the same integrity are the same bytes.
ASSUME IntegrityAssumption ==
    \A k, l \in Keys : \A a \in Answers[k], b \in Answers[l] : a.artifact = b.artifact => a.tree = b.tree

VARIABLES bundle,    \* project -> contract text on disk
          lock,      \* project -> lock text on disk
          workspace, \* project -> root -> package tree
          store,     \* identity -> installed package
          registry,  \* <<package, version>> -> answer or Absent
          holder,    \* who holds the mutation lock
          cmd,       \* command -> its local state
          begins, disturbances,
          damaged,   \* for the properties: identities somebody damaged since their last install
          calm       \* for the properties: command -> nothing went wrong around it since it read the contract

world == <<bundle, lock, workspace, store, registry>>
vars == <<bundle, lock, workspace, store, registry, holder, cmd, begins, disturbances, damaged, calm>>

World(p) == [builtin |-> Builtin, workspace |-> workspace[p], store |-> store]

NoReport == [by |-> "none", ok |-> FALSE, wrote |-> FALSE]
Idle == [pc |-> "idle", kind |-> "none", project |-> Absent, write |-> FALSE, text |-> Absent,
         pinned |-> Absent, todo |-> {}, evidence |-> NoEvidence, failed |-> FALSE,
         proposal |-> Absent, tree |-> Absent, old |-> Absent, changed |-> FALSE, report |-> NoReport]

\* The npm requests of a contract, by their places; what is done with them is
\* done in their order.
Requests(text) == {i \in DOMAIN text.packages : text.packages[i].kind = "npm"}
First(S) == CHOOSE i \in S : \A j \in S : i <= j
Asked(c) == cmd[c].text.packages[First(cmd[c].todo)]
Rest(c) == cmd[c].todo \ {First(cmd[c].todo)}

\* What is under an identity in the store.
Stored(id) == IF id \in Identities THEN store[id] ELSE Absent

Init ==
    /\ bundle = [p \in Projects |-> Checkout[p].bundle]
    /\ lock = [p \in Projects |-> Checkout[p].lock]
    /\ workspace = [p \in Projects |-> [root \in DOMAIN Roots |-> CHOOSE tree \in Roots[root] : tree # Absent]]
    /\ store = [id \in Identities |-> IF id \in Installed THEN ArchiveOf(id[3]) ELSE Absent]
    /\ registry = [k \in Keys |-> CHOOSE answer \in Answers[k] : TRUE]
    /\ holder = Free
    /\ cmd = [c \in Commands |-> Idle]
    /\ begins = 0 /\ disturbances = 0
    /\ damaged = {}
    /\ calm = [c \in Commands |-> FALSE]

(***************************************************************************)
(* Steps every command shares                                              *)
(***************************************************************************)

At(c, pc) == cmd[c].pc = pc
Goto(c, pc) == cmd' = [cmd EXCEPT ![c].pc = pc]

\* The report ends a command and drops its guard, the mutation lock.
Report(c, ok, wrote) ==
    /\ cmd' = [cmd EXCEPT ![c] = [Idle EXCEPT !.report = [by |-> cmd[c].kind, ok |-> ok, wrote |-> wrote]]]
    /\ holder' = IF holder = c THEN Free ELSE holder

Begin(c, p, kind, write) ==
    /\ At(c, "idle") /\ begins < MaxBegins
    /\ cmd' = [cmd EXCEPT ![c] = [Idle EXCEPT !.kind = kind, !.project = p, !.write = write,
                                              !.pc = IF kind = "launch" THEN "look" ELSE "acquire"]]
    /\ begins' = begins + 1
    /\ calm' = [calm EXCEPT ![c] = FALSE]
    /\ UNCHANGED <<world, holder, disturbances, damaged>>

\* lock_exclusive blocks without a bound.
Acquire(c) ==
    /\ At(c, "acquire") /\ holder = Free
    /\ holder' = c
    /\ Goto(c, "read")
    /\ calm' = [calm EXCEPT ![c] = TRUE]
    /\ UNCHANGED <<world, begins, disturbances, damaged>>

\* load_bundle_text and package_requests
ReadBundle(c) ==
    LET text == bundle[cmd[c].project]
    IN  /\ At(c, "read")
        /\ IF text = Absent \/ (cmd[c].kind = "update" /\ BundleCodes(text) # {})
           THEN Report(c, FALSE, FALSE)
           ELSE /\ cmd' = [cmd EXCEPT ![c].text = text,
                                      ![c].todo = IF cmd[c].kind = "update" THEN Requests(text) ELSE {},
                                      ![c].pc = IF cmd[c].kind = "update" THEN "resolve" ELSE "read_lock"]
                /\ UNCHANGED holder
        /\ UNCHANGED <<world, begins, disturbances, damaged, calm>>

(***************************************************************************)
(* npm pack and everything checked about its answer.  A call may fail for  *)
(* reasons of its own: no network, the 120 s deadline, output past its     *)
(* limits, an archive past its limits.                                     *)
(***************************************************************************)

Answered(package, version) ==
    LET key == <<package, version>>
    IN  IF key \in Keys /\ registry[key] # Absent /\ Acceptable(registry[key], package)
        THEN registry[key] ELSE Absent

\* The same with a lock in hand.
Fetched(r, p) ==
    LET answer == Answered(r.package, p.resolved)
    IN  IF answer # Absent /\ Pins(p, answer) THEN answer ELSE Absent

(***************************************************************************)
(* nopal update                                                            *)
(***************************************************************************)

\* Every npm request is asked before any failure is reported.
Resolve(c) ==
    /\ At(c, "resolve") /\ cmd[c].todo # {}
    /\ LET r == Asked(c)
           answer == Answered(r.package, r.requirement)
       IN  \/ /\ answer # Absent
              /\ cmd' = [cmd EXCEPT ![c].todo = Rest(c), ![c].evidence = (r.id :> answer) @@ @]
              /\ UNCHANGED calm
           \/ /\ cmd' = [cmd EXCEPT ![c].todo = Rest(c), ![c].failed = TRUE]
              /\ calm' = [calm EXCEPT ![c] = FALSE]
    /\ UNCHANGED <<world, holder, begins, disturbances, damaged>>

BuildProposal(c) ==
    LET w == World(cmd[c].project)
    IN  /\ At(c, "resolve") /\ cmd[c].todo = {}
        /\ IF cmd[c].failed \/ BuildCodes(w, cmd[c].text, cmd[c].evidence) # {}
           THEN Report(c, FALSE, FALSE)
           ELSE /\ cmd' = [cmd EXCEPT ![c].proposal = BuiltLock(w, cmd[c].text, cmd[c].evidence),
                                      ![c].pc = "recheck"]
                /\ UNCHANGED holder
        /\ UNCHANGED <<world, begins, disturbances, damaged, calm>>

\* The contract must not have changed while the packages were resolved.
RecheckBundle(c) ==
    /\ At(c, "recheck")
    /\ IF bundle[cmd[c].project] = cmd[c].text
       THEN Goto(c, "rebuild") /\ UNCHANGED holder
       ELSE Report(c, FALSE, FALSE)
    /\ UNCHANGED <<world, begins, disturbances, damaged, calm>>

\* Nor may the local trees.
Rebuild(c) ==
    LET w == World(cmd[c].project)
    IN  /\ At(c, "rebuild")
        /\ IF /\ BuildCodes(w, cmd[c].text, cmd[c].evidence) = {}
              /\ BuiltLock(w, cmd[c].text, cmd[c].evidence) = cmd[c].proposal
           THEN IF cmd[c].write THEN Goto(c, "publish") /\ UNCHANGED holder
                ELSE Report(c, TRUE, FALSE)
           ELSE Report(c, FALSE, FALSE)
        /\ UNCHANGED <<world, begins, disturbances, damaged, calm>>

\* write_text_durable: the rename is the whole write for everybody else.
Publish(c) ==
    /\ At(c, "publish")
    /\ lock' = [lock EXCEPT ![cmd[c].project] = cmd[c].proposal]
    /\ Goto(c, "reread")
    /\ UNCHANGED <<bundle, workspace, store, registry, holder, begins, disturbances, damaged, calm>>

RereadLock(c) ==
    /\ At(c, "reread")
    /\ IF lock[cmd[c].project] = cmd[c].proposal
       THEN Goto(c, "confirm") /\ UNCHANGED holder
       ELSE Report(c, FALSE, TRUE)
    /\ UNCHANGED <<world, begins, disturbances, damaged, calm>>

\* Mutant: the contract is not looked at again.
ConfirmBundle_Trusting(c) ==
    /\ At(c, "confirm")
    /\ Report(c, TRUE, TRUE)
    /\ UNCHANGED <<world, begins, disturbances, damaged, calm>>

ConfirmBundle(c) ==
    /\ At(c, "confirm")
    /\ Report(c, bundle[cmd[c].project] = cmd[c].text, TRUE)
    /\ UNCHANGED <<world, begins, disturbances, damaged, calm>>

(***************************************************************************)
(* nopal sync                                                              *)
(***************************************************************************)

\* load_lock_text and the first inspection, of the texts just read
JudgeSync(c) ==
    LET p == cmd[c].project
        text == cmd[c].text
        pinned == lock[p]
        codes == InspectCodes(World(p), text, pinned)
    IN  /\ At(c, "read_lock")
        /\ IF pinned = Absent THEN Report(c, FALSE, FALSE)
           ELSE IF codes = {} THEN Report(c, TRUE, FALSE)
           ELSE IF codes \cap Hopeless # {} \/ BundleCodes(text) # {} \/ LockCodes(pinned) # {} THEN Report(c, FALSE, FALSE)
           ELSE /\ cmd' = [cmd EXCEPT ![c].pinned = pinned, ![c].todo = Requests(text), ![c].pc = "check"]
                /\ UNCHANGED holder
        /\ UNCHANGED <<world, begins, disturbances, damaged, calm>>

Current(c) == LockedAs(cmd[c].pinned, Asked(c).id)

\* Mutant: whatever is installed will do.
SkipExact_Present(c) ==
    /\ At(c, "check") /\ cmd[c].todo # {}
    /\ Stored(Identity(Current(c))) # Absent
    /\ cmd' = [cmd EXCEPT ![c].todo = Rest(c)]
    /\ UNCHANGED <<world, holder, begins, disturbances, damaged, calm>>

SkipExact(c) ==
    /\ At(c, "check") /\ cmd[c].todo # {}
    /\ IsExact(Stored(Identity(Current(c))), Current(c))
    /\ cmd' = [cmd EXCEPT ![c].todo = Rest(c)]
    /\ UNCHANGED <<world, holder, begins, disturbances, damaged, calm>>

\* Mutant: every package is fetched anew.
Fetch_Always(c) ==
    /\ At(c, "check") /\ cmd[c].todo # {}
    /\ LET answer == Fetched(Asked(c), Current(c))
       IN  /\ answer # Absent /\ IsExact(answer.tree, Current(c))
           /\ cmd' = [cmd EXCEPT ![c].tree = answer.tree, ![c].pc = "displace"]
    /\ UNCHANGED <<world, holder, begins, disturbances, damaged, calm>>

\* resolve_npm against the lock, then verify_locked_tree.  The failure report
\* says "unchanged" whatever was installed before.
Fetch(c) ==
    /\ At(c, "check") /\ cmd[c].todo # {}
    /\ ~IsExact(Stored(Identity(Current(c))), Current(c))
    /\ LET answer == Fetched(Asked(c), Current(c))
       IN  \/ /\ answer # Absent /\ IsExact(answer.tree, Current(c))
              /\ cmd' = [cmd EXCEPT ![c].tree = answer.tree, ![c].pc = "displace"]
              /\ UNCHANGED <<holder, calm>>
           \/ /\ answer # Absent /\ ~IsExact(answer.tree, Current(c))
              /\ Report(c, FALSE, FALSE)
              /\ UNCHANGED calm
           \/ /\ Report(c, FALSE, FALSE)
              /\ calm' = [calm EXCEPT ![c] = FALSE]
    /\ UNCHANGED <<world, begins, disturbances, damaged>>

\* Mutant: the tree is written file by file where it belongs.
Displace_InPlace(c) ==
    LET id == Identity(Current(c))
    IN  /\ At(c, "displace")
        /\ cmd' = [cmd EXCEPT ![c].old = Stored(id), ![c].pc = "install"]
        /\ store' = [store EXCEPT ![id] = [cmd[c].tree EXCEPT !.files = <<>>]]
        /\ UNCHANGED <<bundle, lock, workspace, registry, holder, begins, disturbances, damaged, calm>>

\* install_tree: the staged copy is compared with its source, then what is in
\* the way moves aside.
Displace(c) ==
    LET id == Identity(Current(c))
    IN  /\ At(c, "displace")
        /\ cmd' = [cmd EXCEPT ![c].old = Stored(id), ![c].pc = "install"]
        /\ store' = [store EXCEPT ![id] = Absent]
        /\ UNCHANGED <<bundle, lock, workspace, registry, holder, begins, disturbances, damaged, calm>>

Install(c) ==
    LET id == Identity(Current(c))
    IN  /\ At(c, "install") /\ store[id] = Absent
        /\ store' = [store EXCEPT ![id] = cmd[c].tree]
        /\ damaged' = damaged \ {id}
        /\ cmd' = [cmd EXCEPT ![c].tree = Absent, ![c].old = Absent, ![c].changed = TRUE,
                              ![c].todo = Rest(c), ![c].pc = "check"]
        /\ UNCHANGED <<bundle, lock, workspace, registry, holder, begins, disturbances, calm>>

\* The second rename fails: the displaced tree goes back and the command ends.
InstallFails(c) ==
    LET id == Identity(Current(c))
    IN  /\ At(c, "install")
        /\ store' = [store EXCEPT ![id] = IF store[id] = Absent THEN cmd[c].old ELSE @]
        /\ Report(c, FALSE, FALSE)
        /\ calm' = [calm EXCEPT ![c] = FALSE]
        /\ UNCHANGED <<bundle, lock, workspace, registry, begins, disturbances, damaged>>

(***************************************************************************)
(* inspect: the end of a sync, and what a launch of a configured project   *)
(* looks at.  It reads the contract, then the lock, then the trees.        *)
(***************************************************************************)

InspectStarts(c) ==
    \/ At(c, "look") /\ cmd[c].kind = "launch"
    \/ At(c, "check") /\ cmd[c].todo = {}

LookAtBundle(c) ==
    LET text == bundle[cmd[c].project]
    IN  /\ InspectStarts(c)
        /\ IF text = Absent THEN Report(c, FALSE, FALSE)
           ELSE /\ cmd' = [cmd EXCEPT ![c].text = text, ![c].pc = "look_lock"]
                /\ UNCHANGED holder
        /\ UNCHANGED <<world, begins, disturbances, damaged, calm>>

LookAtLock(c) ==
    LET pinned == lock[cmd[c].project]
    IN  /\ At(c, "look_lock")
        /\ IF pinned = Absent THEN Report(c, FALSE, FALSE)
           ELSE /\ cmd' = [cmd EXCEPT ![c].pinned = pinned, ![c].pc = "look_trees"]
                /\ UNCHANGED holder
        /\ UNCHANGED <<world, begins, disturbances, damaged, calm>>

\* A launch hands the paths it has just checked to Pi; ambient extensions are
\* the one thing a valid contract may ask for and a launch refuses.
LookAtTrees(c) ==
    LET ok == InspectCodes(World(cmd[c].project), cmd[c].text, cmd[c].pinned) = {}
    IN  /\ At(c, "look_trees")
        /\ IF cmd[c].kind = "launch" /\ ok /\ "extensions" \notin cmd[c].text.ambient
           THEN Goto(c, "session") /\ UNCHANGED holder
           ELSE Report(c, ok /\ cmd[c].kind = "sync", cmd[c].changed)
        /\ UNCHANGED <<world, begins, disturbances, damaged, calm>>

EndSession(c) ==
    /\ At(c, "session")
    /\ Report(c, TRUE, FALSE)
    /\ UNCHANGED <<world, begins, disturbances, damaged, calm>>

(***************************************************************************)
(* What happens around the commands                                        *)
(***************************************************************************)

\* Mutant: the lock is a file somebody has to remove.
Crash_Holding(c) ==
    /\ ~At(c, "idle") /\ disturbances < MaxDisturbances
    /\ cmd' = [cmd EXCEPT ![c] = Idle]
    /\ disturbances' = disturbances + 1
    /\ UNCHANGED <<world, holder, begins, damaged, calm>>

\* The process dies: the operating system drops its file lock.
Crash(c) ==
    /\ ~At(c, "idle") /\ disturbances < MaxDisturbances
    /\ cmd' = [cmd EXCEPT ![c] = Idle]
    /\ holder' = IF holder = c THEN Free ELSE holder
    /\ disturbances' = disturbances + 1
    /\ UNCHANGED <<world, begins, damaged, calm>>

Disturbed ==
    /\ disturbances < MaxDisturbances
    /\ disturbances' = disturbances + 1
    /\ calm' = [c \in Commands |-> FALSE]
    /\ UNCHANGED <<holder, cmd, begins>>

EditBundle(p) ==
    /\ Disturbed
    /\ bundle' \in {[bundle EXCEPT ![p] = text] : text \in (Contracts \cup {Broken}) \ {bundle[p]}}
    /\ UNCHANGED <<lock, workspace, store, registry, damaged>>

\* A hand edit, a bad merge: another tree is pinned, or nothing readable is left.
EditLock(p) ==
    /\ Disturbed
    /\ \/ lock' = [lock EXCEPT ![p] = Broken]
       \/ /\ lock[p] \notin {Absent, Broken}
          /\ \E i \in DOMAIN lock[p].packages, tree \in Damage :
                lock' = [lock EXCEPT ![p].packages[i].tree = tree]
    /\ UNCHANGED <<bundle, workspace, store, registry, damaged>>

EditWorkspace(p) ==
    /\ Disturbed
    /\ \E root \in DOMAIN Roots : \E tree \in Roots[root] \ {workspace[p][root]} :
          workspace' = [workspace EXCEPT ![p][root] = tree]
    /\ UNCHANGED <<bundle, lock, store, registry, damaged>>

DamageStore ==
    /\ Disturbed
    /\ \E id \in Identities : \E tree \in (Damage \cup {Absent}) \ {store[id]} :
          store' = [store EXCEPT ![id] = tree] /\ damaged' = damaged \cup {id}
    /\ UNCHANGED <<bundle, lock, workspace, registry>>

Republish ==
    /\ Disturbed
    /\ \E k \in Keys : \E answer \in (Answers[k] \cup {Absent}) \ {registry[k]} :
          registry' = [registry EXCEPT ![k] = answer]
    /\ UNCHANGED <<bundle, lock, workspace, store, damaged>>

(***************************************************************************)
(* The specification                                                       *)
(***************************************************************************)

Update(c) == Resolve(c) \/ BuildProposal(c) \/ RecheckBundle(c) \/ Rebuild(c) \/ Publish(c) \/ RereadLock(c) \/ ConfirmBundle(c)
Sync(c) == JudgeSync(c) \/ SkipExact(c) \/ Fetch(c) \/ Displace(c) \/ Install(c) \/ InstallFails(c)
Inspect(c) == LookAtBundle(c) \/ LookAtLock(c) \/ LookAtTrees(c)
Step(c) == Acquire(c) \/ ReadBundle(c) \/ Update(c) \/ Sync(c) \/ Inspect(c)

Environment ==
    \/ \E c \in Commands : Crash(c)
    \/ \E p \in Projects : EditBundle(p) \/ EditLock(p) \/ EditWorkspace(p)
    \/ DamageStore \/ Republish

Next ==
    \/ \E c \in Commands : Step(c) \/ EndSession(c)
    \/ \E c \in Commands, p \in Projects :
          \/ \E write \in BOOLEAN : Begin(c, p, "update", write)
          \/ Begin(c, p, "sync", FALSE)
          \/ Begin(c, p, "launch", FALSE)
    \/ Environment

\* As long as a command can run, one does.  Nobody begins commands for ever,
\* so this little is enough for a waiter to get the mutation lock.
Fairness == WF_vars(\E c \in Commands : Step(c))

Spec == Init /\ [][Next]_vars /\ Fairness

(***************************************************************************)
(* Properties                                                              *)
(***************************************************************************)

Locations == {"idle", "acquire", "read", "resolve", "recheck", "rebuild", "publish", "reread", "confirm",
              "read_lock", "check", "displace", "install", "look", "look_lock", "look_trees", "session"}

\* Every variable keeps its type, and only a command between its first read
\* and its report holds the mutation lock: update and sync of
\* distribution_adapter.rs keep the guard to their last line.
TypeOK ==
    /\ \A p \in Projects : bundle[p] \in Contracts \cup {Broken, Absent}
    /\ \A id \in Identities : store[id] \in {ArchiveOf(id[3]), Absent} \cup Damage
    /\ holder \in Commands \cup {Free}
    /\ \A c \in Commands : cmd[c].pc \in Locations
    /\ \A c \in Commands :
          holder = c <=> cmd[c].kind \in {"update", "sync"} /\ ~At(c, "idle") /\ ~At(c, "acquire")
    /\ begins \in 0 .. MaxBegins /\ disturbances \in 0 .. MaxDisturbances

\* What the store holds under an identity is nothing or the whole tree of the
\* archive with that integrity, unless somebody outside damaged it: however
\* many projects sync at once, whatever their locks pin, and whenever one dies.
StoreHoldsArchives ==
    \A id \in Identities \ damaged : store[id] \in {Absent, ArchiveOf(id[3])}

\* A session's npm packages stay on disk as they were checked: no later sync,
\* of its own project or of another with another lock, moves them away.  (A
\* lock edited to pin a damaged tree is the exception: syncing another project
\* puts the archive's tree back.)
SessionKeepsItsPackages ==
    \A c \in Commands : At(c, "session") =>
        \A q \in Elements(cmd[c].pinned.packages) :
            /\ q.kind = "npm" /\ Identity(q) \notin damaged
            /\ IsExact(ArchiveOf(q.artifact), q)
            => IsExact(Stored(Identity(q)), q)

\* An update that reports a written lock left the lock of a contract, the one
\* that is on disk at that moment, or somebody outside replaced the lock after the
\* update had read it back.
UpdateReportIsTrue ==
    [][\A c \in Commands :
          /\ cmd[c].kind = "update" /\ cmd'[c].report.by = "update"
          /\ cmd'[c].report.ok /\ cmd'[c].report.wrote /\ lock[cmd[c].project] = cmd[c].proposal
          => /\ bundle[cmd[c].project] \notin {Absent, Broken}
             /\ lock[cmd[c].project].digest = Digest(bundle[cmd[c].project])]_vars

\* A sync around which nothing changes and no call fails ends with the
\* installed packages current, whatever state the store was in, unless the
\* contract, the lock, a local package or the registry needs its author.
Repairable(p) ==
    /\ {bundle[p], lock[p]} \cap {Absent, Broken} = {}
    /\ \A i \in Requests(bundle[p]) :
          LET r == bundle[p].packages[i]
          IN  /\ r.id \in {q.id : q \in Elements(lock[p].packages)}
              /\ Fetched(r, LockedAs(lock[p], r.id)) # Absent
    /\ InspectCodes([World(p) EXCEPT !.store = [id \in Identities |-> ArchiveOf(id[3])]], bundle[p], lock[p]) = {}
SyncRepairs ==
    [][\A c \in Commands :
          cmd[c].kind = "sync" /\ cmd'[c].report.by = "sync" /\ calm[c] /\ calm'[c] /\ Repairable(cmd[c].project)
              => cmd'[c].report.ok]_vars

\* Every update and sync comes to its report or dies: failures, refusals and
\* deaths of others give the mutation lock back.
EveryCommandEnds == \A c \in Commands : At(c, "acquire") ~> At(c, "idle")
=============================================================================
