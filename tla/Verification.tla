---------------------------- MODULE Verification ----------------------------
(***************************************************************************)
(* The verification transaction (crates/nopal-cli/src/verification.rs)     *)
(* with the plan and the evidence codecs of the core (enforcement.rs), and *)
(* its two callers: the guard of a Pi session, which holds a lease for     *)
(* each protected call, and headless `nopal verify` (main.rs), which opens *)
(* and closes a run of its own.                                            *)
(*                                                                         *)
(* A transaction observes the workspace, plans, runs the gates that are    *)
(* not proven yet one after the other, observes again after each, and      *)
(* starts over, at most MaxPasses times.  Between its steps the user may   *)
(* edit the workspace or the contract, other transactions run, a session   *)
(* may end, and its process may be killed: a gate it was running then      *)
(* lives on, because it is the leader of a process group of its own.       *)
(*                                                                         *)
(* The binding of an authorization is a subject: the exact call, the       *)
(* contract and the workspace.  Decision and gates are functions of it.    *)
(***************************************************************************)
EXTENDS Integers, Sequences, FiniteSets

CONSTANTS
    Txns,        \* protected calls, and headless verifications
    Headless,    \* the latter: evidence only, nothing is released
    Exclusive,   \* calls the guard lets run only alone
    Runs, RunOf, \* ledgers, and the one each transaction writes to
    Gates, Contracts, Workspaces,
    Decision,    \* of a subject: "allow", "ask" or "deny"
    Selected,    \* of a subject: its gates, in order
    Leaves,      \* the workspace a gate leaves behind
    Accepts,     \* the workspaces on which a gate exits with 0
    NoSubject,
    MaxPasses,   \* MAX_CONVERGENCE_PASSES, 3 in the code
    MaxDisturbances \* bound on the user's edits and the faults together

Subject == [txn: Txns, contract: Contracts, workspace: Workspaces]
GateSet(s) == {Selected[s][i] : i \in DOMAIN Selected[s]}

ASSUME ConstantsAssumption ==
    /\ Headless \subseteq Txns /\ Exclusive \subseteq Txns
    /\ RunOf \in [Txns -> Runs]
    /\ Decision \in [Subject -> {"allow", "ask", "deny"}]
    /\ Selected \in [Subject -> Seq(Gates)]
    /\ \A s \in Subject : Decision[s] = "deny" => Selected[s] = <<>>
    /\ Leaves \in [Gates -> [Workspaces -> Workspaces]]
    /\ Accepts \in [Gates -> SUBSET Workspaces]
    /\ NoSubject \notin Subject
    /\ MaxPasses \in Nat \ {0} /\ MaxDisturbances \in Nat

\* Each headless verification has a run of its own.
ASSUME RunsAssumption ==
    \A h \in Headless : \A t \in Txns \ {h} : RunOf[h] # RunOf[t]

VARIABLES
    contract, workspace,           \* the project
    run,                           \* status of each run
    receipts, approvals, releases, \* enforcement artifacts, for all runs
    pc, pass,
    subject,   \* of each transaction: the subject of its plan
    seen,      \* the workspace it observed last
    todo,      \* positions, in the gates of the subject, of those still to run
    exit,      \* how the gate it ran last ended
    asked,     \* the guard has asked the user about this call
    orphans,   \* gates whose transaction was killed
    edits, faults,
    earned     \* history: a gate exited with 0 and left this workspace

project   == <<contract, workspace>>
artifacts == <<receipts, approvals, releases>>
locals    == <<subject, seen, todo, exit, asked>>
environ   == <<orphans, edits, faults>>
vars      == <<project, run, artifacts, pc, pass, locals, environ, earned>>

Init ==
    /\ contract \in Contracts /\ workspace \in Workspaces
    /\ run = [r \in Runs |-> IF \E h \in Headless : RunOf[h] = r
                              THEN "none" ELSE "running"]
    /\ receipts = {} /\ approvals = {} /\ releases = {}
    /\ pc = [t \in Txns |-> "idle"]
    /\ pass = [t \in Txns |-> 0]
    /\ subject = [t \in Txns |-> NoSubject]
    /\ seen = [t \in Txns |-> workspace]
    /\ todo = [t \in Txns |-> {}]
    /\ exit = [t \in Txns |-> "none"]
    /\ asked = [t \in Txns |-> FALSE]
    /\ orphans = {} /\ edits = 0 /\ faults = 0
    /\ earned = {}

\* Ends of a transaction, as its caller sees them.
Ended  == {"blocked", "error", "diverged", "verified"}
Active(t) == pc[t] \notin {"idle", "over", "killed"}

Open(t) == run[RunOf[t]] = "running"
Seen(t) == [txn |-> t, contract |-> contract, workspace |-> seen[t]]

Go(t, p) == pc' = [pc EXCEPT ![t] = p]

\* The process of the transaction is gone, and all it knew.
Leave(t, p) ==
    /\ Go(t, p)
    /\ pass' = [pass EXCEPT ![t] = 0]
    /\ subject' = [subject EXCEPT ![t] = NoSubject]
    /\ todo' = [todo EXCEPT ![t] = {}]
    /\ exit' = [exit EXCEPT ![t] = "none"]
    /\ asked' = [asked EXCEPT ![t] = FALSE]
    /\ UNCHANGED seen

-----------------------------------------------------------------------------
(* The callers                                                             *)

\* Mutant: a call is taken for one that may share the workspace.
Begin_Shared(t) ==
    /\ pc[t] = "idle" /\ t \notin Headless
    /\ Open(t)
    /\ Go(t, "observe")
    /\ pass' = [pass EXCEPT ![t] = 1]
    /\ UNCHANGED <<project, run, artifacts, locals, environ, earned>>

\* The guard starts a transaction when its call may have the workspace.
Begin(t) ==
    /\ pc[t] = "idle" /\ t \notin Headless
    /\ Open(t)
    /\ \A u \in Txns \ (Headless \cup {t}) :
          Active(u) => t \notin Exclusive /\ u \notin Exclusive
    /\ Go(t, "observe")
    /\ pass' = [pass EXCEPT ![t] = 1]
    /\ UNCHANGED <<project, run, artifacts, locals, environ, earned>>

\* run_headless_verify creates its run and prepares the gate runtime.
InitRun(t) ==
    /\ pc[t] = "idle" /\ t \in Headless
    /\ run' = [run EXCEPT ![RunOf[t]] = "running"]
    /\ Go(t, "prepare")
    /\ UNCHANGED <<project, artifacts, pass, locals, environ, earned>>

Prepare(t) ==
    /\ pc[t] = "prepare"
    /\ Go(t, "observe")
    /\ pass' = [pass EXCEPT ![t] = 1]
    /\ UNCHANGED <<project, run, artifacts, locals, environ, earned>>

\* An executor is missing, or the contract does not parse: the error is
\* returned at once and the run left as it is.
PrepareFails(t) ==
    /\ pc[t] = "prepare"
    /\ Go(t, "over")
    /\ UNCHANGED <<project, run, artifacts, pass, locals, environ, earned>>

-----------------------------------------------------------------------------
(* The transaction                                                         *)

\* refresh_intent
Observe(t) ==
    /\ pc[t] = "observe"
    /\ seen' = [seen EXCEPT ![t] = workspace]
    /\ Go(t, "plan")
    /\ UNCHANGED <<project, run, artifacts, pass, subject, todo, exit, asked,
                   environ, earned>>

\* Mutant: a receipt counts whatever workspace it was given for.
Proven_AnyWorkspace(g, s) ==
    \E w \in Workspaces : <<g, [s EXCEPT !.workspace = w]>> \in receipts

\* receipt_is_current
Proven(g, s) == <<g, s>> \in receipts

\* Positions of the gates that are selected and not proven for the subject.
Unproven(s) == {i \in DOMAIN Selected[s] : ~Proven(Selected[s][i], s)}

\* The gate a transaction runs: the first of those to do.
First(S) == CHOOSE i \in S : \A j \in S : i <= j
Gate(t)  == Selected[subject[t]][First(todo[t])]
Later(t) == todo[t] \ {First(todo[t])}

\* Where a plan leads.
Planned(t) ==
    LET s == Seen(t)
    IN IF ~Open(t) THEN "error"  \* the decision is not recorded
       ELSE IF Decision[s] = "deny" THEN "blocked"
       ELSE IF Unproven(s) # {} THEN "gate"
       ELSE IF Decision[s] = "ask" /\ s \notin approvals THEN "approval_required"
       ELSE IF t \in Headless THEN "verified" ELSE "release"

Plan(t) ==
    /\ pc[t] = "plan"
    /\ Go(t, Planned(t))
    /\ subject' = [subject EXCEPT ![t] = Seen(t)]
    /\ todo' = [todo EXCEPT ![t] = Unproven(Seen(t))]
    /\ UNCHANGED <<project, run, artifacts, pass, seen, exit, asked, environ, earned>>

\* The gate itself: it reads the workspace, may change it, and exits.
GateEnds(t) ==
    /\ pc[t] = "gate"
    /\ LET g    == Gate(t)
           left == Leaves[g][workspace]
       IN /\ workspace' = left
          /\ IF workspace \in Accepts[g]
             THEN /\ exit' = [exit EXCEPT ![t] = "passed"]
                  /\ earned' = earned \cup {<<g, left>>}
             ELSE exit' = [exit EXCEPT ![t] = "failed"] /\ UNCHANGED earned
    /\ Go(t, "exited")
    /\ UNCHANGED <<contract, run, artifacts, pass, subject, seen, todo, asked, environ>>

\* Mutant: the receipt is bound to what was observed before the gate ran.
Reobserve_Stale(t) ==
    /\ pc[t] = "exited"
    /\ Go(t, "attempt")
    /\ UNCHANGED <<project, run, artifacts, pass, locals, environ, earned>>

\* refresh_intent again: a gate may have changed the workspace.
Reobserve(t) ==
    /\ pc[t] = "exited"
    /\ seen' = [seen EXCEPT ![t] = workspace]
    /\ Go(t, "attempt")
    /\ UNCHANGED <<project, run, artifacts, pass, subject, todo, exit, asked,
                   environ, earned>>

\* An attempt is recorded in an open run, while the contract is that of the plan
\* and still selects the gate; the receipt of a gate that passed is created once.
Recordable(t) ==
    LET g == Gate(t)
    IN /\ contract = subject[t].contract
       /\ g \in GateSet(Seen(t))
       /\ Open(t)
       /\ exit[t] = "passed" => ~Proven(g, Seen(t))

AttemptFails(t) ==
    /\ pc[t] = "attempt" /\ ~Recordable(t)
    /\ Go(t, "error")
    /\ UNCHANGED <<project, run, artifacts, pass, locals, environ, earned>>

\* What follows a recorded, passing gate: the next one, the next pass, or the
\* end of the last pass.
Onward(t) == IF Later(t) # {} THEN "gate"
             ELSE IF pass[t] < MaxPasses THEN "observe" ELSE "diverged"

\* Mutant: the loop stops one pass earlier.
NextPass_OneLess(t) ==
    /\ Go(t, IF Later(t) # {} THEN "gate"
             ELSE IF pass[t] < MaxPasses - 1 THEN "observe" ELSE "diverged")
    /\ pass' = [pass EXCEPT ![t] = IF pc'[t] = "observe" THEN @ + 1 ELSE @]
    /\ todo' = [todo EXCEPT ![t] = Later(t)]

NextPass(t) ==
    /\ Go(t, Onward(t))
    /\ pass' = [pass EXCEPT ![t] = IF Onward(t) = "observe" THEN @ + 1 ELSE @]
    /\ todo' = [todo EXCEPT ![t] = Later(t)]

\* gate_evidence_for_intent
RecordAttempt(t) ==
    /\ pc[t] = "attempt" /\ Recordable(t)
    /\ IF exit[t] = "passed"
       THEN receipts' = receipts \cup {<<Gate(t), Seen(t)>>} /\ NextPass(t)
       ELSE Go(t, "blocked") /\ UNCHANGED <<receipts, pass, todo>>
    /\ UNCHANGED <<project, run, approvals, releases, subject, seen, exit, asked,
                   environ, earned>>

\* A release is created once, in an open run, and consumes the approval.
Releasable(t) ==
    /\ Open(t) /\ subject[t] \notin releases
    /\ Decision[subject[t]] = "ask" => subject[t] \in approvals

\* Mutant: the approval stays where it is.
Release_KeepsApproval(t) ==
    /\ pc[t] = "release" /\ Releasable(t)
    /\ releases' = releases \cup {subject[t]}
    /\ Go(t, "released")
    /\ UNCHANGED <<project, run, receipts, approvals, pass, locals, environ, earned>>

\* authorization_release_evidence
Release(t) ==
    /\ pc[t] = "release" /\ Releasable(t)
    /\ releases' = releases \cup {subject[t]}
    /\ approvals' = approvals \ {subject[t]}
    /\ Go(t, "released")
    /\ UNCHANGED <<project, run, receipts, pass, locals, environ, earned>>

ReleaseFails(t) ==
    /\ pc[t] = "release" /\ ~Releasable(t)
    /\ Go(t, "error")
    /\ UNCHANGED <<project, run, artifacts, pass, locals, environ, earned>>

\* A command of the transaction fails: git, a file, the ledger.
Fails(t) ==
    /\ edits + faults < MaxDisturbances
    /\ pc[t] \in {"observe", "plan", "exited", "attempt", "release"}
    /\ Go(t, "error")
    /\ faults' = faults + 1
    /\ UNCHANGED <<project, run, artifacts, pass, locals, orphans, edits, earned>>

\* The gate runs for too long or says too much: its group is killed, whatever
\* it has done to the workspace stays.
GateKilled(t) ==
    /\ edits + faults < MaxDisturbances
    /\ pc[t] = "gate"
    /\ workspace' \in {workspace, Leaves[Gate(t)][workspace]}
    /\ Go(t, "error")
    /\ faults' = faults + 1
    /\ UNCHANGED <<contract, run, artifacts, pass, locals, orphans, edits, earned>>

\* The process is killed; the gate it was running is not.
Kill(t) ==
    /\ edits + faults < MaxDisturbances
    /\ Active(t) /\ pc[t] \notin Ended \cup {"approval_required", "released"}
    /\ Leave(t, "killed")
    /\ orphans' = IF pc[t] = "gate" THEN orphans \cup {Gate(t)} ELSE orphans
    /\ faults' = faults + 1
    /\ UNCHANGED <<project, run, artifacts, edits, earned>>

-----------------------------------------------------------------------------
(* The callers, again                                                      *)

\* The guard asks once and has the answer recorded, if the subject is still the
\* current one (record-approval observes and plans anew); after a yes it starts
\* the transaction again.
Respond(t, yes) ==
    /\ pc[t] = "approval_required" /\ t \notin Headless /\ ~asked[t]
    /\ LET current == Open(t) /\ contract = subject[t].contract
                      /\ workspace = subject[t].workspace
       IN /\ approvals' = IF ~current THEN approvals
                          ELSE IF yes THEN approvals \cup {subject[t]}
                          ELSE approvals \ {subject[t]}
          /\ IF yes /\ current
             THEN /\ Go(t, "observe")
                  /\ pass' = [pass EXCEPT ![t] = 1]
                  /\ asked' = [asked EXCEPT ![t] = TRUE]
                  /\ UNCHANGED <<subject, seen, todo, exit>>
             ELSE Leave(t, "over")
    /\ UNCHANGED <<project, run, receipts, releases, environ, earned>>

\* After a question the guard takes a release only on the consent.
LetThrough(t) == asked[t] => Decision[subject[t]] = "ask"

\* The released tool runs, has its effect, and its lease is given back.
ToolEnds(t) ==
    /\ pc[t] = "released"
    /\ workspace' \in IF t \in Exclusive /\ LetThrough(t) THEN Workspaces ELSE {workspace}
    /\ Leave(t, "over")
    /\ UNCHANGED <<contract, run, artifacts, environ, earned>>

\* Without a release the lease is given back at once.
NotReleased(t) ==
    /\ t \notin Headless
    /\ pc[t] \in Ended \/ (pc[t] = "approval_required" /\ asked[t])
    /\ Leave(t, "over")
    /\ UNCHANGED <<project, run, artifacts, environ, earned>>

\* How a headless verification closes its run.
Verdict(t) == CASE pc[t] = "verified"              -> "completed"
                [] pc[t] = "blocked"               -> "failed"
                [] OTHER                           -> "interrupted"

\* The gate runtime is removed and the run closed.
CloseHeadless(t) ==
    /\ t \in Headless
    /\ pc[t] \in Ended \cup {"approval_required"}
    /\ run' = [run EXCEPT ![RunOf[t]] = Verdict(t)]
    /\ Go(t, "over")
    /\ UNCHANGED <<project, artifacts, pass, locals, environ, earned>>

\* The removal fails.
CleanupFails(t) ==
    /\ t \in Headless
    /\ pc[t] \in Ended \cup {"approval_required"}
    /\ edits + faults < MaxDisturbances
    /\ run' = [run EXCEPT ![RunOf[t]] = "interrupted"]
    /\ Go(t, "over")
    /\ faults' = faults + 1
    /\ UNCHANGED <<project, artifacts, pass, locals, orphans, edits, earned>>

-----------------------------------------------------------------------------
(* Around it                                                               *)

OrphanEnds(g) ==
    /\ g \in orphans
    /\ workspace' = Leaves[g][workspace]
    /\ orphans' = orphans \ {g}
    /\ UNCHANGED <<contract, run, artifacts, pc, pass, locals, edits, faults, earned>>

UserEdits ==
    /\ edits + faults < MaxDisturbances
    /\ edits' = edits + 1
    /\ contract' \in Contracts /\ workspace' \in Workspaces
    /\ UNCHANGED <<run, artifacts, pc, pass, locals, orphans, faults, earned>>

\* A Pi session shuts down, whatever its calls are doing.  Whether its run is
\* finalized or interrupted makes no difference here: it is not open any more.
CloseSession(r) ==
    /\ run[r] = "running" /\ \A h \in Headless : RunOf[h] # r
    /\ run' = [run EXCEPT ![r] = "interrupted"]
    /\ UNCHANGED <<project, artifacts, pc, pass, locals, environ, earned>>

Advance(t) ==
    \/ Observe(t) \/ Plan(t) \/ GateEnds(t) \/ Reobserve(t)
    \/ AttemptFails(t) \/ RecordAttempt(t) \/ Release(t) \/ ReleaseFails(t)

Caller(t) == Begin(t) \/ InitRun(t) \/ Prepare(t) \/ PrepareFails(t)
             \/ (\E yes \in BOOLEAN : Respond(t, yes))
             \/ ToolEnds(t) \/ NotReleased(t) \/ CloseHeadless(t) \/ CleanupFails(t)

Next ==
    \/ \E t \in Txns : Advance(t) \/ Caller(t) \/ Fails(t) \/ GateKilled(t) \/ Kill(t)
    \/ \E g \in Gates : OrphanEnds(g)
    \/ \E r \in Runs : CloseSession(r)
    \/ UserEdits

Spec == Init /\ [][Next]_vars

-----------------------------------------------------------------------------
(* Properties                                                              *)

\* Every variable keeps its type.
TypeOK ==
    /\ contract \in Contracts /\ workspace \in Workspaces
    /\ run \in [Runs -> {"none", "running", "interrupted", "failed", "completed"}]
    /\ receipts \subseteq Gates \X Subject
    /\ approvals \subseteq Subject /\ releases \subseteq Subject
    /\ pc \in [Txns -> Ended \cup {"idle", "prepare", "observe", "plan", "gate",
                  "exited", "attempt", "release", "released",
                  "approval_required", "over", "killed"}]
    /\ pass \in [Txns -> 0..MaxPasses]
    /\ subject \in [Txns -> Subject \cup {NoSubject}]
    /\ seen \in [Txns -> Workspaces]
    /\ todo \in [Txns -> SUBSET Nat]
    /\ exit \in [Txns -> {"none", "passed", "failed"}]
    /\ asked \in [Txns -> BOOLEAN]
    /\ orphans \subseteq Gates
    /\ edits \in Nat /\ faults \in Nat /\ edits + faults <= MaxDisturbances
    /\ earned \subseteq Gates \X Workspaces

\* Nothing but the session's own calls touches the workspace.
Undisturbed == edits = 0 /\ \A h \in Headless : pc[h] = "idle"

\* The gates of a session's calls leave the workspace alone, unless the call has
\* it for itself: the code lets gates of shared calls run side by side.
SharedGatesRead ==
    \A s \in Subject : s.txn \notin Headless \cup Exclusive =>
        \A g \in GateSet(s), w \in Workspaces : Leaves[g][w] = w

\* The transaction implements ProvenRelease: a release takes effect once, for a
\* subject whose gates are all proven and on a consent of its own.
Promise == INSTANCE ProvenRelease
             WITH Required <- [s \in Subject |-> GateSet(s)],
                  Asked    <- {s \in Subject : Decision[s] = "ask"},
                  Denied   <- {s \in Subject : Decision[s] = "deny"},
                  proven <- receipts, approved <- approvals, released <- releases

ImplementsRelease == Promise!Spec

\* A receipt is for a workspace its gate passed on and left behind, unless
\* somebody else changed it meanwhile.
ReceiptIsEarned ==
    Undisturbed /\ faults = 0 =>
        \A r \in receipts : <<r[1], r[2].workspace>> \in earned

\* When a call is let through, the workspace is still the one its gates passed
\* on: no gate of a sibling or of its own came after.
ReleasedIsFresh ==
    Undisturbed /\ faults = 0 => \A t \in Txns :
        pc[t] = "released" => subject[t].workspace = workspace

\* A headless run is completed only when every gate that its subject selects
\* has a receipt in it, and policy allows the subject.
CompletedIsProven ==
    \A h \in Headless : run[RunOf[h]] = "completed" =>
        /\ Decision[subject[h]] = "allow"
        /\ \A g \in GateSet(subject[h]) : <<g, subject[h]>> \in receipts

\* The gates of a call do not depend on the workspace, and each leaves alone
\* what the others established.
Independent(t, c) ==
    LET At(w) == Selected[[txn |-> t, contract |-> c, workspace |-> w]]
    IN \A w, x \in Workspaces :
          /\ At(w) = At(x)
          /\ \A i, j \in DOMAIN At(w) :
                /\ Leaves[At(w)[i]][Leaves[At(w)[j]][w]]
                     = Leaves[At(w)[j]][Leaves[At(w)[i]][w]]
                /\ Leaves[At(w)[i]][Leaves[At(w)[i]][w]] = Leaves[At(w)[i]][w]

\* Three passes are enough for any number of fixers that do not undo each other.
ConvergesIfIndependent ==
    Undisturbed /\ faults = 0 => \A t \in Txns :
        pc[t] = "diverged" => ~Independent(t, subject[t].contract)

(* What the documentation promises and the code does not keep              *)

\* "... is exclusive against every other protected call, so sibling effects
\* cannot share pre-mutation evidence" (docs/adr/0015): while nobody but the
\* session's calls touches the workspace, a call that needs it for itself is let
\* through on proof of what is there.  A gate that outlived its call breaks it.
SiblingsAreOver ==
    Undisturbed => \A t \in Exclusive :
        pc[t] = "released" => subject[t].workspace = workspace
=============================================================================
