------------------------- MODULE VerificationProofs -------------------------
(***************************************************************************)
(* Proofs about Verification: its type invariant, that it implements       *)
(* ProvenRelease, that a headless run is completed only on proof, and that *)
(* receipts and releases are about the workspace as it is.                 *)
(*                                                                         *)
(* The refinement needs to know, of a transaction that is about to         *)
(* release, that everything its plan found proven still is (receipts are   *)
(* never withdrawn), and of one that runs gates, that the gate whose turn  *)
(* it is belongs to its subject.  Freshness needs, besides, that a call    *)
(* that moves the workspace is the only one under way.                     *)
(***************************************************************************)
EXTENDS Verification, WellFoundedInduction, TLAPS

\* What the plan of a transaction found, and what that allows.
AllProven(s) == \A g \in GateSet(s) : <<g, s>> \in receipts

Planned_OK(t) ==
    /\ subject[t] # NoSubject => subject[t].txn = t
    /\ pc[t] \in {"idle", "prepare"} =>
          subject[t] = NoSubject /\ (t \in Headless => run[RunOf[t]] # "completed")
    /\ pc[t] \in {"observe", "plan", "gate", "exited", "attempt"} => pass[t] >= 1
    /\ pc[t] \in {"gate", "exited", "attempt"} =>
          /\ subject[t] \in Subject
          /\ todo[t] # {}
          /\ todo[t] \subseteq DOMAIN Selected[subject[t]]
    /\ pc[t] = "approval_required" =>
          subject[t] \in Subject /\ Decision[subject[t]] = "ask"
    /\ pc[t] \in {"release", "verified"} =>
          /\ subject[t] \in Subject
          /\ Decision[subject[t]] # "deny"
          /\ AllProven(subject[t])
    /\ pc[t] = "verified" /\ t \in Headless => Decision[subject[t]] = "allow"

\* Nobody consents to a headless verification, and only its end closes its run.
Headless_OK(h) ==
    /\ \A s \in approvals : s.txn # h
    /\ run[RunOf[h]] = "completed" =>
          /\ pc[h] = "over"
          /\ subject[h] \in Subject
          /\ Decision[subject[h]] = "allow"
          /\ AllProven(subject[h])

IInv == /\ TypeOK
        /\ \A t \in Txns : Planned_OK(t)
        /\ \A h \in Headless : Headless_OK(h)

\* Nobody but the session's own calls has touched the workspace, and nothing
\* has failed.
Calm == Undisturbed /\ faults = 0

\* What a transaction knows of the workspace still holds: what it has observed,
\* what it releases, and what the gate it has just run left behind.
Current_OK(t) ==
    /\ pc[t] \in {"plan", "attempt"} => seen[t] = workspace
    /\ pc[t] \in {"release", "released"} => subject[t].workspace = workspace
    /\ pc[t] \in {"exited", "attempt"} /\ exit[t] = "passed" =>
          <<Gate(t), workspace>> \in earned

\* Calls that may not share the workspace do not, and no gate outlived its call.
Alone_OK ==
    /\ orphans = {}
    /\ \A t, u \in Txns \ Headless :
          t # u /\ Active(t) /\ Active(u) => t \notin Exclusive

ReceiptsEarned == \A r \in receipts : <<r[1], r[2].workspace>> \in earned

CalmInv ==
    Calm => Alone_OK /\ ReceiptsEarned /\ \A t \in Txns \ Headless : Current_OK(t)

\* What is there as the subject of a call.
Here(t) == [txn |-> t, contract |-> contract, workspace |-> workspace]

Fixes(g) == Leaves[g][workspace] = workspace

\* What the gates did is done when they run a second time: after the first pass
\* every gate leaves the workspace alone, after the second each has its receipt.
Passes_OK(t) ==
    /\ subject[t] # NoSubject => subject[t].contract = contract
    /\ pc[t] = "diverged" => subject[t] # NoSubject
    /\ Independent(t, contract) =>
          /\ pc[t] \in {"gate", "exited", "attempt"} =>
                /\ pass[t] <= 2
                /\ \A i \in DOMAIN Selected[subject[t]] \ todo[t] :
                      /\ Fixes(Selected[subject[t]][i])
                      /\ pass[t] = 2 => <<Selected[subject[t]][i], Here(t)>> \in receipts
                /\ pass[t] = 2 => subject[t] = Here(t)
          /\ pc[t] \in {"exited", "attempt"} => Fixes(Gate(t))
          /\ pc[t] \in {"observe", "plan", "gate", "exited", "attempt"} /\ pass[t] >= 2 =>
                \A g \in GateSet(Here(t)) : Fixes(g)
          /\ pc[t] \in {"observe", "plan"} /\ pass[t] >= 3 => AllProven(Here(t))
          /\ pc[t] # "diverged"

\* What a gate left is something that it leaves.
EarnedByGate == \A e \in earned : \E w \in Workspaces : e[2] = Leaves[e[1]][w]

PassesInv ==
    Calm => EarnedByGate /\ \A t \in Txns \ Headless : Passes_OK(t)

-----------------------------------------------------------------------------
(* Proofs: the operators                                                   *)

\* Any set of positions has a first one.
LEMMA FirstIn ==
    ASSUME NEW S, S \subseteq Nat, S # {}
    PROVE  First(S) \in S
  <1>1. PICK i \in S : \A j \in S : ~(<<j, i>> \in OpToRel(<, Nat))
    BY NatLessThanWellFounded, WFMin, Zenon
  <1>2. ASSUME NEW j \in S PROVE i <= j
    <2>1. i \in Nat /\ j \in Nat
      OBVIOUS
    <2>2. j < i => <<j, i>> \in OpToRel(<, Nat)
      BY <2>1 DEF OpToRel
    <2>3. ~(<<j, i>> \in OpToRel(<, Nat))
      BY <1>1, <1>2, Zenon
    <2>4. ~(j < i)
      BY <2>2, <2>3, Zenon
    <2> QED BY <2>1, <2>4
  <1> QED BY <1>2 DEF First

\* The gate whose turn it is is one the subject selects.
LEMMA GateIn ==
    ASSUME TypeOK, NEW t \in Txns, subject[t] \in Subject,
           todo[t] # {}, todo[t] \subseteq DOMAIN Selected[subject[t]]
    PROVE  Gate(t) \in Gates /\ Gate(t) \in GateSet(subject[t])
  <1>1. First(todo[t]) \in todo[t]
    BY FirstIn DEF TypeOK
  <1>2. Selected[subject[t]] \in Seq(Gates)
    BY ConstantsAssumption
  <1> QED BY <1>1, <1>2 DEF Gate, GateSet

\* What a transaction has observed is a subject of its call.
LEMMA SeenIn ==
    ASSUME TypeOK, NEW t \in Txns
    PROVE  Seen(t) \in Subject /\ Seen(t).txn = t
  BY DEF TypeOK, Seen, Subject

\* A plan with nothing left to prove has proof of every gate.
LEMMA UnprovenIn ==
    ASSUME NEW s \in Subject
    PROVE  /\ Unproven(s) \subseteq DOMAIN Selected[s] /\ Unproven(s) \subseteq Nat
           /\ Unproven(s) = {} => AllProven(s)
           /\ Decision[s] = "deny" => Unproven(s) = {}
  <1>1. Selected[s] \in Seq(Gates)
    BY ConstantsAssumption
  <1> QED BY <1>1, ConstantsAssumption DEF Unproven, AllProven, GateSet, Proven

-----------------------------------------------------------------------------
(* Proofs: the invariant                                                   *)

\* The invariant holds initially.
LEMMA InitIInv == Init => IInv
  BY ConstantsAssumption, RunsAssumption
  DEF Init, IInv, TypeOK, Planned_OK, Headless_OK, Ended, Open

\* While a transaction runs gates, one of its subject's gates has its turn.
LEMMA TurnIn ==
    ASSUME IInv, NEW t \in Txns, pc[t] \in {"gate", "exited", "attempt"}
    PROVE  Gate(t) \in Gates /\ Gate(t) \in GateSet(subject[t])
  BY GateIn DEF IInv, Planned_OK

\* Each step keeps the types.
LEMMA TypeStep == IInv /\ [Next]_vars => TypeOK'
  <1> SUFFICES ASSUME IInv, [Next]_vars PROVE TypeOK'
    OBVIOUS
  <1> USE ConstantsAssumption
      DEF TypeOK, Ended, Go, project, artifacts, locals, environ
  <1>0. TypeOK
    BY DEF IInv
  <1>1. ASSUME NEW t \in Txns, Begin(t) PROVE TypeOK'
    BY <1>0, <1>1 DEF Begin
  <1>2. ASSUME NEW t \in Txns, InitRun(t) PROVE TypeOK'
    BY <1>0, <1>2 DEF InitRun
  <1>3. ASSUME NEW t \in Txns, Prepare(t) PROVE TypeOK'
    BY <1>0, <1>3 DEF Prepare
  <1>4. ASSUME NEW t \in Txns, PrepareFails(t) PROVE TypeOK'
    BY <1>0, <1>4 DEF PrepareFails
  <1>5. ASSUME NEW t \in Txns, Observe(t) PROVE TypeOK'
    BY <1>0, <1>5 DEF Observe
  <1>6. ASSUME NEW t \in Txns, Plan(t) PROVE TypeOK'
    <2>1. Seen(t) \in Subject /\ Unproven(Seen(t)) \subseteq Nat
      BY <1>0, SeenIn, UnprovenIn
    <2> QED BY <1>0, <1>6, <2>1 DEF Plan, Planned
  <1>7. ASSUME NEW t \in Txns, GateEnds(t) PROVE TypeOK'
    <2>1. pc[t] = "gate" => Gate(t) \in Gates
      BY TurnIn
    <2>2. Gate(t) \in Gates /\ Leaves[Gate(t)][workspace] \in Workspaces
      BY <1>0, <1>7, <2>1 DEF GateEnds
    <2>3. exit' \in [Txns -> {"none", "passed", "failed"}]
      BY <1>0, <1>7 DEF GateEnds
    <2>4. earned' \subseteq Gates \X Workspaces
      BY <1>0, <1>7, <2>2 DEF GateEnds
    <2> QED BY <1>0, <1>7, <2>2, <2>3, <2>4 DEF GateEnds
  <1>8. ASSUME NEW t \in Txns, Reobserve(t) PROVE TypeOK'
    BY <1>0, <1>8 DEF Reobserve
  <1>9. ASSUME NEW t \in Txns, AttemptFails(t) PROVE TypeOK'
    BY <1>0, <1>9 DEF AttemptFails
  <1>10. ASSUME NEW t \in Txns, RecordAttempt(t) PROVE TypeOK'
    <2>1. Gate(t) \in Gates /\ Seen(t) \in Subject
      BY <1>0, <1>10, TurnIn, SeenIn DEF RecordAttempt
    <2>2. receipts' \subseteq Gates \X Subject
      BY <1>0, <1>10, <2>1 DEF RecordAttempt
    <2>3. CASE exit[t] = "passed"
      <3>1. pass[t] \in 0..MaxPasses /\ todo[t] \subseteq Nat /\ MaxPasses \in Nat
        BY <1>0
      <3>2. NextPass(t) /\ Onward(t) \in {"gate", "observe", "diverged"}
        BY <1>10, <2>3 DEF RecordAttempt, Onward
      <3>3. Onward(t) = "observe" => pass[t] + 1 \in 0..MaxPasses
        BY <3>1 DEF Onward
      <3>4. pass' \in [Txns -> 0..MaxPasses]
        BY <1>0, <3>1, <3>2, <3>3 DEF NextPass
      <3>5. todo' \in [Txns -> SUBSET Nat]
        BY <1>0, <3>1, <3>2 DEF NextPass, Later
      <3> QED BY <1>0, <1>10, <2>2, <3>2, <3>4, <3>5 DEF RecordAttempt, NextPass
    <2>4. CASE exit[t] # "passed"
      BY <1>0, <1>10, <2>2, <2>4 DEF RecordAttempt
    <2> QED BY <2>3, <2>4
  <1>11. ASSUME NEW t \in Txns, Release(t) PROVE TypeOK'
    <2>1. subject[t] \in Subject
      BY <1>11 DEF IInv, Planned_OK, Release
    <2> QED BY <1>0, <1>11, <2>1 DEF Release
  <1>12. ASSUME NEW t \in Txns, ReleaseFails(t) PROVE TypeOK'
    BY <1>0, <1>12 DEF ReleaseFails
  <1>13. ASSUME NEW t \in Txns, Fails(t) PROVE TypeOK'
    BY <1>0, <1>13 DEF Fails
  <1>14. ASSUME NEW t \in Txns, GateKilled(t) PROVE TypeOK'
    <2>1. pc[t] = "gate" => Gate(t) \in Gates
      BY TurnIn
    <2> QED BY <1>0, <1>14, <2>1 DEF GateKilled
  <1>15. ASSUME NEW t \in Txns, Kill(t) PROVE TypeOK'
    <2>1. pc[t] = "gate" => Gate(t) \in Gates
      BY TurnIn
    <2> QED BY <1>0, <1>15, <2>1 DEF Kill, Leave
  <1>16. ASSUME NEW t \in Txns, ToolEnds(t) PROVE TypeOK'
    BY <1>0, <1>16 DEF ToolEnds, Leave
  <1>17. ASSUME NEW t \in Txns, NotReleased(t) PROVE TypeOK'
    BY <1>0, <1>17 DEF NotReleased, Leave
  <1>18. ASSUME NEW t \in Txns, CloseHeadless(t) PROVE TypeOK'
    BY <1>0, <1>18 DEF CloseHeadless, Verdict
  <1>19. ASSUME NEW t \in Txns, CleanupFails(t) PROVE TypeOK'
    BY <1>0, <1>19 DEF CleanupFails
  <1>20. ASSUME NEW t \in Txns, NEW yes \in BOOLEAN, Respond(t, yes) PROVE TypeOK'
    <2>1. subject[t] \in Subject
      BY <1>20 DEF IInv, Planned_OK, Respond
    <2>2. approvals' \subseteq Subject
      BY <1>0, <1>20, <2>1 DEF Respond
    <2>3. CASE Leave(t, "over")
      BY <1>0, <1>20, <2>2, <2>3 DEF Respond, Leave
    <2>4. CASE Go(t, "observe") /\ pass' = [pass EXCEPT ![t] = 1]
                 /\ asked' = [asked EXCEPT ![t] = TRUE]
                 /\ UNCHANGED <<subject, seen, todo, exit>>
      BY <1>0, <1>20, <2>2, <2>4 DEF Respond
    <2> QED BY <1>20, <2>3, <2>4 DEF Respond
  <1>21. ASSUME NEW g \in Gates, OrphanEnds(g) PROVE TypeOK'
    BY <1>0, <1>21 DEF OrphanEnds
  <1>22. ASSUME NEW r \in Runs, CloseSession(r) PROVE TypeOK'
    BY <1>0, <1>22 DEF CloseSession
  <1>23. CASE UserEdits
    BY <1>0, <1>23 DEF UserEdits
  <1>24. CASE UNCHANGED vars
    BY <1>0, <1>24 DEF vars
  <1> QED
    BY ONLY [Next]_vars, <1>1, <1>2, <1>3, <1>4, <1>5, <1>6, <1>7, <1>8,
            <1>9, <1>10, <1>11, <1>12, <1>13, <1>14, <1>15, <1>16,
            <1>17, <1>18, <1>19, <1>20, <1>21, <1>22, <1>23, <1>24 DEF Next, Advance, Caller

\* What is known of a transaction outlives the steps of the others.
LEMMA OthersKeep ==
    ASSUME IInv, NEW u \in Txns, receipts \subseteq receipts',
           pc'[u] = pc[u], pass'[u] = pass[u],
           subject'[u] = subject[u], todo'[u] = todo[u],
           u \in Headless /\ run'[RunOf[u]] = "completed" => run[RunOf[u]] = "completed"
    PROVE  Planned_OK(u)'
  BY DEF IInv, Planned_OK, AllProven

\* Each step keeps what is known of the transaction that takes it.
LEMMA PlannedStep ==
    ASSUME IInv, [Next]_vars, NEW u \in Txns
    PROVE  Planned_OK(u)'
  <1> USE ConstantsAssumption
      DEF Ended, Go, project, artifacts, locals, environ
  <1>0. TypeOK /\ Planned_OK(u)
    BY DEF IInv
  <1>1. ASSUME NEW t \in Txns, Begin(t) PROVE Planned_OK(u)'
    <2>1. CASE u # t
      BY <1>0, <1>1, <2>1, OthersKeep DEF TypeOK, Begin, Open
    <2>2. CASE u = t
      BY <1>0, <1>1, <2>2 DEF TypeOK, Planned_OK, AllProven, Begin, Open
    <2> QED BY <2>1, <2>2
  <1>2. ASSUME NEW t \in Txns, InitRun(t) PROVE Planned_OK(u)'
    <2>1. CASE u # t
      BY <1>0, <1>2, <2>1, OthersKeep, RunsAssumption DEF TypeOK, InitRun
    <2>2. CASE u = t
      BY <1>0, <1>2, <2>2 DEF TypeOK, Planned_OK, AllProven, InitRun
    <2> QED BY <2>1, <2>2
  <1>3. ASSUME NEW t \in Txns, Prepare(t) PROVE Planned_OK(u)'
    <2>1. CASE u # t
      BY <1>0, <1>3, <2>1, OthersKeep DEF TypeOK, Prepare
    <2>2. CASE u = t
      BY <1>0, <1>3, <2>2 DEF TypeOK, Planned_OK, AllProven, Prepare
    <2> QED BY <2>1, <2>2
  <1>4. ASSUME NEW t \in Txns, PrepareFails(t) PROVE Planned_OK(u)'
    <2>1. CASE u # t
      BY <1>0, <1>4, <2>1, OthersKeep DEF TypeOK, PrepareFails
    <2>2. CASE u = t
      BY <1>0, <1>4, <2>2 DEF TypeOK, Planned_OK, AllProven, PrepareFails
    <2> QED BY <2>1, <2>2
  <1>5. ASSUME NEW t \in Txns, Observe(t) PROVE Planned_OK(u)'
    <2>1. CASE u # t
      BY <1>0, <1>5, <2>1, OthersKeep DEF TypeOK, Observe
    <2>2. CASE u = t
      BY <1>0, <1>5, <2>2 DEF TypeOK, Planned_OK, AllProven, Observe
    <2> QED BY <2>1, <2>2
  <1>6. ASSUME NEW t \in Txns, Plan(t) PROVE Planned_OK(u)'
    <2>1. CASE u # t
      BY <1>0, <1>6, <2>1, OthersKeep DEF TypeOK, Plan, Planned
    <2>2. CASE u = t
      <3> DEFINE s == Seen(t)
      <3>1. /\ s \in Subject /\ s.txn = t
            /\ pc'[t] = Planned(t) /\ subject'[t] = s /\ todo'[t] = Unproven(s)
            /\ pass'[t] = pass[t] /\ pass[t] >= 1 /\ receipts' = receipts
        BY <1>0, <1>6, <2>2, SeenIn DEF TypeOK, Planned_OK, Plan
      <3>2. /\ Unproven(s) \subseteq DOMAIN Selected[s]
            /\ Unproven(s) = {} => AllProven(s)
            /\ Decision[s] = "deny" => Unproven(s) = {}
        BY <3>1, UnprovenIn
      <3>3. t \in Headless => s \notin approvals
        BY <3>1 DEF IInv, Headless_OK
      <3>4. Decision[s] \in {"allow", "ask", "deny"} /\ s # NoSubject
        BY <3>1
      <3> HIDE DEF s
      <3>5. /\ Planned(t) \in {"error", "blocked", "gate", "approval_required",
                              "verified", "release"}
            /\ Planned(t) = "gate" => Unproven(s) # {}
            /\ Planned(t) = "approval_required" => Decision[s] = "ask"
            /\ Planned(t) \in {"release", "verified"} =>
                  Decision[s] # "deny" /\ Unproven(s) = {}
            /\ Planned(t) = "verified" =>
                  t \in Headless /\ (Decision[s] = "ask" => s \in approvals)
        BY DEF Planned, s
      <3>6. AllProven(s)' <=> AllProven(s)
        BY <1>6, <3>1 DEF AllProven, Plan, s, Seen
      <3>7. (subject[t] \in Subject)' /\ subject'[t] # NoSubject
        BY <3>1, <3>4
      <3> QED
        BY <2>2, <3>1, <3>2, <3>3, <3>4, <3>5, <3>6, <3>7 DEF Planned_OK, AllProven
    <2> QED BY <2>1, <2>2
  <1>7. ASSUME NEW t \in Txns, GateEnds(t) PROVE Planned_OK(u)'
    <2>1. CASE u # t
      BY <1>0, <1>7, <2>1, OthersKeep DEF TypeOK, GateEnds
    <2>2. CASE u = t
      BY <1>0, <1>7, <2>2 DEF TypeOK, Planned_OK, AllProven, GateEnds
    <2> QED BY <2>1, <2>2
  <1>8. ASSUME NEW t \in Txns, Reobserve(t) PROVE Planned_OK(u)'
    <2>1. CASE u # t
      BY <1>0, <1>8, <2>1, OthersKeep DEF TypeOK, Reobserve
    <2>2. CASE u = t
      BY <1>0, <1>8, <2>2 DEF TypeOK, Planned_OK, AllProven, Reobserve
    <2> QED BY <2>1, <2>2
  <1>9. ASSUME NEW t \in Txns, AttemptFails(t) PROVE Planned_OK(u)'
    <2>1. CASE u # t
      BY <1>0, <1>9, <2>1, OthersKeep DEF TypeOK, AttemptFails
    <2>2. CASE u = t
      BY <1>0, <1>9, <2>2 DEF TypeOK, Planned_OK, AllProven, AttemptFails
    <2> QED BY <2>1, <2>2
  <1>10. ASSUME NEW t \in Txns, RecordAttempt(t) PROVE Planned_OK(u)'
    <2>1. CASE u # t
      BY <1>0, <1>10, <2>1, OthersKeep DEF TypeOK, RecordAttempt, NextPass, Onward, Later
    <2>2. CASE u = t
      BY <1>0, <1>10, <2>2 DEF TypeOK, Planned_OK, AllProven, RecordAttempt, NextPass, Onward, Later
    <2> QED BY <2>1, <2>2
  <1>11. ASSUME NEW t \in Txns, Release(t) PROVE Planned_OK(u)'
    <2>1. CASE u # t
      BY <1>0, <1>11, <2>1, OthersKeep DEF TypeOK, Release
    <2>2. CASE u = t
      BY <1>0, <1>11, <2>2 DEF TypeOK, Planned_OK, AllProven, Release
    <2> QED BY <2>1, <2>2
  <1>12. ASSUME NEW t \in Txns, ReleaseFails(t) PROVE Planned_OK(u)'
    <2>1. CASE u # t
      BY <1>0, <1>12, <2>1, OthersKeep DEF TypeOK, ReleaseFails
    <2>2. CASE u = t
      BY <1>0, <1>12, <2>2 DEF TypeOK, Planned_OK, AllProven, ReleaseFails
    <2> QED BY <2>1, <2>2
  <1>13. ASSUME NEW t \in Txns, Fails(t) PROVE Planned_OK(u)'
    <2>1. CASE u # t
      BY <1>0, <1>13, <2>1, OthersKeep DEF TypeOK, Fails
    <2>2. CASE u = t
      BY <1>0, <1>13, <2>2 DEF TypeOK, Planned_OK, AllProven, Fails
    <2> QED BY <2>1, <2>2
  <1>14. ASSUME NEW t \in Txns, GateKilled(t) PROVE Planned_OK(u)'
    <2>1. CASE u # t
      BY <1>0, <1>14, <2>1, OthersKeep DEF TypeOK, GateKilled
    <2>2. CASE u = t
      BY <1>0, <1>14, <2>2 DEF TypeOK, Planned_OK, AllProven, GateKilled
    <2> QED BY <2>1, <2>2
  <1>15. ASSUME NEW t \in Txns, Kill(t) PROVE Planned_OK(u)'
    <2>1. CASE u # t
      BY <1>0, <1>15, <2>1, OthersKeep DEF TypeOK, Kill, Leave
    <2>2. CASE u = t
      BY <1>0, <1>15, <2>2 DEF TypeOK, Planned_OK, AllProven, Kill, Leave
    <2> QED BY <2>1, <2>2
  <1>16. ASSUME NEW t \in Txns, ToolEnds(t) PROVE Planned_OK(u)'
    <2>1. CASE u # t
      BY <1>0, <1>16, <2>1, OthersKeep DEF TypeOK, ToolEnds, Leave
    <2>2. CASE u = t
      BY <1>0, <1>16, <2>2 DEF TypeOK, Planned_OK, AllProven, ToolEnds, Leave
    <2> QED BY <2>1, <2>2
  <1>17. ASSUME NEW t \in Txns, NotReleased(t) PROVE Planned_OK(u)'
    <2>1. CASE u # t
      BY <1>0, <1>17, <2>1, OthersKeep DEF TypeOK, NotReleased, Leave
    <2>2. CASE u = t
      BY <1>0, <1>17, <2>2 DEF TypeOK, Planned_OK, AllProven, NotReleased, Leave
    <2> QED BY <2>1, <2>2
  <1>18. ASSUME NEW t \in Txns, CloseHeadless(t) PROVE Planned_OK(u)'
    <2>1. CASE u # t
      BY <1>0, <1>18, <2>1, OthersKeep, RunsAssumption DEF TypeOK, CloseHeadless, Verdict
    <2>2. CASE u = t
      BY <1>0, <1>18, <2>2 DEF TypeOK, Planned_OK, AllProven, CloseHeadless, Verdict
    <2> QED BY <2>1, <2>2
  <1>19. ASSUME NEW t \in Txns, CleanupFails(t) PROVE Planned_OK(u)'
    <2>1. CASE u # t
      BY <1>0, <1>19, <2>1, OthersKeep, RunsAssumption DEF TypeOK, CleanupFails
    <2>2. CASE u = t
      BY <1>0, <1>19, <2>2 DEF TypeOK, Planned_OK, AllProven, CleanupFails
    <2> QED BY <2>1, <2>2
  <1>20. ASSUME NEW t \in Txns, NEW yes \in BOOLEAN, Respond(t, yes)
        PROVE  Planned_OK(u)'
    <2>1. CASE u # t
      BY <1>0, <1>20, <2>1, OthersKeep DEF TypeOK, Respond, Leave
    <2>2. CASE u = t
      BY <1>0, <1>20, <2>2 DEF TypeOK, Planned_OK, AllProven, Respond, Leave
    <2> QED BY <2>1, <2>2
  <1>21. ASSUME NEW g \in Gates, OrphanEnds(g) PROVE Planned_OK(u)'
    BY <1>0, <1>21, OthersKeep DEF OrphanEnds
  <1>22. ASSUME NEW r \in Runs, CloseSession(r) PROVE Planned_OK(u)'
    BY <1>0, <1>22, OthersKeep DEF TypeOK, CloseSession
  <1>23. CASE UserEdits
    BY <1>0, <1>23, OthersKeep DEF UserEdits
  <1>24. CASE UNCHANGED vars
    BY <1>0, <1>24, OthersKeep DEF vars
  <1> QED
    BY ONLY [Next]_vars, <1>1, <1>2, <1>3, <1>4, <1>5, <1>6, <1>7, <1>8,
            <1>9, <1>10, <1>11, <1>12, <1>13, <1>14, <1>15, <1>16,
            <1>17, <1>18, <1>19, <1>20, <1>21, <1>22, <1>23, <1>24 DEF Next, Advance, Caller

\* Receipts are only added.
LEMMA ReceiptsGrow == [Next]_vars => receipts \subseteq receipts'
  BY DEF Next, vars, Advance, Caller, artifacts, Begin, InitRun, Prepare, PrepareFails, Observe,
          Plan, GateEnds, Reobserve, AttemptFails, RecordAttempt, Release, ReleaseFails,
          Fails, GateKilled, Kill, Respond, ToolEnds, NotReleased, CloseHeadless,
          CleanupFails, OrphanEnds, UserEdits, CloseSession

\* Consents are those of the calls that were asked about.
LEMMA ConsentStep ==
    ASSUME IInv, [Next]_vars, NEW s \in approvals' \ approvals
    PROVE  \E t \in Txns \ Headless :
               s = subject[t] /\ s \in Subject /\ s.txn = t /\ Decision[s] = "ask"
  <1>1. PICK t \in Txns : \E yes \in BOOLEAN : Respond(t, yes)
    BY DEF Next, vars, Advance, Caller, artifacts, Begin, InitRun, Prepare, PrepareFails, Observe,
          Plan, GateEnds, Reobserve, AttemptFails, RecordAttempt, Release, ReleaseFails,
          Fails, GateKilled, Kill, Respond, ToolEnds, NotReleased, CloseHeadless,
          CleanupFails, OrphanEnds, UserEdits, CloseSession
  <1> QED BY <1>1, ConstantsAssumption DEF Respond, IInv, Planned_OK

\* A run that is completed was verified, or was completed before.
LEMMA CompletedStep ==
    ASSUME IInv, [Next]_vars, NEW h \in Headless, run'[RunOf[h]] = "completed"
    PROVE  \/ /\ run[RunOf[h]] = "completed"
              /\ pc'[h] = pc[h] /\ subject'[h] = subject[h]
           \/ pc[h] = "verified" /\ pc'[h] = "over" /\ subject'[h] = subject[h]
  <1> USE ConstantsAssumption DEF Go, project, artifacts, locals, environ
  <1>1. h \in Txns /\ TypeOK /\ Headless_OK(h)
    BY DEF IInv
  <1>2. ASSUME NEW t \in Txns, t # h, Advance(t) \/ Caller(t) \/ Fails(t)
                                       \/ GateKilled(t) \/ Kill(t)
        PROVE  pc'[h] = pc[h] /\ subject'[h] = subject[h]
                 /\ run'[RunOf[h]] = run[RunOf[h]]
    BY <1>1, <1>2, RunsAssumption
    DEF TypeOK, Advance, Caller, Leave, NextPass, Begin, InitRun, Prepare, PrepareFails, Observe,
          Plan, GateEnds, Reobserve, AttemptFails, RecordAttempt, Release, ReleaseFails,
          Fails, GateKilled, Kill, Respond, ToolEnds, NotReleased, CloseHeadless,
          CleanupFails, OrphanEnds, UserEdits, CloseSession
  <1>3. ASSUME Advance(h) \/ Caller(h) \/ Fails(h) \/ GateKilled(h) \/ Kill(h)
        PROVE  pc[h] = "verified" /\ pc'[h] = "over" /\ subject'[h] = subject[h]
    BY <1>1, <1>3
    DEF TypeOK, Headless_OK, Advance, Caller, Leave, Verdict, Active, Ended, Begin, InitRun, Prepare, PrepareFails, Observe,
          Plan, GateEnds, Reobserve, AttemptFails, RecordAttempt, Release, ReleaseFails,
          Fails, GateKilled, Kill, Respond, ToolEnds, NotReleased, CloseHeadless,
          CleanupFails, OrphanEnds, UserEdits, CloseSession
  <1>4. ASSUME NEW r \in Runs, CloseSession(r)
        PROVE  pc'[h] = pc[h] /\ subject'[h] = subject[h]
                 /\ run'[RunOf[h]] = run[RunOf[h]]
    BY <1>1, <1>4 DEF TypeOK, CloseSession
  <1>5. ASSUME UserEdits \/ (\E g \in Gates : OrphanEnds(g)) \/ UNCHANGED vars
        PROVE  pc'[h] = pc[h] /\ subject'[h] = subject[h] /\ run' = run
    BY <1>5 DEF UserEdits, OrphanEnds, vars
  <1> QED BY <1>2, <1>3, <1>4, <1>5 DEF Next

\* Each step keeps what is known of a headless run.
LEMMA HeadlessStep ==
    ASSUME IInv, [Next]_vars, NEW h \in Headless
    PROVE  Headless_OK(h)'
  <1>1. Headless_OK(h) /\ Planned_OK(h) /\ h \in Txns
    BY ConstantsAssumption DEF IInv
  <1>2. \A s \in approvals' : s.txn # h
    BY <1>1, ConsentStep DEF Headless_OK
  <1>3. ASSUME run'[RunOf[h]] = "completed"
        PROVE  /\ pc'[h] = "over" /\ subject'[h] = subject[h]
               /\ subject[h] \in Subject /\ Decision[subject[h]] = "allow"
               /\ AllProven(subject[h])
    BY <1>1, <1>3, CompletedStep DEF Headless_OK, Planned_OK
  <1> QED BY <1>2, <1>3, ReceiptsGrow DEF Headless_OK, AllProven

\* What is known of transactions and headless runs holds in every state.
THEOREM Invariance == Spec => []IInv
  <1>1. IInv /\ [Next]_vars => IInv'
    BY TypeStep, PlannedStep, HeadlessStep DEF IInv
  <1> QED BY InitIInv, <1>1, PTL DEF Spec

\* Every variable keeps its type, for every project, contract and set of calls.
THEOREM TypeCorrect == Spec => []TypeOK
  <1>1. IInv => TypeOK
    BY DEF IInv
  <1> QED BY Invariance, <1>1, PTL

\* A headless run is completed only when policy allows its subject and every
\* gate that the subject selects has a receipt, whoever edits the workspace or
\* the contract meanwhile and whatever is killed.
THEOREM CompletedOnlyOnProof == Spec => []CompletedIsProven
  <1>1. IInv => CompletedIsProven
    BY DEF IInv, Headless_OK, AllProven, CompletedIsProven
  <1> QED BY Invariance, <1>1, PTL

-----------------------------------------------------------------------------
(* Proofs: receipts and releases are about the workspace as it is          *)

\* What a call of a calm session, or its guard on the call's behalf, may do.
CallStep(t) ==
    \/ Begin(t) \/ Prepare(t) \/ PrepareFails(t)
    \/ Observe(t) \/ Plan(t) \/ GateEnds(t) \/ Reobserve(t)
    \/ AttemptFails(t) \/ RecordAttempt(t) \/ Release(t) \/ ReleaseFails(t)
    \/ ToolEnds(t) \/ NotReleased(t)
    \/ \E yes \in BOOLEAN : Respond(t, yes)

\* A step of a calm session is one of its calls', or leaves them all alone.
LEMMA CalmStep ==
    ASSUME TypeOK, [Next]_vars, Calm', Calm => orphans = {}
    PROVE  /\ Calm
           /\ \/ \E t \in Txns \ Headless : CallStep(t)
              \/ UNCHANGED <<project, receipts, pc, pass, locals, orphans, earned>>
  <1> USE ConstantsAssumption
      DEF Calm, Undisturbed, project, artifacts, locals, environ
  <1>1. ASSUME NEW t \in Txns, Advance(t) \/ Caller(t) \/ Fails(t) \/ GateKilled(t) \/ Kill(t)
        PROVE  t \notin Headless /\ CallStep(t) /\ Calm
    <2>1. /\ edits' = edits
          /\ faults' = faults \/ faults' = faults + 1
          /\ \A u \in Txns \ {t} : pc'[u] = pc[u]
      BY <1>1
      DEF TypeOK, Go, Leave, NextPass, Advance, Caller, Begin, InitRun, Prepare,
          PrepareFails, Observe, Plan, GateEnds, Reobserve, AttemptFails, RecordAttempt,
          Release, ReleaseFails, Fails, GateKilled, Kill, Respond, ToolEnds, NotReleased,
          CloseHeadless, CleanupFails
    <2>2. pc'[t] # "idle"
      <3>1. CASE Advance(t)
        <4>1. Planned(t) # "idle" /\ Onward(t) # "idle"
          BY DEF Planned, Onward
        <4> QED
          BY <3>1, <4>1
          DEF TypeOK, Go, NextPass, Advance, Observe, Plan, GateEnds, Reobserve,
              AttemptFails, RecordAttempt, Release, ReleaseFails
      <3>2. CASE Caller(t)
        BY <3>2
        DEF TypeOK, Go, Leave, Caller, Begin, InitRun, Prepare, PrepareFails, Respond,
            ToolEnds, NotReleased, CloseHeadless, CleanupFails
      <3>3. CASE Fails(t) \/ GateKilled(t) \/ Kill(t)
        BY <3>3 DEF TypeOK, Go, Leave, Fails, GateKilled, Kill
      <3> QED BY <1>1, <3>1, <3>2, <3>3
    <2>3. t \notin Headless
      BY <2>2
    <2>4. faults' = faults
      BY <2>1 DEF TypeOK
    <2>5. Calm
      BY <2>1, <2>3, <2>4
    <2>6. ~(Fails(t) \/ GateKilled(t) \/ Kill(t) \/ CleanupFails(t))
      BY <2>4 DEF TypeOK, Fails, GateKilled, Kill, CleanupFails
    <2>7. ~InitRun(t) /\ ~CloseHeadless(t)
      BY <2>3 DEF InitRun, CloseHeadless
    <2>8. CallStep(t)
      BY ONLY <1>1, <2>6, <2>7 DEF Advance, Caller, CallStep
    <2> QED BY <2>3, <2>5, <2>8
  <1>2. ASSUME NEW g \in Gates, OrphanEnds(g) PROVE FALSE
    BY <1>2 DEF OrphanEnds
  <1>3. ASSUME NEW r \in Runs, CloseSession(r)
        PROVE  Calm /\ UNCHANGED <<project, receipts, pc, pass, locals, orphans, earned>>
    BY <1>3 DEF CloseSession
  <1>4. ~UserEdits
    BY DEF TypeOK, UserEdits
  <1>5. UNCHANGED vars =>
            Calm /\ UNCHANGED <<project, receipts, pc, pass, locals, orphans, earned>>
    BY DEF vars
  <1> QED BY ONLY [Next]_vars, <1>1, <1>2, <1>3, <1>4, <1>5 DEF Next

\* What a call's step does to the other calls, and to what is shared.
LEMMA CallKeepsOthers ==
    ASSUME TypeOK, NEW t \in Txns, CallStep(t)
    PROVE  /\ orphans' = orphans /\ earned \subseteq earned'
           /\ \A u \in Txns \ {t} :
                 /\ pc'[u] = pc[u] /\ seen'[u] = seen[u] /\ subject'[u] = subject[u]
                 /\ todo'[u] = todo[u] /\ exit'[u] = exit[u]
           /\ Active(t)' => Active(t) \/ Begin(t)
  <1> USE DEF TypeOK, Go, project, artifacts, locals, environ, Active
  <1>1. ASSUME Begin(t) \/ Prepare(t) \/ PrepareFails(t) \/ Observe(t)
        PROVE  /\ orphans' = orphans /\ earned \subseteq earned'
               /\ \A u \in Txns \ {t} :
                     /\ pc'[u] = pc[u] /\ seen'[u] = seen[u] /\ subject'[u] = subject[u]
                     /\ todo'[u] = todo[u] /\ exit'[u] = exit[u]
               /\ Active(t)' => Active(t) \/ Begin(t)
    BY <1>1 DEF Begin, Prepare, PrepareFails, Observe
  <1>2. ASSUME Plan(t) \/ GateEnds(t) \/ Reobserve(t) \/ AttemptFails(t)
        PROVE  /\ orphans' = orphans /\ earned \subseteq earned'
               /\ \A u \in Txns \ {t} :
                     /\ pc'[u] = pc[u] /\ seen'[u] = seen[u] /\ subject'[u] = subject[u]
                     /\ todo'[u] = todo[u] /\ exit'[u] = exit[u]
               /\ Active(t)' => Active(t) \/ Begin(t)
    BY <1>2 DEF Plan, GateEnds, Reobserve, AttemptFails
  <1>3. ASSUME RecordAttempt(t) \/ Release(t) \/ ReleaseFails(t)
        PROVE  /\ orphans' = orphans /\ earned \subseteq earned'
               /\ \A u \in Txns \ {t} :
                     /\ pc'[u] = pc[u] /\ seen'[u] = seen[u] /\ subject'[u] = subject[u]
                     /\ todo'[u] = todo[u] /\ exit'[u] = exit[u]
               /\ Active(t)' => Active(t) \/ Begin(t)
    BY <1>3 DEF RecordAttempt, NextPass, Release, ReleaseFails
  <1>4. ASSUME ToolEnds(t) \/ NotReleased(t) \/ \E yes \in BOOLEAN : Respond(t, yes)
        PROVE  /\ orphans' = orphans /\ earned \subseteq earned'
               /\ \A u \in Txns \ {t} :
                     /\ pc'[u] = pc[u] /\ seen'[u] = seen[u] /\ subject'[u] = subject[u]
                     /\ todo'[u] = todo[u] /\ exit'[u] = exit[u]
               /\ Active(t)' => Active(t) \/ Begin(t)
    BY <1>4 DEF ToolEnds, NotReleased, Respond, Leave, Ended
  <1> QED BY <1>1, <1>2, <1>3, <1>4 DEF CallStep

\* Only a call that has the workspace for itself moves it.
LEMMA SharedKeepsWorkspace ==
    ASSUME IInv, SharedGatesRead, NEW t \in Txns \ Headless, CallStep(t),
           workspace' # workspace
    PROVE  t \in Exclusive /\ Active(t)
  <1> USE DEF IInv, project, Active
  <1>1. CASE GateEnds(t)
    <2>1. /\ Gate(t) \in GateSet(subject[t]) /\ subject[t] \in Subject
          /\ subject[t].txn = t /\ subject[t] # NoSubject
      BY <1>1, TurnIn, ConstantsAssumption DEF GateEnds, Planned_OK
    <2>2. t \in Exclusive
      BY <1>1, <2>1 DEF SharedGatesRead, GateEnds, TypeOK
    <2> QED BY <1>1, <2>2 DEF GateEnds
  <1>2. CASE ToolEnds(t)
    BY <1>2 DEF ToolEnds
  <1>3. CASE ~GateEnds(t) /\ ~ToolEnds(t)
    BY <1>3
    DEF CallStep, Begin, Prepare, PrepareFails, Observe, Plan, Reobserve, AttemptFails,
        RecordAttempt, Release, ReleaseFails, NotReleased, Respond
  <1> QED BY <1>1, <1>2, <1>3

\* A call's step keeps calls apart that may not share the workspace.
LEMMA AloneStep ==
    ASSUME TypeOK, Alone_OK, Calm, NEW t \in Txns \ Headless, CallStep(t)
    PROVE  Alone_OK'
  <1>1. orphans' = {}
    BY CallKeepsOthers DEF Alone_OK
  <1>2. ASSUME NEW a \in Txns \ Headless, NEW b \in Txns \ Headless, a # b,
               Active(a)', Active(b)'
        PROVE  a \notin Exclusive
    <2>1. \A u \in Txns \ {t} : Active(u)' <=> Active(u)
      BY CallKeepsOthers DEF Active
    <2>2. CASE ~Begin(t)
      <3>1. Active(t)' => Active(t)
        BY <2>2, CallKeepsOthers
      <3> QED BY <1>2, <2>1, <3>1 DEF Alone_OK
    <2>3. CASE Begin(t)
      BY <1>2, <2>1, <2>3 DEF Alone_OK, Begin
    <2> QED BY <2>2, <2>3
  <1> QED BY <1>1, <1>2 DEF Alone_OK

\* What the others know of the workspace still holds.
LEMMA OthersCurrent ==
    ASSUME IInv, SharedGatesRead, Alone_OK, NEW t \in Txns \ Headless, CallStep(t),
           NEW u \in Txns \ Headless, u # t, Current_OK(u)
    PROVE  Current_OK(u)'
  <1>1. /\ earned \subseteq earned'
        /\ pc'[u] = pc[u] /\ seen'[u] = seen[u] /\ subject'[u] = subject[u]
        /\ todo'[u] = todo[u] /\ exit'[u] = exit[u]
    BY CallKeepsOthers DEF IInv
  <1>2. Gate(u)' = Gate(u)
    BY <1>1 DEF Gate
  <1>3. CASE workspace' = workspace
    BY <1>1, <1>2, <1>3 DEF Current_OK
  <1>4. CASE workspace' # workspace
    <2>1. t \in Exclusive /\ Active(t)
      BY <1>4, SharedKeepsWorkspace
    <2>2. ~Active(u)
      BY <2>1 DEF Alone_OK
    <2> QED BY <1>1, <2>2 DEF Active, Current_OK
  <1> QED BY <1>3, <1>4

\* What the call itself knows of the workspace holds after its step.
LEMMA OwnCurrent ==
    ASSUME IInv, NEW t \in Txns \ Headless, CallStep(t), Current_OK(t)
    PROVE  Current_OK(t)'
  <1> USE DEF IInv, TypeOK, Current_OK, Go, Ended, project, locals
  <1>1. CASE Begin(t) \/ Prepare(t) \/ PrepareFails(t) \/ Observe(t)
    BY <1>1 DEF Begin, Prepare, PrepareFails, Observe
  <1>2. CASE Plan(t)
    BY <1>2 DEF Plan, Planned, Seen
  <1>3. CASE GateEnds(t)
    <2>1. Gate(t)' = Gate(t)
      BY <1>3 DEF GateEnds, Gate
    <2> QED BY <1>3, <2>1 DEF GateEnds
  <1>4. CASE Reobserve(t)
    <2>1. Gate(t)' = Gate(t)
      BY <1>4 DEF Reobserve, Gate
    <2> QED BY <1>4, <2>1 DEF Reobserve
  <1>5. CASE AttemptFails(t) \/ ReleaseFails(t) \/ Release(t)
    BY <1>5 DEF AttemptFails, ReleaseFails, Release
  <1>6. CASE RecordAttempt(t)
    BY <1>6 DEF RecordAttempt, NextPass, Onward
  <1>7. CASE ToolEnds(t) \/ NotReleased(t) \/ \E yes \in BOOLEAN : Respond(t, yes)
    BY <1>7 DEF ToolEnds, NotReleased, Respond, Leave
  <1> QED BY <1>1, <1>2, <1>3, <1>4, <1>5, <1>6, <1>7 DEF CallStep

\* A receipt is given for what the gate left behind.
LEMMA EarnedStep ==
    ASSUME IInv, NEW t \in Txns \ Headless, CallStep(t), Current_OK(t), ReceiptsEarned
    PROVE  ReceiptsEarned'
  <1>1. earned \subseteq earned'
    BY CallKeepsOthers DEF IInv
  <1>2. CASE RecordAttempt(t) /\ exit[t] = "passed"
    <2>1. receipts' = receipts \cup {<<Gate(t), Seen(t)>>}
      BY <1>2 DEF RecordAttempt
    <2>2. Seen(t).workspace = workspace /\ <<Gate(t), workspace>> \in earned
      BY <1>2 DEF RecordAttempt, Current_OK, Seen
    <2>3. ASSUME NEW r \in receipts' PROVE <<r[1], r[2].workspace>> \in earned
      <3>1. CASE r \in receipts
        BY <3>1 DEF ReceiptsEarned
      <3>2. CASE r = <<Gate(t), Seen(t)>>
        <4>1. r[1] = Gate(t) /\ r[2] = Seen(t)
          BY <3>2
        <4> QED BY <2>2, <4>1
      <3> QED BY <2>1, <3>1, <3>2
    <2> QED BY <1>1, <2>3 DEF ReceiptsEarned
  <1>3. CASE ~(RecordAttempt(t) /\ exit[t] = "passed")
    <2>1. receipts' = receipts
      BY <1>3
      DEF CallStep, artifacts, Begin, Prepare, PrepareFails, Observe, Plan, GateEnds,
          Reobserve, AttemptFails, RecordAttempt, Release, ReleaseFails, ToolEnds,
          NotReleased, Respond
    <2> QED BY <1>1, <2>1 DEF ReceiptsEarned
  <1> QED BY <1>2, <1>3

\* As long as nobody else touches the workspace, what transactions know of it holds.
THEOREM CalmInvariance == ASSUME SharedGatesRead PROVE Spec => []CalmInv
  <1>1. Init => CalmInv
    BY DEF Init, CalmInv, Alone_OK, ReceiptsEarned, Current_OK, Active
  <1>2. ASSUME IInv, CalmInv, [Next]_vars, Calm' PROVE CalmInv'
    <2>1. TypeOK /\ (Calm => orphans = {})
      BY <1>2 DEF IInv, CalmInv, Alone_OK
    <2>2. Calm
      BY <1>2, <2>1, CalmStep
    <2>3. Alone_OK /\ ReceiptsEarned /\ \A t \in Txns \ Headless : Current_OK(t)
      BY <1>2, <2>2 DEF CalmInv
    <2>4. CASE UNCHANGED <<project, receipts, pc, pass, locals, orphans, earned>>
      BY <2>3, <2>4
      DEF CalmInv, Alone_OK, ReceiptsEarned, Current_OK, Active, Gate, project, locals
    <2>5. ASSUME NEW t \in Txns \ Headless, CallStep(t) PROVE CalmInv'
      <3>1. Alone_OK'
        BY <2>1, <2>2, <2>3, <2>5, AloneStep
      <3>2. ReceiptsEarned'
        BY <1>2, <2>3, <2>5, EarnedStep
      <3>3. ASSUME NEW u \in Txns \ Headless PROVE Current_OK(u)'
        BY <1>2, <2>3, <2>5, OthersCurrent, OwnCurrent
      <3> QED BY <3>1, <3>2, <3>3 DEF CalmInv
    <2> QED BY <1>2, <2>1, <2>4, <2>5, CalmStep
  <1>3. IInv /\ CalmInv /\ [Next]_vars => CalmInv'
    BY <1>2 DEF CalmInv
  <1> QED BY Invariance, <1>1, <1>3, PTL DEF Spec

\* A receipt is for a workspace its gate passed on and left behind, for any
\* number of calls and any gates, when only gates of calls that have the
\* workspace for themselves change it.
THEOREM ReceiptsAreEarned ==
    ASSUME SharedGatesRead PROVE Spec => []ReceiptIsEarned
  <1>1. IInv /\ CalmInv => ReceiptIsEarned
    BY DEF CalmInv, Calm, ReceiptsEarned, ReceiptIsEarned
  <1> QED BY Invariance, CalmInvariance, <1>1, PTL

\* Under the same assumption, when a call is let through, the workspace is still
\* the one its gates passed on.
THEOREM ReleasesAreFresh ==
    ASSUME SharedGatesRead PROVE Spec => []ReleasedIsFresh
  <1>1. IInv /\ CalmInv => ReleasedIsFresh
    BY ConstantsAssumption
    DEF CalmInv, Calm, Undisturbed, Current_OK, ReleasedIsFresh
  <1> QED BY Invariance, CalmInvariance, <1>1, PTL

-----------------------------------------------------------------------------
(* Proofs: three passes are enough                                         *)

\* The gates of an independent call are the same for every workspace.
LEMMA SameGates ==
    ASSUME NEW t, NEW c, NEW s, NEW x,
           Independent(t, c), s \in Subject, s.txn = t, s.contract = c, x \in Workspaces
    PROVE  Selected[[txn |-> t, contract |-> c, workspace |-> x]] = Selected[s]
  <1>1. s = [txn |-> t, contract |-> c, workspace |-> s.workspace] /\ s.workspace \in Workspaces
    BY DEF Subject
  <1> QED BY <1>1 DEF Independent

\* They commute.
LEMMA GatesCommute ==
    ASSUME NEW t, NEW c, NEW s, NEW x, NEW i, NEW j,
           Independent(t, c), s \in Subject, s.txn = t, s.contract = c, x \in Workspaces,
           i \in DOMAIN Selected[s], j \in DOMAIN Selected[s]
    PROVE  Leaves[Selected[s][i]][Leaves[Selected[s][j]][x]]
             = Leaves[Selected[s][j]][Leaves[Selected[s][i]][x]]
  <1>1. Selected[[txn |-> t, contract |-> c, workspace |-> x]] = Selected[s]
    BY SameGates
  <1> QED BY <1>1 DEF Independent

\* What one of them has done it does not do again.
LEMMA GatesAreIdempotent ==
    ASSUME NEW t, NEW c, NEW s, NEW x, NEW i,
           Independent(t, c), s \in Subject, s.txn = t, s.contract = c, x \in Workspaces,
           i \in DOMAIN Selected[s]
    PROVE  Leaves[Selected[s][i]][Leaves[Selected[s][i]][x]] = Leaves[Selected[s][i]][x]
  <1>1. Selected[[txn |-> t, contract |-> c, workspace |-> x]] = Selected[s]
    BY SameGates
  <1> QED BY <1>1 DEF Independent

\* The gate whose turn it is has a position in its subject's list.
LEMMA TurnAt ==
    ASSUME IInv, NEW t \in Txns, pc[t] \in {"gate", "exited", "attempt"}
    PROVE  /\ First(todo[t]) \in todo[t] /\ First(todo[t]) \in DOMAIN Selected[subject[t]]
           /\ Gate(t) = Selected[subject[t]][First(todo[t])]
           /\ subject[t] \in Subject /\ subject[t].txn = t /\ subject[t] # NoSubject
           /\ Gate(t) \in Gates
  <1>1. /\ subject[t] \in Subject /\ todo[t] # {} /\ todo[t] \subseteq DOMAIN Selected[subject[t]]
        /\ subject[t] # NoSubject => subject[t].txn = t
        /\ todo[t] \subseteq Nat
    BY DEF IInv, Planned_OK, TypeOK
  <1>2. First(todo[t]) \in todo[t]
    BY <1>1, FirstIn
  <1>3. subject[t] # NoSubject
    BY <1>1, ConstantsAssumption
  <1> QED BY <1>1, <1>2, <1>3, TurnIn DEF Gate

\* A call's steps leave the contract alone, add receipts, and what gates left.
LEMMA CallKeepsContract ==
    ASSUME NEW t \in Txns, CallStep(t)
    PROVE  /\ contract' = contract /\ receipts \subseteq receipts'
           /\ pass' = [pass EXCEPT ![t] = pass'[t]] \/ pass' = pass
  <1> USE DEF project, artifacts
  <1>1. CASE \/ Begin(t) \/ Prepare(t) \/ PrepareFails(t) \/ Observe(t) \/ Plan(t)
             \/ GateEnds(t) \/ Reobserve(t)
    BY <1>1 DEF Begin, Prepare, PrepareFails, Observe, Plan, GateEnds, Reobserve
  <1>2. CASE RecordAttempt(t) \/ AttemptFails(t) \/ Release(t) \/ ReleaseFails(t)
    BY <1>2 DEF RecordAttempt, NextPass, AttemptFails, Release, ReleaseFails
  <1>3. CASE ToolEnds(t) \/ NotReleased(t) \/ \E yes \in BOOLEAN : Respond(t, yes)
    BY <1>3 DEF ToolEnds, NotReleased, Respond, Leave
  <1> QED BY <1>1, <1>2, <1>3 DEF CallStep

\* What the other calls know of their gates still holds.
LEMMA OthersPass ==
    ASSUME IInv, SharedGatesRead, Alone_OK, NEW t \in Txns \ Headless, CallStep(t),
           NEW u \in Txns \ Headless, u # t, Passes_OK(u)
    PROVE  Passes_OK(u)'
  <1>1. /\ pc'[u] = pc[u] /\ subject'[u] = subject[u] /\ todo'[u] = todo[u]
        /\ contract' = contract /\ receipts \subseteq receipts'
    BY CallKeepsOthers, CallKeepsContract DEF IInv
  <1>2. pass'[u] = pass[u]
    BY CallKeepsContract DEF IInv, TypeOK
  <1>3. Gate(u)' = Gate(u) /\ (Independent(u, contract)' <=> Independent(u, contract))
    BY <1>1 DEF Gate, Independent
  <1>4. CASE workspace' = workspace
    BY <1>1, <1>2, <1>3, <1>4 DEF Passes_OK, Fixes, Here, AllProven
  <1>5. CASE workspace' # workspace
    <2>1. t \in Exclusive /\ Active(t)
      BY <1>5, SharedKeepsWorkspace
    <2>2. ~Active(u)
      BY <2>1 DEF Alone_OK
    <2> QED BY <1>1, <1>2, <1>3, <2>2 DEF Active, Passes_OK
  <1> QED BY <1>4, <1>5

\* A plan leaves out only gates that have run on this very workspace, and after
\* two passes it leaves out all.
LEMMA PlanPasses ==
    ASSUME IInv, ReceiptsEarned, EarnedByGate, NEW t \in Txns \ Headless,
           Plan(t), Current_OK(t), Passes_OK(t)
    PROVE  Passes_OK(t)'
  <1> USE DEF IInv, TypeOK, Go
  <1>1. /\ pc[t] = "plan" /\ seen[t] = workspace /\ Seen(t) = Here(t)
        /\ pc'[t] = Planned(t) /\ subject'[t] = Here(t) /\ todo'[t] = Unproven(Here(t))
        /\ UNCHANGED <<contract, workspace, receipts, pass>> /\ pass[t] \in Nat
    BY DEF Plan, Current_OK, Seen, Here, project, artifacts
  <1>2. Here(t)' = Here(t) /\ Here(t) \in Subject /\ Here(t).txn = t /\ Here(t).contract = contract
    BY <1>1 DEF Here, Subject
  <1>3. \A i \in DOMAIN Selected[Here(t)] \ Unproven(Here(t)) :
            <<Selected[Here(t)][i], Here(t)>> \in receipts
    BY DEF Unproven, Proven
  <1>4. Planned(t) \in {"error", "blocked", "gate", "approval_required", "release", "verified"}
        /\ (Planned(t) = "gate" => Unproven(Here(t)) # {})
    BY <1>1 DEF Planned
  <1>0. Independent(t, contract)' <=> Independent(t, contract)
    BY <1>1 DEF Independent
  <1>10. CASE ~(Independent(t, contract) /\ Planned(t) = "gate")
    BY ONLY <1>0, <1>1, <1>2, <1>4, <1>10 DEF Passes_OK
  <1> SUFFICES ASSUME Independent(t, contract), Planned(t) = "gate" PROVE Passes_OK(t)'
    BY <1>10
  <1>5. ASSUME NEW i \in DOMAIN Selected[Here(t)] \ Unproven(Here(t))
        PROVE  Fixes(Selected[Here(t)][i])
    <2>1. <<Selected[Here(t)][i], Here(t)>> \in receipts
      BY <1>3
    <2>2. <<Selected[Here(t)][i], workspace>> \in earned
      BY <2>1 DEF ReceiptsEarned, Here
    <2>3. PICK w \in Workspaces : workspace = Leaves[Selected[Here(t)][i]][w]
      BY <2>2 DEF EarnedByGate
    <2>4. i \in DOMAIN Selected[Here(t)] /\ w \in Workspaces
      OBVIOUS
    <2>5. Leaves[Selected[Here(t)][i]][Leaves[Selected[Here(t)][i]][w]]
            = Leaves[Selected[Here(t)][i]][w]
      BY ONLY <1>2, <2>4, Independent(t, contract), GatesAreIdempotent
    <2> QED BY <2>3, <2>5 DEF Fixes
  <1>6. pass[t] <= 2
    <2> SUFFICES ASSUME pass[t] >= 3 PROVE FALSE
      BY <1>1
    <2>1. AllProven(Here(t))
      BY <1>1 DEF Passes_OK
    <2>2. Unproven(Here(t)) = {}
      BY <2>1 DEF AllProven, GateSet, Unproven, Proven
    <2> QED BY <1>4, <2>2
  <1>7. pass[t] >= 2 => \A g \in GateSet(Here(t)) : Fixes(g)
    BY <1>1 DEF Passes_OK
  <1> QED
    BY <1>1, <1>2, <1>3, <1>5, <1>6, <1>7 DEF Passes_OK, Fixes

\* A gate leaves behind what it leaves alone itself, and what those that ran
\* before it leave alone.
LEMMA GatePasses ==
    ASSUME IInv, NEW t \in Txns \ Headless, GateEnds(t), Passes_OK(t)
    PROVE  Passes_OK(t)'
  <1> USE DEF IInv, TypeOK, Go
  <1> DEFINE s == subject[t]
             L == Selected[s]
             f == First(todo[t])
  <1>1. /\ pc[t] = "gate" /\ pc'[t] = "exited" /\ workspace' = Leaves[Gate(t)][workspace]
        /\ UNCHANGED <<contract, receipts, pass, subject, todo>> /\ pass[t] \in Nat
        /\ workspace \in Workspaces
    BY DEF GateEnds, artifacts
  <1>2. /\ f \in todo[t] /\ f \in DOMAIN L /\ Gate(t) = L[f]
        /\ s \in Subject /\ s.txn = t /\ s # NoSubject
    BY <1>1, TurnAt
  <1>3. Gate(t)' = Gate(t) /\ s.contract = contract
        /\ (Independent(t, contract)' <=> Independent(t, contract))
    BY <1>1, <1>2 DEF Gate, Passes_OK, Independent
  <1>10. CASE ~Independent(t, contract)
    BY ONLY <1>1, <1>2, <1>3, <1>10 DEF Passes_OK
  <1> SUFFICES ASSUME Independent(t, contract) PROVE Passes_OK(t)'
    BY <1>10
  <1>4. Selected[Here(t)] = L
    BY <1>1, <1>2, <1>3, SameGates DEF Here
  <1>5. ASSUME NEW i \in DOMAIN L, i = f \/ Fixes(L[i])
        PROVE  Leaves[L[i]][workspace'] = workspace'
    <2>0. i \in DOMAIN L /\ workspace \in Workspaces
      BY <1>1
    <2>1. Leaves[L[i]][Leaves[L[f]][workspace]] = Leaves[L[f]][Leaves[L[i]][workspace]]
      BY ONLY <1>2, <1>3, <2>0, Independent(t, contract), GatesCommute
    <2>2. Leaves[L[f]][Leaves[L[f]][workspace]] = Leaves[L[f]][workspace]
      BY ONLY <1>2, <1>3, <2>0, Independent(t, contract), GatesAreIdempotent
    <2> QED BY <1>1, <1>2, <1>5, <2>1, <2>2 DEF Fixes
  <1>6. \A i \in DOMAIN L \ todo[t] : Leaves[L[i]][workspace'] = workspace'
    BY <1>1, <1>5 DEF Passes_OK
  <1>7. Leaves[Gate(t)][workspace'] = workspace'
    BY <1>2, <1>5
  <1>8. CASE pass[t] >= 2
    <2>1. \A g \in GateSet(Here(t)) : Fixes(g)
      BY <1>1, <1>8 DEF Passes_OK
    <2>2. workspace' = workspace
      BY <1>1, <1>2, <1>4, <2>1 DEF GateSet, Fixes
    <2>3. Here(t)' = Here(t)
      BY <1>1, <2>2 DEF Here
    <2> QED
      BY <1>1, <1>3, <1>6, <1>7, <2>1, <2>2, <2>3 DEF Passes_OK, Fixes
  <1>9. CASE ~(pass[t] >= 2)
    BY <1>1, <1>3, <1>6, <1>7, <1>9 DEF Passes_OK, Fixes
  <1> QED BY <1>8, <1>9

\* The last gate of the first pass leaves a workspace that all leave alone, the
\* last of the second leaves no gate without a receipt.
LEMMA AttemptPasses ==
    ASSUME IInv, MaxPasses >= 3, NEW t \in Txns \ Headless, RecordAttempt(t),
           Current_OK(t), Passes_OK(t)
    PROVE  Passes_OK(t)'
  <1> USE DEF IInv, TypeOK, Go
  <1> DEFINE s == subject[t]
             L == Selected[s]
             f == First(todo[t])
  <1>1. /\ pc[t] = "attempt" /\ seen[t] = workspace
        /\ UNCHANGED <<contract, workspace, subject>> /\ pass[t] \in Nat /\ pass[t] >= 1
        /\ workspace \in Workspaces
    BY DEF RecordAttempt, Current_OK, project, Planned_OK
  <1>2. /\ f \in todo[t] /\ f \in DOMAIN L /\ Gate(t) = L[f]
        /\ s \in Subject /\ s.txn = t /\ s # NoSubject /\ s.contract = contract
    BY <1>1, TurnAt DEF Passes_OK
  <1>3. Here(t)' = Here(t) /\ Seen(t) = Here(t)
        /\ (Independent(t, contract)' <=> Independent(t, contract))
    BY <1>1 DEF Here, Seen, Independent
  <1>4. CASE exit[t] # "passed"
    BY <1>1, <1>2, <1>3, <1>4 DEF RecordAttempt, Passes_OK
  <1>5. CASE exit[t] = "passed"
    <2>1. /\ receipts' = receipts \cup {<<L[f], Here(t)>>}
          /\ pc'[t] = Onward(t) /\ todo'[t] = todo[t] \ {f}
          /\ pass'[t] = IF Onward(t) = "observe" THEN pass[t] + 1 ELSE pass[t]
      BY <1>2, <1>3, <1>5 DEF RecordAttempt, NextPass, Later
    <2>10. CASE ~Independent(t, contract)
      BY ONLY <1>1, <1>2, <1>3, <2>1, <2>10 DEF Passes_OK
    <2> SUFFICES ASSUME Independent(t, contract) PROVE Passes_OK(t)'
      BY <2>10
    <2>2. /\ pass[t] <= 2
          /\ \A i \in DOMAIN L \ todo'[t] : Fixes(L[i])
          /\ pass[t] = 2 => s = Here(t)
          /\ pass[t] = 2 => \A i \in DOMAIN L \ todo'[t] : <<L[i], Here(t)>> \in receipts'
          /\ pass[t] = 2 => \A g \in GateSet(Here(t)) : Fixes(g)
      BY <1>1, <1>2, <2>1 DEF Passes_OK
    <2>3. Selected[Here(t)] = L
      BY <1>1, <1>2, SameGates DEF Here
    <2>4. CASE todo'[t] # {}
      <3>1. pc'[t] = "gate" /\ pass'[t] = pass[t]
        BY <2>1, <2>4 DEF Onward, Later
      <3> QED BY <1>1, <1>2, <1>3, <2>2, <3>1 DEF Passes_OK, Fixes
    <2>5. CASE todo'[t] = {}
      <3>1. pc'[t] = "observe" /\ pass'[t] = pass[t] + 1
        <4>1. Later(t) = {} /\ MaxPasses \in Nat
          BY <2>1, <2>5, ConstantsAssumption DEF Later
        <4>2. Onward(t) = "observe"
          BY <1>1, <2>2, <4>1 DEF Onward
        <4> QED BY <2>1, <4>2
      <3>2. \A g \in GateSet(Here(t)) : Fixes(g)
        BY <2>2, <2>3, <2>5 DEF GateSet
      <3>3. pass[t] = 2 => \A g \in GateSet(Here(t)) : <<g, Here(t)>> \in receipts'
        BY <2>2, <2>3, <2>5 DEF GateSet
      <3> QED BY <1>1, <1>2, <1>3, <3>1, <3>2, <3>3 DEF Passes_OK, Fixes, AllProven
    <2> QED BY <2>4, <2>5
  <1> QED BY <1>4, <1>5

\* A call's step keeps what is known of its own passes.
LEMMA OwnPasses ==
    ASSUME IInv, MaxPasses >= 3, ReceiptsEarned, EarnedByGate,
           NEW t \in Txns \ Headless, CallStep(t), Current_OK(t), Passes_OK(t)
    PROVE  Passes_OK(t)'
  <1> USE DEF IInv, TypeOK, Passes_OK, Go
  <1>1. contract' = contract /\ (Independent(t, contract)' <=> Independent(t, contract))
    BY CallKeepsContract DEF Independent
  <1>2. CASE Begin(t) \/ Prepare(t) \/ PrepareFails(t)
    BY <1>1, <1>2 DEF Begin, Prepare, PrepareFails, locals
  <1>3. CASE Observe(t)
    BY <1>1, <1>3 DEF Observe, project, artifacts, Fixes, Here, AllProven
  <1>4. CASE Reobserve(t)
    <2>1. Gate(t)' = Gate(t)
      BY <1>4 DEF Reobserve, Gate
    <2> QED BY <1>1, <1>4, <2>1 DEF Reobserve, project, artifacts, Fixes, Here, AllProven
  <1>5. CASE AttemptFails(t) \/ ReleaseFails(t) \/ Release(t)
    BY <1>1, <1>5 DEF AttemptFails, ReleaseFails, Release, locals
  <1>6. CASE ToolEnds(t) \/ NotReleased(t) \/ \E yes \in BOOLEAN : Respond(t, yes)
    BY <1>1, <1>6 DEF ToolEnds, NotReleased, Respond, Leave
  <1> QED
    BY <1>2, <1>3, <1>4, <1>5, <1>6, PlanPasses, GatePasses, AttemptPasses DEF CallStep

\* Only the end of a gate adds to what gates left.
LEMMA EarnedByGateStep ==
    ASSUME IInv, NEW t \in Txns, CallStep(t), EarnedByGate
    PROVE  EarnedByGate'
  <1>1. CASE GateEnds(t)
    <2>1. earned' \subseteq earned \cup {<<Gate(t), Leaves[Gate(t)][workspace]>>}
          /\ workspace \in Workspaces
      BY <1>1 DEF GateEnds, IInv, TypeOK
    <2>2. ASSUME NEW e \in earned' PROVE \E w \in Workspaces : e[2] = Leaves[e[1]][w]
      <3>1. CASE e \in earned
        BY <3>1 DEF EarnedByGate
      <3>2. CASE e = <<Gate(t), Leaves[Gate(t)][workspace]>>
        BY <2>1, <3>2
      <3> QED BY <2>1, <3>1, <3>2
    <2> QED BY <2>2 DEF EarnedByGate
  <1>2. CASE ~GateEnds(t)
    <2>1. earned' = earned
      BY <1>2
      DEF CallStep, Begin, Prepare, PrepareFails, Observe, Plan, Reobserve, AttemptFails,
          RecordAttempt, Release, ReleaseFails, ToolEnds, NotReleased, Respond
    <2> QED BY <2>1 DEF EarnedByGate
  <1> QED BY <1>1, <1>2

\* While nobody else touches the workspace, no call runs out of passes whose
\* gates are independent.
THEOREM PassesInvariance ==
    ASSUME SharedGatesRead, MaxPasses >= 3 PROVE Spec => []PassesInv
  <1>1. Init => PassesInv
    BY DEF Init, PassesInv, EarnedByGate, Passes_OK
  <1>2. ASSUME IInv, CalmInv, PassesInv, [Next]_vars, Calm' PROVE PassesInv'
    <2>1. TypeOK /\ (Calm => orphans = {})
      BY <1>2 DEF IInv, CalmInv, Alone_OK
    <2>2. Calm
      BY <1>2, <2>1, CalmStep
    <2>3. /\ Alone_OK /\ ReceiptsEarned /\ EarnedByGate
          /\ \A t \in Txns \ Headless : Current_OK(t) /\ Passes_OK(t)
      BY <1>2, <2>2 DEF CalmInv, PassesInv
    <2>4. CASE UNCHANGED <<project, receipts, pc, pass, locals, orphans, earned>>
      <3>1. UNCHANGED <<contract, workspace, receipts, pc, pass, subject, todo, earned>>
        BY <2>4 DEF project, locals
      <3>2. ASSUME NEW t \in Txns \ Headless PROVE Passes_OK(t)'
        <4>1. /\ Independent(t, contract)' <=> Independent(t, contract)
              /\ Here(t)' = Here(t) /\ Gate(t)' = Gate(t)
          BY <3>1 DEF Independent, Here, Gate
        <4> QED BY <2>3, <3>1, <4>1 DEF Passes_OK, Fixes, AllProven
      <3> QED BY <2>3, <3>1, <3>2 DEF PassesInv, EarnedByGate
    <2>5. ASSUME NEW t \in Txns \ Headless, CallStep(t) PROVE PassesInv'
      <3>1. EarnedByGate'
        BY <1>2, <2>3, <2>5, EarnedByGateStep
      <3>2. ASSUME NEW u \in Txns \ Headless PROVE Passes_OK(u)'
        BY <1>2, <2>3, <2>5, OthersPass, OwnPasses
      <3> QED BY <3>1, <3>2 DEF PassesInv
    <2> QED BY <1>2, <2>1, <2>4, <2>5, CalmStep
  <1>3. IInv /\ CalmInv /\ PassesInv /\ [Next]_vars => PassesInv'
    BY <1>2 DEF PassesInv
  <1> QED BY Invariance, CalmInvariance, <1>1, <1>3, PTL DEF Spec

\* Three passes, the MAX_CONVERGENCE_PASSES of the code, are enough for any
\* number of gates that do not undo each other: none of them diverges.
THEOREM IndependentGatesConverge ==
    ASSUME SharedGatesRead, MaxPasses >= 3 PROVE Spec => []ConvergesIfIndependent
  <1>1. IInv /\ PassesInv => ConvergesIfIndependent
    <2> SUFFICES ASSUME IInv, PassesInv, Undisturbed, faults = 0, NEW t \in Txns,
                        pc[t] = "diverged", Independent(t, subject[t].contract)
                 PROVE  FALSE
      BY DEF ConvergesIfIndependent
    <2>1. t \notin Headless /\ Passes_OK(t)
      BY DEF Undisturbed, PassesInv, Calm
    <2> QED BY <2>1 DEF Passes_OK
  <1> QED BY Invariance, PassesInvariance, <1>1, PTL

-----------------------------------------------------------------------------
(* Proofs: the refinement                                                  *)

\* Initial states are initial states of the abstract specification.
LEMMA InitRefines == Init => Promise!Init
  BY DEF Init, Promise!Init

\* Recording an attempt proves, answering approves or declines, releasing
\* releases; every other step leaves the abstract state alone.
LEMMA NextRefines ==
    ASSUME IInv, [Next]_vars
    PROVE  [Promise!Next]_(Promise!Release_vars)
  <1> USE DEF Promise!Release_vars
  <1>1. ASSUME NEW t \in Txns, RecordAttempt(t) PROVE [Promise!Next]_(Promise!Release_vars)
    <2>1. CASE exit[t] # "passed"
      BY <1>1, <2>1 DEF RecordAttempt
    <2>2. CASE exit[t] = "passed"
      <3>1. Seen(t) \in Subject /\ Gate(t) \in GateSet(Seen(t))
        BY <1>1, SeenIn DEF IInv, RecordAttempt, Recordable
      <3>2. Promise!Prove(Gate(t), Seen(t))
        BY <1>1, <2>2, <3>1 DEF RecordAttempt, Recordable, Proven, Promise!Prove
      <3> QED BY <3>1, <3>2 DEF Promise!Next
    <2> QED BY <2>1, <2>2
  <1>2. ASSUME NEW t \in Txns, Release(t) PROVE [Promise!Next]_(Promise!Release_vars)
    <2>1. /\ subject[t] \in Subject /\ Decision[subject[t]] # "deny"
          /\ AllProven(subject[t])
      BY <1>2 DEF IInv, Planned_OK, Release
    <2>2. Promise!Release(subject[t])
      BY <1>2, <2>1 DEF Release, Releasable, AllProven, Promise!Release
    <2> QED BY <2>1, <2>2 DEF Promise!Next
  <1>3. ASSUME NEW t \in Txns, NEW yes \in BOOLEAN, Respond(t, yes)
        PROVE  [Promise!Next]_(Promise!Release_vars)
    <2>1. subject[t] \in Subject /\ Decision[subject[t]] = "ask"
      BY <1>3 DEF IInv, Planned_OK, Respond
    <2>2. UNCHANGED <<receipts, releases>>
      BY <1>3 DEF Respond
    <2>3. \/ approvals' = approvals
          \/ approvals' = approvals \cup {subject[t]}
          \/ approvals' = approvals \ {subject[t]}
      BY <1>3 DEF Respond
    <2>4. \/ UNCHANGED Promise!Release_vars
          \/ Promise!Approve(subject[t]) \/ Promise!Decline(subject[t])
      BY <2>1, <2>2, <2>3 DEF Promise!Approve, Promise!Decline
    <2> QED BY <2>1, <2>4 DEF Promise!Next
  <1>4. CASE UNCHANGED artifacts
    BY <1>4 DEF artifacts
  <1> QED
    BY <1>1, <1>2, <1>3, <1>4
    DEF Next, vars, Advance, Caller, artifacts, Begin, InitRun, Prepare, PrepareFails, Observe,
          Plan, GateEnds, Reobserve, AttemptFails, RecordAttempt, Release, ReleaseFails,
          Fails, GateKilled, Kill, Respond, ToolEnds, NotReleased, CloseHeadless,
          CleanupFails, OrphanEnds, UserEdits, CloseSession

\* However calls, edits, kills and the end of the session interleave, a release
\* takes effect once, for a subject that policy does not deny and whose gates
\* all have a receipt for that subject, on a consent it uses up.
THEOREM Refinement == Spec => ImplementsRelease
  <1>1. Spec => Promise!Init /\ [][Promise!Next]_(Promise!Release_vars)
    BY InitRefines, NextRefines, Invariance, PTL DEF Spec
  <1> QED BY <1>1 DEF ImplementsRelease, Promise!Spec
=============================================================================
