------------------------------ MODULE Contract ------------------------------
(* The effective contract of a project: the policies of user, repository    *)
(* and workflow and the gates of repository and workflow, what a launch     *)
(* makes of them (launch.rs, gate_executor_requirements of enforcement.rs)  *)
(* and what each protected call is planned by (plan_for_intent). The        *)
(* documents and the build files may be edited at any time; every call      *)
(* reads them again, a session keeps the executors its launch prepared.     *)
(*                                                                          *)
(* workflow is what the workflow text compiles to: a policy and gates, each *)
(* possibly Absent, and whether the text has errors or asks for a placement *)
(* the launcher cannot prove. Receipts and approvals are Verification's.    *)
EXTENDS GateDetection

CONSTANTS UserPolicies, RepositoryPolicies, Workflows, Evidence,
          FirstGates,      \* what the repository's gate document may be at first
          Additions(_),    \* what its user may make of it
          Requests,        \* the calls of the session
          MaxEdits

P == INSTANCE Policy

ASSUME PoliciesAssumption ==
    /\ Absent # Bad /\ {Absent, Bad} \cap (P!Decisions \cup P!Placements) = {}
    /\ \A doc \in UserPolicies \cup RepositoryPolicies \cup {w.policy : w \in Workflows} :
          doc = Absent \/ P!IsPolicyDocument(doc)

ASSUME GatesAssumption == \A doc \in FirstGates : doc = Absent \/ IsGateDocument(doc)

(* The namespace holds what detection may name, and Absent and Bad are no   *)
(* values that it writes.                                                   *)
ASSUME EvidenceAssumption ==
    \A e \in Evidence :
        /\ IsEvidence(e)
        /\ {"detected"} \X Templates \X ({Root} \cup Workspaces(e.root)) \subseteq Reserved
        /\ {GatesJson(Inspect(e)), GatesJson(Inspect(e)).scaffold, "pre_pr"} \cap {Absent, Bad} = {}
        /\ \A t \in PlanTemplates(e) : {GeneratedGate(t).id, GeneratedGate(t).run} \cap {Absent, Bad} = {}

VARIABLES userPolicy,       \* the user's policy document, or Absent
          repositoryPolicy, \* the repository's policy document, or Absent
          repositoryGates,  \* the repository's gate document, or Absent
          workflow,         \* the compiled workflow
          evidence,         \* what detection finds
          launched,         \* what the running session was launched with, or Absent
          plan,             \* the last plan, or Absent once a document changed
          edits

documents == [user |-> userPolicy, policy |-> repositoryPolicy, gates |-> repositoryGates,
              workflow |-> workflow]
vars == <<userPolicy, repositoryPolicy, repositoryGates, workflow, evidence, launched, plan, edits>>

-----------------------------------------------------------------------------
(* The contract, as load_contract composes it from the documents. *)

PolicyDocuments(docs) == {docs.user, docs.workflow.policy, docs.policy} \ {Absent}
GateDocuments(docs)   == {docs.workflow.gates, docs.gates} \ {Absent}

ContractOk(docs) ==
    /\ docs.policy # Absent /\ docs.gates # Absent
    /\ \A doc \in PolicyDocuments(docs) : ~P!PolicyErrors(doc)
    /\ \A doc \in GateDocuments(docs) : ~GateErrors(doc)
    /\ ~docs.workflow.faulty

Policies(docs) == {P!ParsePolicy(doc) : doc \in PolicyDocuments(docs)}
Sources(docs)  == {ParseGates(doc) : doc \in GateDocuments(docs)}

-----------------------------------------------------------------------------
(* One call. *)

(* The class the adapter must declare for an action. *)
ClassOf(action) ==
    CASE action = "fs.read"  -> "read"
      [] action = "fs.write" -> "workspace_write"
      [] action \in {"git.read", "git.add", "git.commit"} -> "git_local"
      [] action \in {"git.push", "git.push_force", "gh.pr_mutate", "gh.issue_mutate"} -> "git_remote"
      [] action = "gh.read" -> "network_read"
      [] action = "dependency.install" -> "dependency_install"
      [] action \in {"network.transfer", "wrangler.mutate", "terraform.mutate",
                     "kubectl.mutate", "deploy.mutate"} -> "network_write"
      [] action \in {"file.read_credential", "file.search_credential", "env.dump", "export.bare",
                     "echo.secret_var", "network.exfil_credential", "network.exfil_env"} -> "secret_bearing"
      [] action \in {"git.reset_hard", "git.clean_force", "rm.recursive", "sudo.exec",
                     "chmod.perm_777", "chown.exec", "disk.raw_write", "system.shutdown",
                     "find.delete", "find.exec", "nopal.enforcement_internal"} -> "destructive"
      [] OTHER -> Absent

ClassesValid(req) == ClassOf(req.action) # Absent /\ req.classes = {ClassOf(req.action)}

RequiredStages(req) ==
    {"continuous"}
    \cup (IF req.action = "fs.write" \/ "workspace_write" \in req.classes THEN {"per_edit"} ELSE {})
    \cup (IF req.action = "git.commit" THEN {"pre_commit"} ELSE {})
    \cup (IF req.action \in {"git.push", "gh.pr_mutate"} THEN {"pre_pr"} ELSE {})

(* Once an explicit gate of any source was selected, no source's generated  *)
(* gates are required at that stage.                                        *)
RequiredAt(stage, files, sources) ==
    LET explicit == \E c \in sources : \E g \in Selected(c, stage, files) : Explicit(c, g)
    IN  UNION {{g \in Selected(c, stage, files) : explicit => Explicit(c, g)} : c \in sources}

RequiredGates(req, sources) ==
    UNION {RequiredAt(stage, req.files, sources) : stage \in RequiredStages(req)}

(* What policy is asked: an enforced call never names environment           *)
(* variables, so their classes count for `nopal policy` alone.              *)
Asked(req) == [mode |-> req.mode, action |-> req.action, classes |-> req.classes, env |-> {}]

(* Two definitions of one gate. *)
Conflict(gates) == \E g, h \in gates : g.id = h.id /\ g # h

Composed(docs, req, field, weakest) ==
    P!Strictest({weakest} \cup {P!Evaluate(policy, Asked(req))[field] : policy \in Policies(docs)})

PlanFor(docs, req) ==
    LET readable == ContractOk(docs) /\ ClassesValid(req)
        decision == IF readable THEN Composed(docs, req, "decision", P!Allow) ELSE P!Deny
        gates    == IF readable /\ decision # P!Deny THEN RequiredGates(req, Sources(docs)) ELSE {}
        ok       == readable /\ ~Conflict(gates)
    IN  [request   |-> req,
         ok        |-> ok,
         decision  |-> IF ok THEN decision ELSE P!Deny,
         placement |-> IF ok THEN Composed(docs, req, "placement", P!Shared) ELSE P!Blocked,
         gates     |-> IF ok THEN gates ELSE {}]

-----------------------------------------------------------------------------
(* The launch. *)

(* Mutant: executors are prepared for the stages of commits and pull        *)
(* requests.                                                                *)
Preparable_NoEdits == {"pre_commit", "pre_pr"}

Preparable == ActionStages

Requirements(docs) == UNION {{g \in c.gates : g.stage \in Preparable} : c \in Sources(docs)}

(* Mutant: any explicit gate of the stage stands for the repository. *)
NopalExplicit_Scoped ==
    \E g \in ParseGates(repositoryGates).gates :
        g.stage = "pre_pr" /\ Explicit(ParseGates(repositoryGates), g)

NopalExplicit == UnscopedExplicitPrePr(ParseGates(repositoryGates))

WorkflowExplicit == workflow.gates # Absent /\ UnscopedExplicitPrePr(ParseGates(workflow.gates))

GatesReady ==
    /\ \A doc \in GateDocuments(documents) : ~GateErrors(doc)
    /\ ~workflow.faulty
    /\ \/ NopalExplicit
       \/ WorkflowExplicit
       \/ /\ ParseGates(repositoryGates).scaffold # Absent
          /\ repositoryGates.scaffold.readiness = "ready"
          /\ Inspect(evidence).readiness = "ready"
          /\ MatchesChecked(Inspect(evidence), repositoryGates)

(* Every file of the baseline is there and valid, and the gates prove       *)
(* something.                                                               *)
Launchable == ContractOk(documents) /\ GatesReady /\ ~Conflict(Requirements(documents))

(* A first run has something to publish. *)
Proposed == repositoryGates = Absent /\ Inspect(evidence).readiness # "blocked"

-----------------------------------------------------------------------------
Init ==
    /\ userPolicy \in UserPolicies
    /\ repositoryPolicy \in RepositoryPolicies
    /\ workflow \in Workflows
    /\ evidence \in Evidence
    /\ repositoryGates \in FirstGates
    /\ launched = Absent /\ plan = Absent
    /\ edits = 0

(* The gate document of the first run; FirstRun has the files it is one of. *)
(* What validation refuses is not written.                                  *)
Publish ==
    /\ Proposed
    /\ ~GateErrors(GatesJson(Inspect(evidence)))
    /\ repositoryGates' = GatesJson(Inspect(evidence))
    /\ plan' = Absent
    /\ UNCHANGED <<userPolicy, repositoryPolicy, workflow, evidence, launched, edits>>

Launch ==
    /\ repositoryGates # Absent
    /\ Launchable
    /\ launched' = [documents |-> documents, gates |-> Requirements(documents)]
    /\ UNCHANGED <<userPolicy, repositoryPolicy, repositoryGates, workflow, evidence, plan, edits>>

Call(req) ==
    /\ launched # Absent
    /\ plan' = PlanFor(documents, req)
    /\ UNCHANGED <<userPolicy, repositoryPolicy, repositoryGates, workflow, evidence, launched, edits>>

Edit(changed) ==
    /\ edits < MaxEdits
    /\ edits' = edits + 1
    /\ plan' = Absent
    /\ changed
    /\ UNCHANGED launched

EditGates ==
    /\ repositoryGates # Absent
    /\ Edit(repositoryGates' \in {doc \in Additions(repositoryGates) : IsGateDocument(doc)})
    /\ UNCHANGED <<userPolicy, repositoryPolicy, workflow, evidence>>

EditPolicies ==
    /\ Edit(userPolicy' \in UserPolicies)
    /\ UNCHANGED <<repositoryPolicy, repositoryGates, workflow, evidence>>

EditWorkflow ==
    /\ Edit(workflow' \in Workflows)
    /\ UNCHANGED <<userPolicy, repositoryPolicy, repositoryGates, evidence>>

ChangeProject ==
    /\ Edit(evidence' \in Evidence)
    /\ UNCHANGED <<userPolicy, repositoryPolicy, repositoryGates, workflow>>

Next == \/ Publish \/ Launch \/ \E req \in Requests : Call(req)
        \/ EditGates \/ EditPolicies \/ EditWorkflow \/ ChangeProject

Spec == Init /\ [][Next]_vars
-----------------------------------------------------------------------------
(* Properties. *)

(* Whether the gate proves the file at a selection of source c: generated   *)
(* gates prove the repository, an explicit gate what its selectors match.   *)
Proves(c, gate, files, file) ==
    /\ gate \in c.gates
    /\ \/ ~Explicit(c, gate)
       \/ c.selectors = {}
       \/ \E s \in c.selectors : gate.id \in SetIds(c, s) /\ file \in Matching(files, s)

(* Selection never drops generated proof of a file for explicit gates that  *)
(* do not look at it: where a valid document has generated gates at the     *)
(* stage, every changed file keeps a selected gate that proves it.          *)
SelectionProvesEveryFile ==
    \A doc \in GateDocuments(documents) : ~GateErrors(doc) =>
        LET c == ParseGates(doc)
        IN  \A req \in Requests : \A stage \in RequiredStages(req) :
              (\E g \in c.gates : g.stage = stage /\ ~Explicit(c, g)) =>
                 \A file \in req.files :
                    \E g \in Selected(c, stage, req.files) : Proves(c, g, req.files, file)

(* What ADR 0014 and select_required_gates promise of the call's plan: no   *)
(* changed file loses its generated proof to explicit gates of the stage    *)
(* that do not cover it.                                                    *)
EveryFileProven ==
    plan # Absent /\ plan.ok /\ plan.decision # P!Deny =>
        \A stage \in RequiredStages(plan.request) :
           (\E c \in Sources(documents) : \E g \in c.gates : g.stage = stage /\ ~Explicit(c, g)) =>
              \A file \in plan.request.files :
                 \E g \in plan.gates : \E c \in Sources(documents) :
                    g.stage = stage /\ Proves(c, g, plan.request.files, file)

(* While the documents are the ones the session was launched with, whatever *)
(* a well-formed call is planned with was prepared: every required gate has *)
(* its executor and no plan fails on a conflict the launch did not refuse.  *)
PreparedCoversRequired ==
    plan # Absent /\ launched # Absent /\ launched.documents = documents =>
        /\ plan.gates \subseteq launched.gates
        /\ ClassesValid(plan.request) => plan.ok

(* A contract that may be launched proves something: no push it allows is   *)
(* planned without a gate, and unless unscoped explicit gates stand for the *)
(* repository every declared workspace has a gate of its own or of the root *)
(* manifest that covers it.                                                 *)
LaunchIsProven ==
    repositoryGates # Absent /\ Launchable =>
        /\ \A req \in Requests :
              "pre_pr" \in RequiredStages(req) /\ ClassesValid(req) /\ PlanFor(documents, req).decision # P!Deny =>
                 \E g \in PlanFor(documents, req).gates : g.stage = "pre_pr"
        /\ \/ NopalExplicit \/ WorkflowExplicit
           \/ \A path \in Workspaces(evidence.root) :
                 \/ \E t \in repositoryGates.scaffold.templates : t.scope = path
                 \/ CoveredBy(evidence.root, path) # {}

(* What the first run proposes, validation accepts: no evidence that does   *)
(* not block detection makes it generate a document the first run then      *)
(* refuses to write, and a ready one is ready for launch at once.           *)
PublishedIsAccepted ==
    /\ [](Proposed => ~GateErrors(GatesJson(Inspect(evidence))))
    /\ [][/\ Publish
          /\ repositoryGates'.scaffold.readiness = "ready"
          /\ workflow.gates = Absent /\ ~workflow.faulty
          => GatesReady']_vars

(* Every rule that a document of a valid contract states for a call binds   *)
(* it, whichever document it is in and whatever stands beside it; what      *)
(* `nopal policy` reports of the repository is never relaxed; the floors    *)
(* hold under every document; and a contract with one error, in any         *)
(* document, denies.                                                        *)
EveryRuleIsHonoured ==
    plan # Absent =>
        LET req == plan.request
            states(r) == req.action \in P!Entries(r.actions)
                         \/ P!Entries(r.classes) \cap req.classes # {}
        IN  /\ plan.ok => ContractOk(documents)
            /\ ~plan.ok => plan.decision = P!Deny /\ plan.placement = P!Blocked /\ plan.gates = {}
            /\ "destructive" \in req.classes => plan.decision = P!Deny /\ plan.placement = P!Blocked
            /\ plan.ok => /\ plan.decision >= P!PolicyReport(repositoryPolicy, Asked(req)).decision
                          /\ plan.placement >= P!PolicyReport(repositoryPolicy, Asked(req)).placement
            /\ plan.ok =>
                 \A doc \in PolicyDocuments(documents) : req.mode \in P!ModeNames(doc) =>
                   \A i \in DOMAIN P!RuleList(doc.modes[req.mode]) :
                     LET r == P!RuleList(doc.modes[req.mode])[i]
                     IN  states(r) => /\ r.decision # Absent => plan.decision >= r.decision
                                      /\ r.placement # Absent => plan.placement >= r.placement
=============================================================================
