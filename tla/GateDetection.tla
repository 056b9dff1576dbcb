--------------------------- MODULE GateDetection ----------------------------
(* First-run gate detection, gate_scaffold.rs: from the build files of the  *)
(* root and of the workspaces its manifests declare to a plan, and from the *)
(* plan to the gate document that is published and later compared with what *)
(* detection finds then.                                                    *)
(*                                                                          *)
(* The evidence of a scope is what its files show:                          *)
(*   runners   task runners (make, just, ...) that declare validation tasks *)
(*   scripts   package.json declares validation scripts                     *)
(*   locks     package managers with a lock file                            *)
(*   declared  the manager package.json names, Bad for a name detection     *)
(*             knows nothing of, or Absent                                  *)
(*   composer  the composer test script runs phpunit                        *)
(*   defaults  templates whose manifest or configured tool is there         *)
(*   broken    a file that detection reads cannot be read or parsed         *)
(* The root also has npmWorkspaces, and declarations: one per manifest,     *)
(* with the members its patterns expand to, the root template that already  *)
(* validates them, the paths it excludes, and whether a pattern is invalid, *)
(* meets a symbolic link or exhausts the expansion budget.                  *)
EXTENDS GateDocument, SequencesExt

CONSTANTS TaskTemplate,     \* runner -> its template
          ManagerTemplate,  \* package manager -> its template
          PhpTemplate,      \* the template of composer scripts and of phpunit
          Rivals,           \* pairs of default templates that claim the same sources
          Covering          \* templates that validate their declared workspaces from the root

Root == "."

ASSUME RegistryAssumption ==
    /\ IsFiniteSet(Templates) /\ {Baseline, PhpTemplate} \subseteq Templates
    /\ \A r \in DOMAIN TaskTemplate : TaskTemplate[r] \in Templates
    /\ \A m \in DOMAIN ManagerTemplate : ManagerTemplate[m] \in Templates

-----------------------------------------------------------------------------
(* One scope. *)

(* The runners and locks detection looks for are the ones it has a          *)
(* template of, the defaults are templates.                                 *)
IsScope(e) ==
    /\ e.runners \subseteq DOMAIN TaskTemplate
    /\ e.locks \subseteq DOMAIN ManagerTemplate
    /\ e.declared \in DOMAIN ManagerTemplate \cup {Absent, Bad}
    /\ e.defaults \subseteq Templates

(* An unknown name proves nothing and contradicts no lock of its scope.     *)
Known(e) == IF e.declared \in DOMAIN ManagerTemplate THEN e.declared ELSE Absent

(* Which package manager runs the scripts: the one lock file, else the      *)
(* declared manager, else the one of the root; Absent when unproven.        *)
Manager(e, inherited) ==
    CASE e.locks = {} /\ Known(e) # Absent -> Known(e)
      [] e.locks = {} /\ Known(e) = Absent -> inherited
      [] Cardinality(e.locks) = 1 /\ Known(e) \in {Absent} \cup e.locks -> CHOOSE lock \in e.locks : TRUE
      [] OTHER -> Absent

(* What the root offers its workspaces. *)
Hint(e) == IF Cardinality(e.locks) = 1 THEN CHOOSE lock \in e.locks : TRUE ELSE Known(e)

FamilyTemplates(e, inherited) ==
    (IF e.scripts /\ Manager(e, inherited) # Absent
     THEN {ManagerTemplate[Manager(e, inherited)]} ELSE {})
    \cup (IF e.composer THEN {PhpTemplate} ELSE {})

(* A task runner of the repository supersedes everything else in its scope; *)
(* composer's own test script supersedes the phpunit default.               *)
ChosenTemplates(e, inherited) ==
    CASE e.runners # {} -> {TaskTemplate[r] : r \in e.runners}
      [] OTHER          -> FamilyTemplates(e, inherited) \cup e.defaults

ScopeBlocked(e, inherited) ==
    \/ e.broken
    \/ Cardinality(e.runners) > 1
    \/ e.scripts /\ Manager(e, inherited) = Absent
    \/ e.runners = {} /\ \E pair \in Rivals : pair \subseteq e.defaults

ScopeTemplates(e, inherited) == {Baseline} \cup ChosenTemplates(e, inherited)

Readiness(blocked, templates) ==
    CASE blocked -> "blocked"
      [] ~blocked /\ Cardinality(templates) > 1 -> "ready"
      [] OTHER -> "needs_configuration"

Outcome(e, inherited, covered, t) ==
    LET evident == FamilyTemplates(e, inherited) \cup e.defaults
    IN  CASE t \in covered /\ t \in ScopeTemplates(e, inherited)      -> "superseded"
          [] t \notin covered /\ t \in ScopeTemplates(e, inherited)   -> "selected"
          [] t \notin ScopeTemplates(e, inherited) /\ t \in evident   -> "superseded"
          [] OTHER                                                    -> "skipped"

InspectScope(e, inherited) ==
    [readiness |-> Readiness(ScopeBlocked(e, inherited), ScopeTemplates(e, inherited)),
     templates |-> ScopeTemplates(e, inherited)]

-----------------------------------------------------------------------------
(* The workspaces. An exclusion counts in the manifest that has it.         *)

Members(declaration) == {m \in declaration.members : m.path \notin declaration.excluded}

Workspaces(root) == {m.path : m \in UNION {Members(d) : d \in root.declarations}}

(* The expansion of the patterns has a budget: the workspaces are finitely  *)
(* many.                                                                    *)
IsEvidence(evidence) ==
    /\ IsScope(evidence.root)
    /\ IsFiniteSet(Workspaces(evidence.root))
    /\ \A path \in Workspaces(evidence.root) : IsScope(evidence.scopes[path])

CoveredFromRoot(root, path) ==
    {m.covers : m \in {n \in UNION {Members(d) : d \in root.declarations} : n.path = path}} \ {Absent}

(* package.json that declares workspaces must not leave the manager open;   *)
(* here even an unknown name contradicts the lock.                          *)
WorkspaceManagerConflict(root) ==
    /\ root.npmWorkspaces
    /\ \/ Cardinality(root.locks) > 1
       \/ root.locks # {} /\ root.declared \notin {Absent} \cup root.locks

RootBlocked(root) ==
    \/ ScopeBlocked(root, Absent)
    \/ WorkspaceManagerConflict(root)
    \/ \E d \in root.declarations : d.invalid

(* Root templates that stand for the workspace. *)
CoveredBy(root, path) ==
    Covering \cap ScopeTemplates(root, Absent) \cap CoveredFromRoot(root, path)

Child(evidence, path) == InspectScope(evidence.scopes[path], Hint(evidence.root))

Unproven(evidence) ==
    \E path \in Workspaces(evidence.root) : Child(evidence, path).readiness = "needs_configuration"

PlanTemplates(evidence) ==
    {[id |-> t, scope |-> Root] : t \in ScopeTemplates(evidence.root, Absent)}
    \cup UNION {{[id |-> t, scope |-> path] :
                    t \in Child(evidence, path).templates \ ({Baseline} \cup CoveredBy(evidence.root, path))} :
                path \in Workspaces(evidence.root)}

(* Mutant: the baseline alone makes a project ready.                        *)
PlanReadiness_CountsBaseline(evidence) ==
    CASE \/ RootBlocked(evidence.root)
         \/ \E path \in Workspaces(evidence.root) : Child(evidence, path).readiness = "blocked" -> "blocked"
      [] Unproven(evidence) -> "needs_configuration"
      [] OTHER -> "ready"

PlanReadiness(evidence) ==
    CASE \/ RootBlocked(evidence.root)
         \/ \E path \in Workspaces(evidence.root) : Child(evidence, path).readiness = "blocked" -> "blocked"
      [] Unproven(evidence) \/ Cardinality(PlanTemplates(evidence)) = 1 -> "needs_configuration"
      [] OTHER -> "ready"

Decided(evidence) ==
    {<<path, t, Outcome(evidence.scopes[path], Hint(evidence.root), CoveredBy(evidence.root, path), t)>> :
        path \in Workspaces(evidence.root), t \in Templates}
    \cup {<<Root, t, Outcome(evidence.root, Absent, {}, t)>> : t \in Templates}

Inspect(evidence) == [readiness |-> PlanReadiness(evidence),
                      templates |-> PlanTemplates(evidence),
                      decisions |-> Decided(evidence)]

-----------------------------------------------------------------------------
(* The document. The gates of a template are one gate here, named after it. *)

DetectedId(t) == <<"detected", t.id, t.scope>>

GeneratedGate(t) == [id |-> DetectedId(t), stage |-> "pre_pr",
                     run |-> <<"generated", t.id, t.scope>>, options |-> Absent]

Provenance(plan) == [readiness |-> plan.readiness, authority |-> "generated",
                     templates |-> plan.templates, decisions |-> plan.decisions,
                     ids       |-> SetToSeq({DetectedId(t) : t \in plan.templates})]

GatesJson(plan) == [version    |-> "v2",
                    scaffold   |-> Provenance(plan),
                    preflights |-> <<>>,
                    gates      |-> SetToSeq({GeneratedGate(t) : t \in plan.templates}),
                    sets       |-> <<>>,
                    selectors  |-> {}]

(* What a gate document has once it is read: lists, or nothing usable.      *)
IsGateDocument(doc) ==
    doc = Bad \/ /\ doc.preflights \in Seq(ToSet(doc.preflights))
                 /\ doc.gates \in Seq(ToSet(doc.gates))

(* Explicit gates and selectors of the same document are not drift, wherever *)
(* they stand; the generated gates are there once each and in their order.  *)
MatchesChecked(plan, doc) ==
    LET written      == GatesJson(plan)
        generated(d) == {g \in ToSet(d.gates) :
                            g.id \in ToSet(doc.scaffold.ids)}
        order(d)     == {pair \in generated(d) \X generated(d) :
                            \E i, j \in DOMAIN d.gates :
                               i < j /\ pair = <<d.gates[i], d.gates[j]>>}
    IN  /\ doc.scaffold = written.scaffold
        /\ generated(doc) = generated(written)
        /\ order(doc) = order(written)
=============================================================================
