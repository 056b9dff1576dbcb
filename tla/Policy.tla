------------------------------- MODULE Policy -------------------------------
(* The action policy of policy.rs: what validation keeps of a document and  *)
(* what it refuses, and the decision and the placement of one request.      *)
(*                                                                          *)
(* A document is what parsing the text gives: Absent stands for a field     *)
(* that is missing, Bad for one of the wrong shape or with a word that is   *)
(* not in its vocabulary.                                                   *)
EXTENDS Naturals, Sequences

CONSTANTS Absent, Bad

(* The two lattices, weakest first. *)
Allow == 0
Ask   == 1
Deny  == 2
Decisions == {Allow, Ask, Deny}

Shared        == 0
DedicatedRepo == 1
DedicatedRun  == 2
Blocked       == 3
Placements == {Shared, DedicatedRepo, DedicatedRun, Blocked}

KnownClasses == {"read", "workspace_write", "dependency_install", "network_read",
                 "network_write", "git_local", "git_remote", "destructive", "secret_bearing"}

BuiltinDecision(mode) == CASE mode = "manual" -> Allow
                           [] mode = "ci"     -> Deny
                           [] OTHER           -> Ask

BuiltinPlacement(mode) == CASE mode \in {"manual", "supervised_auto"} -> Shared
                            [] mode = "ci"                            -> DedicatedRun
                            [] OTHER                                  -> DedicatedRepo

Stricter(a, b) == IF a > b THEN a ELSE b

Strictest(values) == CHOOSE v \in values : \A w \in values : w <= v

-----------------------------------------------------------------------------
(* What parsing makes of a document: a word of the vocabulary, or Bad.      *)

IsRule(r) ==
    r.decision \in Decisions \cup {Absent, Bad} /\ r.placement \in Placements \cup {Absent, Bad}

RuleList(raw) == IF raw.rules \in {Absent, Bad} THEN <<>> ELSE raw.rules

ModeNames(doc) == IF doc.modes \in {Absent, Bad} THEN {} ELSE DOMAIN doc.modes

IsMode(raw) == IsRule(raw) /\ \A i \in DOMAIN RuleList(raw) : IsRule(RuleList(raw)[i])

IsPolicyDocument(doc) ==
    doc = Bad \/ \A mode \in ModeNames(doc) : doc.modes[mode] = Bad \/ IsMode(doc.modes[mode])

-----------------------------------------------------------------------------
(* Validation: everything understandable is kept, every problem is seen.    *)

Value(field) == IF field = Bad THEN Absent ELSE field

(* A list of class names or action ids: a wrong entry is refused and the    *)
(* others are kept.                                                         *)
Entries(list)   == IF list \in {Absent, Bad} THEN {} ELSE list \ {Bad}
ListError(list) == list = Bad \/ (list # Absent /\ Bad \in list)

RuleError(r) ==
    \/ r.id = Bad
    \/ r.decision = Bad \/ r.placement = Bad
    \/ ListError(r.classes) \/ ListError(r.actions)
    \/ Entries(r.classes) = {} /\ Entries(r.actions) = {}
    \/ r.decision = Absent /\ r.placement = Absent

ParseRule(r) == [id        |-> r.id,
                 decision  |-> Value(r.decision),
                 placement |-> Value(r.placement),
                 classes   |-> Entries(r.classes),
                 actions   |-> Entries(r.actions)]

(* The first rule of an identity is the rule. *)
Repeated(rules, i) == \E j \in 1..(i - 1) : rules[j].id = rules[i].id

ModeError(raw) ==
    \/ raw = Bad
    \/ raw.decision = Bad \/ raw.placement = Bad \/ raw.rules = Bad
    \/ \E i \in DOMAIN RuleList(raw) : RuleError(RuleList(raw)[i]) \/ Repeated(RuleList(raw), i)

ParseMode(raw) ==
    [decision  |-> Value(raw.decision),
     placement |-> Value(raw.placement),
     rules     |-> {ParseRule(RuleList(raw)[i]) :
                      i \in {k \in DOMAIN RuleList(raw) :
                               RuleList(raw)[k].id # Bad /\ ~Repeated(RuleList(raw), k)}}]

EnvList(doc) == IF doc.env \in {Absent, Bad} THEN <<>> ELSE doc.env

EnvUsable(env, i) == /\ env[i].name # Bad
                     /\ env[i].classes # Absent
                     /\ \A j \in 1..(i - 1) : env[j].name # env[i].name

(* Whether validation reports an error: the document then decides nothing.  *)
PolicyErrors(doc) ==
    \/ doc = Bad
    \/ doc.version # "nopal.policy/v1"
    \/ doc.modes \in {Absent, Bad}
    \/ \E mode \in ModeNames(doc) : mode = "" \/ ModeError(doc.modes[mode])
    \/ doc.env = Bad
    \/ \E i \in DOMAIN EnvList(doc) :
          ~EnvUsable(EnvList(doc), i) \/ ListError(EnvList(doc)[i].classes)

ParsePolicy(doc) ==
    LET usable == {mode \in ModeNames(doc) : mode # "" /\ doc.modes[mode] # Bad}
        env    == EnvList(doc)
    IN  [modes |-> [mode \in usable |-> ParseMode(doc.modes[mode])],
         env   |-> {[name |-> env[i].name, classes |-> Entries(env[i].classes)] :
                      i \in {k \in DOMAIN env : EnvUsable(env, k)}}]

-----------------------------------------------------------------------------
(* Evaluation of a request: a mode, an action, its classes and the          *)
(* environment variables it refers to.                                      *)

Effective(policy, req) ==
    req.classes \cup UNION {ref.classes : ref \in {e \in policy.env : e.name \in req.env}}

RulesFor(policy, mode) == IF mode \in DOMAIN policy.modes THEN policy.modes[mode].rules ELSE {}

(* Mutant: a rule that names actions is not matched by its classes. *)
Matched_ActionsFirst(policy, req) ==
    {r \in RulesFor(policy, req.mode) :
        IF r.actions # {} THEN req.action \in r.actions
        ELSE r.classes \cap Effective(policy, req) # {}}

Matched(policy, req) ==
    {r \in RulesFor(policy, req.mode) :
        req.action \in r.actions \/ r.classes \cap Effective(policy, req) # {}}

(* The strictest matched value, else the configured default of the mode,    *)
(* else the built-in one.                                                   *)
Chosen(values, configured, builtin) ==
    CASE values # {}                          -> Strictest(values)
      [] values = {} /\ configured # Absent   -> configured
      [] values = {} /\ configured = Absent   -> builtin

Default(policy, mode, field) ==
    IF mode \in DOMAIN policy.modes THEN policy.modes[mode][field] ELSE Absent

(* What no document may relax. *)
DecisionFloor(action, classes) ==
    IF action = "git.push_force" \/ "destructive" \in classes \/ ~(classes \subseteq KnownClasses)
    THEN Deny ELSE Allow

PlacementFloor(action, classes) ==
    CASE action = "git.push_force" \/ "destructive" \in classes -> Blocked
      [] ~(action = "git.push_force" \/ "destructive" \in classes)
         /\ ("secret_bearing" \in classes \/ ~(classes \subseteq KnownClasses)) -> DedicatedRun
      [] OTHER -> Shared

Evaluate(policy, req) ==
    LET matched == Matched(policy, req)
        classes == Effective(policy, req)
        set(field) == {r[field] : r \in matched} \ {Absent}
    IN  [decision  |-> Stricter(Chosen(set("decision"), Default(policy, req.mode, "decision"),
                                       BuiltinDecision(req.mode)),
                                DecisionFloor(req.action, classes)),
         placement |-> Stricter(Chosen(set("placement"), Default(policy, req.mode, "placement"),
                                       BuiltinPlacement(req.mode)),
                                PlacementFloor(req.action, classes))]

(* What `nopal policy` reports: nothing without a valid document.           *)
PolicyReport(doc, req) ==
    IF doc = Absent \/ PolicyErrors(doc) THEN Absent ELSE Evaluate(ParsePolicy(doc), req)
=============================================================================
