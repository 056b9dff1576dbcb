--------------------------- MODULE ContractProofs ---------------------------
(* What the contract promises for every set of documents, requests and      *)
(* edits: generated proof is not lost in selection, and a session was       *)
(* prepared for every gate its calls are planned with.                      *)
EXTENDS Contract, FiniteSetTheorems, TLAPS

(* The gates of a document: whatever its selectors and options are, a gate  *)
(* that was generated is selected unless explicit proof covers the change.  *)
LEMMA GeneratedStays ==
    ASSUME NEW c, NEW stage, NEW files,
           NEW g \in c.gates, g.stage = stage, ~Explicit(c, g),
           ~Covers(c, stage, files)
    PROVE  g \in Selected(c, stage, files)
  <1>1. g.id \in Generated(c) /\ g.id \in GateIds(c.gates)
    BY DEF Explicit, GateIds
  <1>2. g.id \in Pulled(c, files)
    BY <1>1 DEF Pulled
  <1> QED
    BY <1>2 DEF Selected

(* Explicit proof that covers the change has, for each of its files, a      *)
(* selected gate of a selector that matches the file.                       *)
LEMMA CoveredIsProven ==
    ASSUME NEW c, NEW stage, NEW files, NEW file \in files,
           Covers(c, stage, files)
    PROVE  \E g \in Selected(c, stage, files) : Proves(c, g, files, file)
  <1>1. CASE c.selectors = {}
    <2>1. PICK g \in c.gates : g.id \in GateIds(c.gates) /\ g.stage = stage /\ Explicit(c, g)
      BY <1>1 DEF Covers, ExplicitAt
    <2>2. g \in Selected(c, stage, files)
      BY <1>1, <2>1 DEF Selected, Pulled
    <2> QED
      BY <1>1, <2>2 DEF Proves
  <1>2. CASE c.selectors # {}
    <2>1. PICK s \in c.selectors : ExplicitAt(c, stage, SetIds(c, s)) /\ file \in Matching(files, s)
      BY <1>2 DEF Covers
    <2>2. PICK g \in c.gates : g.id \in SetIds(c, s) /\ g.stage = stage /\ Explicit(c, g)
      BY <2>1 DEF ExplicitAt
    <2>3. g.id \in Pulled(c, files)
      BY <1>2, <2>1, <2>2 DEF Pulled
    <2>4. g \in Selected(c, stage, files)
      BY <2>2, <2>3 DEF Selected
    <2> QED
      BY <2>1, <2>2, <2>4 DEF Proves
  <1> QED
    BY <1>1, <1>2

(* selection::select keeps generated proof: it holds of every document.     *)
THEOREM SelectionKeepsProof == Spec => []SelectionProvesEveryFile
  <1>1. SelectionProvesEveryFile
    <2> SUFFICES ASSUME NEW doc \in GateDocuments(documents),
                        NEW req \in Requests, NEW stage \in RequiredStages(req),
                        NEW g \in ParseGates(doc).gates,
                        g.stage = stage, ~Explicit(ParseGates(doc), g),
                        NEW file \in req.files
                 PROVE  \E h \in Selected(ParseGates(doc), stage, req.files) :
                           Proves(ParseGates(doc), h, req.files, file)
      BY DEF SelectionProvesEveryFile
    <2>1. CASE Covers(ParseGates(doc), stage, req.files)
      BY <2>1, CoveredIsProven
    <2>2. CASE ~Covers(ParseGates(doc), stage, req.files)
      <3>1. g \in Selected(ParseGates(doc), stage, req.files)
        BY <2>2, GeneratedStays
      <3> QED
        BY <3>1 DEF Proves
    <2> QED
      BY <2>1, <2>2
  <1> QED
    BY <1>1, PTL

-----------------------------------------------------------------------------
(* Preparation. *)

(* The gates one call needs are among those a launch prepares of the same   *)
(* documents.                                                               *)
LEMMA RequiredArePrepared ==
    ASSUME NEW docs, NEW req
    PROVE  RequiredGates(req, Sources(docs)) \subseteq Requirements(docs)
  <1> SUFFICES ASSUME NEW stage \in RequiredStages(req),
                      NEW c \in Sources(docs),
                      NEW g \in Selected(c, stage, req.files)
               PROVE  g \in Requirements(docs)
    BY DEF RequiredGates, RequiredAt
  <1>1. g \in c.gates /\ g.stage = stage
    BY DEF Selected
  <1>2. stage \in Preparable
    BY DEF RequiredStages, Preparable, ActionStages
  <1> QED
    BY <1>1, <1>2 DEF Requirements

(* What a session was launched with and what its last plan came from.       *)
Provenances ==
    /\ launched # Absent =>
          /\ launched.gates = Requirements(launched.documents)
          /\ ContractOk(launched.documents)
          /\ ~Conflict(Requirements(launched.documents))
    /\ plan # Absent => \E req \in Requests : plan = PlanFor(documents, req)

LEMMA PreparedFromProvenances == Provenances => PreparedCoversRequired
  <1> SUFFICES ASSUME Provenances, plan # Absent, launched # Absent, launched.documents = documents
               PROVE  /\ plan.gates \subseteq launched.gates
                      /\ ClassesValid(plan.request) => plan.ok
    BY DEF PreparedCoversRequired
  <1>1. PICK req \in Requests : plan = PlanFor(documents, req)
    BY DEF Provenances
  <1>2. launched.gates = Requirements(documents) /\ ContractOk(documents)
        /\ ~Conflict(Requirements(documents))
    BY DEF Provenances
  <1> DEFINE required == RequiredGates(req, Sources(documents))
  <1>3. required \subseteq Requirements(documents)
    BY RequiredArePrepared
  <1>4. ~Conflict(required) /\ ~Conflict({})
    BY <1>2, <1>3 DEF Conflict
  <1>5. plan.gates \in {required, {}} /\ plan.request = req
    BY <1>1 DEF PlanFor
  <1>6. ClassesValid(req) => plan.ok
    BY <1>1, <1>2, <1>4 DEF PlanFor
  <1> QED
    BY <1>2, <1>3, <1>5, <1>6

(* No step of the session, and no edit, separates them.                     *)
LEMMA ProvenancesKept == Spec => []Provenances
  <1>1. Init => Provenances
    BY DEF Init, Provenances
  <1>2. Provenances /\ [Next]_vars => Provenances'
    <2> SUFFICES ASSUME Provenances, [Next]_vars PROVE Provenances'
      OBVIOUS
    <2>1. CASE Publish
      BY <2>1 DEF Publish, Provenances
    <2>2. CASE Launch
      <3>1. launched' = [documents |-> documents, gates |-> Requirements(documents)]
            /\ ContractOk(documents) /\ ~Conflict(Requirements(documents))
        BY <2>2 DEF Launch, Launchable
      <3>2. plan' = plan /\ documents' = documents
        BY <2>2 DEF Launch, documents
      <3> QED
        BY <3>1, <3>2 DEF Provenances
    <2>3. CASE \E req \in Requests : Call(req)
      <3>1. PICK req \in Requests : Call(req)
        BY <2>3
      <3>2. plan' = PlanFor(documents, req) /\ launched' = launched /\ documents' = documents
        BY <3>1 DEF Call, documents
      <3> QED
        BY <3>2 DEF Provenances
    <2>4. CASE EditGates \/ EditPolicies \/ EditWorkflow \/ ChangeProject
      <3>1. plan' = Absent /\ launched' = launched
        BY <2>4 DEF EditGates, EditPolicies, EditWorkflow, ChangeProject, Edit
      <3> QED
        BY <3>1 DEF Provenances
    <2>5. CASE UNCHANGED vars
      <3>1. plan' = plan /\ launched' = launched /\ documents' = documents
        BY <2>5 DEF vars, documents
      <3> QED
        BY <3>1 DEF Provenances
    <2> QED
      BY <2>1, <2>2, <2>3, <2>4, <2>5 DEF Next
  <1> QED
    BY <1>1, <1>2, PTL DEF Spec

(* Every gate a call is planned with while the documents of the launch      *)
(* stand has the executor that gate_executor_requirements asked for, and    *)
(* the launch has refused every conflict a plan could fail on.              *)
THEOREM PreparedCovers == Spec => []PreparedCoversRequired
  BY ProvenancesKept, PreparedFromProvenances, PTL

-----------------------------------------------------------------------------
(* Rules. The values of a lattice are a few numbers, of which a set that is *)
(* not empty has the strictest.                                             *)

LEMMA StrictestIsGreatest ==
    ASSUME NEW S \in SUBSET (0..3), S # {}
    PROVE  P!Strictest(S) \in S /\ \A v \in S : v <= P!Strictest(S)
  <1>1. \E v \in S : \A w \in S : w <= v
    <2>0. \A w \in S : w = 0 \/ w = 1 \/ w = 2 \/ w = 3
      OBVIOUS
    <2>1. CASE 3 \in S
      <3>1. \A w \in S : w <= 3
        BY <2>0
      <3> QED
        BY <2>1, <3>1
    <2>2. CASE 3 \notin S /\ 2 \in S
      <3>1. \A w \in S : w <= 2
        BY <2>0, <2>2
      <3> QED
        BY <2>2, <3>1
    <2>3. CASE 3 \notin S /\ 2 \notin S /\ 1 \in S
      <3>1. \A w \in S : w <= 1
        BY <2>0, <2>3
      <3> QED
        BY <2>3, <3>1
    <2>4. CASE 3 \notin S /\ 2 \notin S /\ 1 \notin S
      <3>1. \A w \in S : w = 0
        BY <2>0, <2>4
      <3>2. PICK v \in S : TRUE
        OBVIOUS
      <3> QED
        BY <3>1, <3>2
    <2> QED
      BY <2>1, <2>2, <2>3, <2>4
  <1> QED
    BY <1>1 DEF P!Strictest

(* A rule that matches is not outvoted. *)
LEMMA ChosenIsStrictest ==
    ASSUME NEW values \in SUBSET (0..3), NEW configured \in 0..3 \cup {Absent}, NEW builtin \in 0..3
    PROVE  /\ P!Chosen(values, configured, builtin) \in 0..3
           /\ \A v \in values : v <= P!Chosen(values, configured, builtin)
  <1>1. CASE values # {}
    BY <1>1, StrictestIsGreatest DEF P!Chosen
  <1>2. CASE values = {}
    BY <1>2 DEF P!Chosen
  <1> QED
    BY <1>1, <1>2

(* A policy as parsed keeps to the vocabulary. *)
Vocabulary(field) == IF field = "decision" THEN P!Decisions ELSE P!Placements

LEMMA ParsedVocabulary ==
    ASSUME NEW doc, P!IsPolicyDocument(doc), doc # Bad, NEW mode \in DOMAIN P!ParsePolicy(doc).modes,
           NEW field \in {"decision", "placement"}
    PROVE  /\ P!ParsePolicy(doc).modes[mode][field] \in Vocabulary(field) \cup {Absent}
           /\ \A r \in P!ParsePolicy(doc).modes[mode].rules : r[field] \in Vocabulary(field) \cup {Absent}
  <1> DEFINE raw == doc.modes[mode]
  <1>1. mode \in P!ModeNames(doc) /\ raw # Bad /\ P!ParsePolicy(doc).modes[mode] = P!ParseMode(raw)
    BY DEF P!ParsePolicy
  <1>2. P!IsMode(raw)
    BY <1>1 DEF P!IsPolicyDocument
  <1> HIDE DEF raw
  <1>3. P!ParseMode(raw)[field] \in Vocabulary(field) \cup {Absent}
    BY <1>2 DEF P!IsMode, P!IsRule, P!ParseMode, P!Value, Vocabulary
  <1>4. ASSUME NEW r \in P!ParseMode(raw).rules PROVE r[field] \in Vocabulary(field) \cup {Absent}
    <2>1. PICK i \in DOMAIN P!RuleList(raw) : r = P!ParseRule(P!RuleList(raw)[i])
      BY DEF P!ParseMode
    <2>2. P!IsRule(P!RuleList(raw)[i])
      BY <1>2, <2>1 DEF P!IsMode
    <2> QED
      BY <2>1, <2>2 DEF P!IsRule, P!ParseRule, P!Value, Vocabulary
  <1> QED
    BY <1>1, <1>3, <1>4

LEMMA VocabularyIsSmall ==
    ASSUME NEW field \in {"decision", "placement"}
    PROVE  Vocabulary(field) \in SUBSET (0..3)
  BY DEF Vocabulary, P!Decisions, P!Allow, P!Ask, P!Deny, P!Placements, P!Shared,
         P!DedicatedRepo, P!DedicatedRun, P!Blocked

LEMMA MatchedVocabulary ==
    ASSUME NEW doc, P!IsPolicyDocument(doc), ~P!PolicyErrors(doc), NEW q,
           NEW field \in {"decision", "placement"},
           NEW r \in P!Matched(P!ParsePolicy(doc), q)
    PROVE  r[field] \in Vocabulary(field) \cup {Absent}
  <1>1. doc # Bad
    BY DEF P!PolicyErrors
  <1>2. q.mode \in DOMAIN P!ParsePolicy(doc).modes /\ r \in P!ParsePolicy(doc).modes[q.mode].rules
    BY DEF P!Matched, P!RulesFor
  <1> QED
    BY <1>1, <1>2, ParsedVocabulary

(* What one valid policy document says of a call binds the value it is      *)
(* evaluated to, and no document goes below the floors.                     *)
LEMMA EvaluateBinds ==
    ASSUME NEW doc, P!IsPolicyDocument(doc), ~P!PolicyErrors(doc), NEW q,
           NEW field \in {"decision", "placement"}
    PROVE  LET value == P!Evaluate(P!ParsePolicy(doc), q)[field]
               floor == IF field = "decision"
                        THEN P!DecisionFloor(q.action, P!Effective(P!ParsePolicy(doc), q))
                        ELSE P!PlacementFloor(q.action, P!Effective(P!ParsePolicy(doc), q))
           IN  /\ value \in Vocabulary(field)
               /\ floor <= value
               /\ \A r \in P!Matched(P!ParsePolicy(doc), q) : r[field] # Absent => r[field] <= value
  <1> DEFINE policy  == P!ParsePolicy(doc)
             classes == P!Effective(policy, q)
             matched == P!Matched(policy, q)
             values  == {r[field] : r \in matched} \ {Absent}
             default == P!Default(policy, q.mode, field)
             builtin == IF field = "decision" THEN P!BuiltinDecision(q.mode) ELSE P!BuiltinPlacement(q.mode)
             floor   == IF field = "decision" THEN P!DecisionFloor(q.action, classes)
                        ELSE P!PlacementFloor(q.action, classes)
             chosen  == P!Chosen(values, default, builtin)
  <1>0. doc # Bad
    BY DEF P!PolicyErrors
  <1>1. P!Evaluate(policy, q)[field] = P!Stricter(chosen, floor)
    <2>1. CASE field = "decision"
      BY <2>1 DEF P!Evaluate
    <2>2. CASE field = "placement"
      BY <2>2 DEF P!Evaluate
    <2> QED
      BY <2>1, <2>2
  <1>2. values \subseteq Vocabulary(field)
    <2> SUFFICES ASSUME NEW r \in matched PROVE r[field] \in Vocabulary(field) \cup {Absent}
      OBVIOUS
    <2> QED
      BY MatchedVocabulary
  <1>3. default \in Vocabulary(field) \cup {Absent}
    BY <1>0, ParsedVocabulary DEF P!Default
  <1>4. builtin \in Vocabulary(field) /\ floor \in Vocabulary(field)
    BY DEF Vocabulary, P!BuiltinDecision, P!BuiltinPlacement, P!DecisionFloor, P!PlacementFloor,
           P!Decisions, P!Allow, P!Ask, P!Deny, P!Placements, P!Shared, P!DedicatedRepo,
           P!DedicatedRun, P!Blocked
  <1>5. Vocabulary(field) \in SUBSET (0..3)
    BY VocabularyIsSmall
  <1>6. /\ chosen \in Vocabulary(field)
        /\ \A v \in values : v <= chosen
    <2> HIDE DEF values, default, builtin
    <2>1. \A v \in values : v <= chosen
      BY <1>2, <1>3, <1>4, <1>5, ChosenIsStrictest
    <2>2. CASE values # {}
      <3>1. P!Strictest(values) \in values
        BY <1>2, <1>5, <2>2, StrictestIsGreatest
      <3> QED
        BY <1>2, <2>1, <2>2, <3>1 DEF P!Chosen
    <2>3. CASE values = {}
      BY <1>3, <1>4, <2>3 DEF P!Chosen
    <2> QED
      BY <2>1, <2>2, <2>3
  <1>7. \A r \in matched : r[field] # Absent => r[field] \in values
    OBVIOUS
  <1>8. ASSUME NEW a \in 0..3, NEW b \in 0..3
        PROVE  P!Stricter(a, b) \in {a, b} /\ a <= P!Stricter(a, b) /\ b <= P!Stricter(a, b)
    BY DEF P!Stricter
  <1> HIDE DEF values, floor, chosen
  <1>9. chosen \in 0..3 /\ floor \in 0..3
    BY <1>4, <1>5, <1>6
  <1> DEFINE value == P!Stricter(chosen, floor)
  <1>10. value \in Vocabulary(field) /\ value \in 0..3 /\ floor <= value /\ chosen <= value
    BY <1>4, <1>6, <1>8, <1>9
  <1>11. \A v \in values : v \in 0..3 /\ v <= value
    <2> HIDE DEF value
    <2> QED
      BY <1>2, <1>5, <1>6, <1>9, <1>10
  <1>12. floor = IF field = "decision" THEN P!DecisionFloor(q.action, P!Effective(P!ParsePolicy(doc), q))
                 ELSE P!PlacementFloor(q.action, P!Effective(P!ParsePolicy(doc), q))
    BY DEF floor
  <1> HIDE DEF value
  <1> QED
    BY <1>1, <1>7, <1>10, <1>11, <1>12 DEF value

(* A rule that a valid document states for a call is matched by it.         *)
LEMMA StatedIsMatched ==
    ASSUME NEW doc, P!IsPolicyDocument(doc), ~P!PolicyErrors(doc), NEW q,
           q.mode \in P!ModeNames(doc),
           NEW i \in DOMAIN P!RuleList(doc.modes[q.mode]),
           LET r == P!RuleList(doc.modes[q.mode])[i]
           IN  q.action \in P!Entries(r.actions) \/ P!Entries(r.classes) \cap q.classes # {}
    PROVE  LET r == P!RuleList(doc.modes[q.mode])[i]
           IN  /\ P!ParseRule(r) \in P!Matched(P!ParsePolicy(doc), q)
               /\ P!ParseRule(r).decision = r.decision /\ P!ParseRule(r).placement = r.placement
  <1> DEFINE raw == doc.modes[q.mode]
             r   == P!RuleList(raw)[i]
  <1>1. q.mode # "" /\ ~P!ModeError(raw)
    BY DEF P!PolicyErrors
  <1>2. raw # Bad /\ ~P!RuleError(r) /\ ~P!Repeated(P!RuleList(raw), i)
    BY <1>1 DEF P!ModeError
  <1>3. r.id # Bad /\ r.decision # Bad /\ r.placement # Bad
    BY <1>2 DEF P!RuleError
  <1>4. P!ParsePolicy(doc).modes[q.mode] = P!ParseMode(raw) /\ q.mode \in DOMAIN P!ParsePolicy(doc).modes
    BY <1>1, <1>2 DEF P!ParsePolicy
  <1>5. P!ParseRule(r) \in P!ParseMode(raw).rules
    BY <1>2, <1>3 DEF P!ParseMode
  <1>6. /\ P!ParseRule(r).actions = P!Entries(r.actions)
        /\ P!ParseRule(r).classes = P!Entries(r.classes)
        /\ P!ParseRule(r).decision = r.decision
        /\ P!ParseRule(r).placement = r.placement
    BY <1>3 DEF P!ParseRule, P!Value
  <1>7. q.classes \subseteq P!Effective(P!ParsePolicy(doc), q)
    BY DEF P!Effective
  <1>8. P!ParseRule(r) \in P!RulesFor(P!ParsePolicy(doc), q.mode)
    BY <1>4, <1>5 DEF P!RulesFor
  <1> QED
    BY <1>6, <1>7, <1>8 DEF P!Matched

(* The documents are the ones a step may choose from, so that the           *)
(* assumption on the policies of the constants is about them.               *)
KnownDocuments ==
    /\ userPolicy \in UserPolicies
    /\ repositoryPolicy \in RepositoryPolicies
    /\ workflow \in Workflows

LEMMA DocumentsAreKnown == Spec => []KnownDocuments
  <1>1. Init => KnownDocuments
    BY DEF Init, KnownDocuments
  <1>2. KnownDocuments /\ [Next]_vars => KnownDocuments'
    BY DEF KnownDocuments, Next, vars, Publish, Launch, Call, Edit, EditGates, EditPolicies,
           EditWorkflow, ChangeProject
  <1> QED
    BY <1>1, <1>2, PTL DEF Spec

LEMMA PoliciesAreDocuments ==
    KnownDocuments => \A doc \in PolicyDocuments(documents) : P!IsPolicyDocument(doc)
  BY PoliciesAssumption DEF KnownDocuments, PolicyDocuments, documents

(* What load_contract composes is as strict as every one of its policies.   *)
LEMMA ComposedBinds ==
    ASSUME NEW docs, ContractOk(docs), \A doc \in PolicyDocuments(docs) : P!IsPolicyDocument(doc),
           NEW req, NEW field \in {"decision", "placement"}, NEW weakest \in Vocabulary(field)
    PROVE  /\ Composed(docs, req, field, weakest) \in Vocabulary(field)
           /\ \A doc \in PolicyDocuments(docs) :
                 P!Evaluate(P!ParsePolicy(doc), Asked(req))[field] <= Composed(docs, req, field, weakest)
  <1> DEFINE values == {weakest} \cup {P!Evaluate(policy, Asked(req))[field] : policy \in Policies(docs)}
  <1>1. ASSUME NEW policy \in Policies(docs)
        PROVE  P!Evaluate(policy, Asked(req))[field] \in Vocabulary(field)
    <2>1. PICK doc \in PolicyDocuments(docs) : policy = P!ParsePolicy(doc)
      BY DEF Policies
    <2>2. P!IsPolicyDocument(doc) /\ ~P!PolicyErrors(doc)
      BY DEF ContractOk
    <2> QED
      BY <2>1, <2>2, EvaluateBinds
  <1>2. values \subseteq Vocabulary(field) /\ values # {}
    BY <1>1
  <1>3. Vocabulary(field) \in SUBSET (0..3)
    BY VocabularyIsSmall
  <1>4. ASSUME NEW doc \in PolicyDocuments(docs)
        PROVE  P!Evaluate(P!ParsePolicy(doc), Asked(req))[field] \in values
    BY DEF Policies
  <1>5. Composed(docs, req, field, weakest) = P!Strictest(values)
    BY DEF Composed
  <1> HIDE DEF values
  <1>6. P!Strictest(values) \in values /\ \A v \in values : v <= P!Strictest(values)
    BY <1>2, <1>3, StrictestIsGreatest
  <1> QED
    BY <1>2, <1>4, <1>5, <1>6

(* The plan of one call under a valid contract.                             *)
LEMMA PlannedByRules ==
    ASSUME KnownDocuments, NEW req, PlanFor(documents, req).ok
    PROVE  /\ ContractOk(documents)
           /\ \A field \in {"decision", "placement"} :
                 /\ PlanFor(documents, req)[field] \in Vocabulary(field)
                 /\ \A doc \in PolicyDocuments(documents) :
                       P!Evaluate(P!ParsePolicy(doc), Asked(req))[field] <= PlanFor(documents, req)[field]
  <1>1. ContractOk(documents) /\ \A doc \in PolicyDocuments(documents) : P!IsPolicyDocument(doc)
    BY PoliciesAreDocuments DEF PlanFor
  <1>2. /\ PlanFor(documents, req).decision = Composed(documents, req, "decision", P!Allow)
        /\ PlanFor(documents, req).placement = Composed(documents, req, "placement", P!Shared)
    BY DEF PlanFor
  <1>3. P!Allow \in Vocabulary("decision") /\ P!Shared \in Vocabulary("placement")
    BY DEF Vocabulary, P!Decisions, P!Placements
  <1>4. /\ PlanFor(documents, req).decision \in Vocabulary("decision")
        /\ \A doc \in PolicyDocuments(documents) :
              P!Evaluate(P!ParsePolicy(doc), Asked(req)).decision <= PlanFor(documents, req).decision
    BY <1>1, <1>2, <1>3, ComposedBinds
  <1>5. /\ PlanFor(documents, req).placement \in Vocabulary("placement")
        /\ \A doc \in PolicyDocuments(documents) :
              P!Evaluate(P!ParsePolicy(doc), Asked(req)).placement <= PlanFor(documents, req).placement
    BY <1>1, <1>2, <1>3, ComposedBinds
  <1> QED
    BY <1>1, <1>4, <1>5

(* Every rule of every valid document binds the plan, the report of the     *)
(* repository's policy is not relaxed, destructive calls are denied         *)
(* whatever the documents say, and an invalid contract denies.              *)
LEMMA RulesHonoured == KnownDocuments /\ Provenances => EveryRuleIsHonoured
  <1> SUFFICES ASSUME KnownDocuments, Provenances, plan # Absent PROVE EveryRuleIsHonoured
    BY DEF EveryRuleIsHonoured
  <1>1. PICK req \in Requests : plan = PlanFor(documents, req)
    BY DEF Provenances
  <1>2. plan.request = req
    BY <1>1 DEF PlanFor
  <1>3. plan.ok => ContractOk(documents)
    BY <1>1 DEF PlanFor
  <1>4. ~plan.ok => plan.decision = P!Deny /\ plan.placement = P!Blocked /\ plan.gates = {}
    BY <1>1 DEF PlanFor
  <1>5. ASSUME plan.ok, NEW doc \in PolicyDocuments(documents)
        PROVE  /\ P!IsPolicyDocument(doc) /\ ~P!PolicyErrors(doc)
               /\ P!Evaluate(P!ParsePolicy(doc), Asked(req)).decision <= plan.decision
               /\ P!Evaluate(P!ParsePolicy(doc), Asked(req)).placement <= plan.placement
    BY <1>1, <1>3, <1>5, PlannedByRules, PoliciesAreDocuments DEF ContractOk
  <1>6. plan.ok => plan.decision \in P!Decisions /\ plan.placement \in P!Placements
    BY <1>1, PlannedByRules DEF Vocabulary
  <1>7. plan.ok => repositoryPolicy \in PolicyDocuments(documents)
    BY <1>3 DEF ContractOk, PolicyDocuments, documents
  <1>8. ASSUME "destructive" \in req.classes
        PROVE  plan.decision = P!Deny /\ plan.placement = P!Blocked
    <2>1. CASE ~plan.ok
      BY <1>4, <2>1
    <2>2. CASE plan.ok
      <3> DEFINE policy == P!ParsePolicy(repositoryPolicy)
      <3>1. "destructive" \in P!Effective(policy, Asked(req))
        BY <1>8 DEF P!Effective, Asked
      <3>2. /\ P!DecisionFloor(Asked(req).action, P!Effective(policy, Asked(req))) = P!Deny
            /\ P!PlacementFloor(Asked(req).action, P!Effective(policy, Asked(req))) = P!Blocked
        BY <3>1 DEF P!DecisionFloor, P!PlacementFloor
      <3>3. P!IsPolicyDocument(repositoryPolicy) /\ ~P!PolicyErrors(repositoryPolicy)
        BY <1>5, <1>7, <2>2
      <3>4. P!Deny <= P!Evaluate(policy, Asked(req)).decision /\ P!Evaluate(policy, Asked(req)).decision \in P!Decisions
        BY <3>2, <3>3, EvaluateBinds DEF Vocabulary
      <3>5. P!Blocked <= P!Evaluate(policy, Asked(req)).placement /\ P!Evaluate(policy, Asked(req)).placement \in P!Placements
        BY <3>2, <3>3, EvaluateBinds DEF Vocabulary
      <3>6. /\ P!Evaluate(policy, Asked(req)).decision <= plan.decision
            /\ P!Evaluate(policy, Asked(req)).placement <= plan.placement
        BY <1>5, <1>7, <2>2
      <3> HIDE DEF policy
      <3> QED
        BY <1>6, <2>2, <3>4, <3>5, <3>6
        DEF P!Decisions, P!Allow, P!Ask, P!Deny, P!Placements, P!Shared, P!DedicatedRepo,
            P!DedicatedRun, P!Blocked
    <2> QED
      BY <2>1, <2>2
  <1>9. plan.ok => /\ plan.decision >= P!PolicyReport(repositoryPolicy, Asked(req)).decision
                   /\ plan.placement >= P!PolicyReport(repositoryPolicy, Asked(req)).placement
    <2> SUFFICES ASSUME plan.ok
                 PROVE  /\ plan.decision >= P!PolicyReport(repositoryPolicy, Asked(req)).decision
                        /\ plan.placement >= P!PolicyReport(repositoryPolicy, Asked(req)).placement
      OBVIOUS
    <2>1. ~P!PolicyErrors(repositoryPolicy) /\ repositoryPolicy # Absent
      BY <1>5, <1>7 DEF PolicyDocuments
    <2>2. P!PolicyReport(repositoryPolicy, Asked(req)) = P!Evaluate(P!ParsePolicy(repositoryPolicy), Asked(req))
      BY <2>1 DEF P!PolicyReport
    <2> QED
      BY <1>5, <1>7, <2>2
  <1>10. ASSUME plan.ok, NEW doc \in PolicyDocuments(documents), req.mode \in P!ModeNames(doc),
                NEW i \in DOMAIN P!RuleList(doc.modes[req.mode]),
                req.action \in P!Entries(P!RuleList(doc.modes[req.mode])[i].actions)
                \/ P!Entries(P!RuleList(doc.modes[req.mode])[i].classes) \cap req.classes # {}
         PROVE  /\ P!RuleList(doc.modes[req.mode])[i].decision # Absent =>
                      plan.decision >= P!RuleList(doc.modes[req.mode])[i].decision
                /\ P!RuleList(doc.modes[req.mode])[i].placement # Absent =>
                      plan.placement >= P!RuleList(doc.modes[req.mode])[i].placement
    <2> DEFINE r == P!RuleList(doc.modes[req.mode])[i]
               p == P!ParseRule(r)
               e == P!Evaluate(P!ParsePolicy(doc), Asked(req))
    <2>1. P!IsPolicyDocument(doc) /\ ~P!PolicyErrors(doc) /\ e.decision <= plan.decision /\ e.placement <= plan.placement
      BY <1>5, <1>10
    <2>2. Asked(req).mode = req.mode /\ Asked(req).action = req.action /\ Asked(req).classes = req.classes
      BY DEF Asked
    <2>3. p \in P!Matched(P!ParsePolicy(doc), Asked(req)) /\ p.decision = r.decision /\ p.placement = r.placement
      BY <1>10, <2>1, <2>2, StatedIsMatched
    <2>4. e.decision \in P!Decisions /\ (p.decision # Absent => p.decision <= e.decision /\ p.decision \in P!Decisions)
      BY <2>1, <2>3, EvaluateBinds, MatchedVocabulary DEF Vocabulary
    <2>5. e.placement \in P!Placements /\ (p.placement # Absent => p.placement <= e.placement /\ p.placement \in P!Placements)
      BY <2>1, <2>3, EvaluateBinds, MatchedVocabulary DEF Vocabulary
    <2> HIDE DEF r, p, e
    <2>6. /\ r.decision # Absent => plan.decision >= r.decision
          /\ r.placement # Absent => plan.placement >= r.placement
      BY <1>6, <1>10, <2>1, <2>3, <2>4, <2>5
      DEF P!Decisions, P!Allow, P!Ask, P!Deny, P!Placements, P!Shared, P!DedicatedRepo,
          P!DedicatedRun, P!Blocked
    <2> QED
      BY <2>6 DEF r
  <1> QED
    BY <1>2, <1>3, <1>4, <1>8, <1>9, <1>10 DEF EveryRuleIsHonoured

THEOREM RulesAreHonoured == Spec => []EveryRuleIsHonoured
  BY DocumentsAreKnown, ProvenancesKept, RulesHonoured, PTL

-----------------------------------------------------------------------------
(* Detection. What it writes is a list of what its plan selected.           *)

LEMMA SetAsSequence ==
    ASSUME NEW S, IsFiniteSet(S)
    PROVE  /\ SetToSeq(S) \in Seq(S)
           /\ Len(SetToSeq(S)) = Cardinality(S)
           /\ ToSet(SetToSeq(S)) = S
           /\ \A i, j \in 1..Len(SetToSeq(S)) : SetToSeq(S)[i] = SetToSeq(S)[j] => i = j
  <1> DEFINE n == Cardinality(S)
             s == SetToSeq(S)
  <1>1. n \in Nat /\ ExistsBijection(1..n, S)
    BY FS_CardinalityType
  <1>2. \E f \in [1..n -> S] : IsInjective(f)
    BY <1>1 DEF ExistsBijection, Bijection, Injection
  <1>3. s \in [1..n -> S] /\ IsInjective(s)
    BY <1>2 DEF SetToSeq
  <1> HIDE DEF s
  <1>4. IsFiniteSet(1..n) /\ Cardinality(1..n) = n
    <2> HIDE DEF n
    <2> QED
      BY <1>1, FS_Interval
  <1>5. s \in Injection(1..n, S)
    BY <1>3 DEF Injection
  <1>6. s \in Surjection(1..n, S)
    BY <1>4, <1>5, FS_Injection
  <1> HIDE DEF n
  <1>7. s \in Seq(S) /\ Len(s) = n /\ DOMAIN s = 1..n
    BY <1>1, <1>3
  <1>8. ToSet(s) = S
    BY <1>3, <1>6, <1>7 DEF ToSet, Surjection
  <1>9. \A i, j \in 1..n : s[i] = s[j] => i = j
    BY <1>3, <1>7 DEF IsInjective
  <1> QED
    BY <1>7, <1>8, <1>9 DEF n, s

LEMMA ImageIsFinite ==
    ASSUME NEW S, IsFiniteSet(S), NEW f, f = [x \in S |-> f[x]]
    PROVE  IsFiniteSet({f[x] : x \in S})
  <1> DEFINE T == {f[x] : x \in S}
  <1>1. f \in Surjection(S, T)
    BY DEF Surjection
  <1> QED
    BY <1>1, FS_Surjection

(* The templates of a scope are templates of the registry.                  *)
LEMMA ScopesAreRegistered ==
    ASSUME NEW e, IsScope(e), NEW inherited \in DOMAIN ManagerTemplate \cup {Absent}
    PROVE  ScopeTemplates(e, inherited) \subseteq Templates
  <1>1. Manager(e, inherited) \in DOMAIN ManagerTemplate \cup {Absent}
    <2>1. Cardinality(e.locks) = 1 => (CHOOSE lock \in e.locks : TRUE) \in e.locks
      BY FS_EmptySet
    <2> QED
      BY <2>1 DEF Manager, Known, IsScope
  <1>2. FamilyTemplates(e, inherited) \subseteq Templates
    BY <1>1, RegistryAssumption DEF FamilyTemplates
  <1> QED
    BY <1>2, RegistryAssumption DEF ScopeTemplates, ChosenTemplates, IsScope

LEMMA PlanIsRegistered ==
    ASSUME NEW e, IsEvidence(e)
    PROVE  /\ IsFiniteSet(PlanTemplates(e))
           /\ PlanTemplates(e) \subseteq [id : Templates, scope : {Root} \cup Workspaces(e.root)]
  <1> DEFINE scopes == {Root} \cup Workspaces(e.root)
             f == [x \in Templates \X scopes |-> [id |-> x[1], scope |-> x[2]]]
             all == {f[x] : x \in Templates \X scopes}
  <1>1. Hint(e.root) \in DOMAIN ManagerTemplate \cup {Absent}
    <2>1. Cardinality(e.root.locks) = 1 => (CHOOSE lock \in e.root.locks : TRUE) \in e.root.locks
      BY FS_EmptySet
    <2> QED
      BY <2>1 DEF Hint, Known, IsScope, IsEvidence
  <1>2. ScopeTemplates(e.root, Absent) \subseteq Templates
    BY ScopesAreRegistered DEF IsEvidence
  <1>3. ASSUME NEW path \in Workspaces(e.root) PROVE Child(e, path).templates \subseteq Templates
    <2>1. IsScope(e.scopes[path])
      BY DEF IsEvidence
    <2> QED
      BY <1>1, <2>1, ScopesAreRegistered DEF Child, InspectScope
  <1>4. PlanTemplates(e) \subseteq [id : Templates, scope : scopes]
    BY <1>2, <1>3 DEF PlanTemplates
  <1>5. IsFiniteSet(scopes)
    BY FS_Singleton, FS_Union DEF IsEvidence
  <1>6. IsFiniteSet(Templates \X scopes)
    BY <1>5, FS_Product, RegistryAssumption
  <1>7. IsFiniteSet(all)
    <2> HIDE DEF scopes
    <2> DEFINE g == f
    <2>1. g = [x \in Templates \X scopes |-> g[x]]
      OBVIOUS
    <2> HIDE DEF f, g
    <2>2. IsFiniteSet({g[x] : x \in Templates \X scopes})
      BY <1>6, <2>1, ImageIsFinite
    <2> QED
      BY <2>2 DEF g
  <1>8. [id : Templates, scope : scopes] \subseteq all
    <2> SUFFICES ASSUME NEW t \in [id : Templates, scope : scopes] PROVE t \in all
      OBVIOUS
    <2>1. <<t.id, t.scope>> \in Templates \X scopes /\ f[<<t.id, t.scope>>] = t
      OBVIOUS
    <2> HIDE DEF f
    <2> QED
      BY <2>1
  <1> HIDE DEF all, scopes
  <1>9. IsFiniteSet(PlanTemplates(e))
    BY <1>4, <1>7, <1>8, FS_Subset
  <1> QED
    BY <1>4, <1>9 DEF scopes

(* The root always has its baseline. *)
LEMMA BaselineIsPlanned ==
    ASSUME NEW e
    PROVE  [id |-> Baseline, scope |-> Root] \in PlanTemplates(e)
  BY DEF PlanTemplates, ScopeTemplates

(* A ready plan proves more than the diff: every workspace has a template   *)
(* besides the baseline, and so has the repository.                         *)
LEMMA ReadyIsProof ==
    ASSUME NEW e, PlanReadiness(e) = "ready"
    PROVE  /\ \A path \in Workspaces(e.root) :
                 \E t \in Child(e, path).templates : t # Baseline
           /\ \E t \in PlanTemplates(e) : t.id # Baseline
  <1>1. /\ \A path \in Workspaces(e.root) : Child(e, path).readiness # "blocked"
        /\ ~Unproven(e)
        /\ Cardinality(PlanTemplates(e)) # 1
    BY DEF PlanReadiness
  <1>2. ASSUME NEW path \in Workspaces(e.root)
        PROVE  \E t \in Child(e, path).templates : t # Baseline
    <2>1. Child(e, path).readiness = "ready"
      BY <1>1 DEF Unproven, Child, InspectScope, Readiness
    <2>2. Cardinality(Child(e, path).templates) > 1
      BY <2>1 DEF Child, InspectScope, Readiness
    <2>3. Baseline \in Child(e, path).templates
      BY DEF Child, InspectScope, ScopeTemplates
    <2>4. CASE Child(e, path).templates = {Baseline}
      <3>1. Cardinality({Baseline}) = 1
        BY FS_Singleton
      <3> QED
        BY <2>2, <2>4, <3>1
    <2> QED
      BY <2>3, <2>4
  <1>3. \E t \in PlanTemplates(e) : t.id # Baseline
    <2> DEFINE b == [id |-> Baseline, scope |-> Root]
    <2>1. b \in PlanTemplates(e) /\ PlanTemplates(e) # {b}
      BY <1>1, BaselineIsPlanned, FS_Singleton
    <2>2. PICK t \in PlanTemplates(e) : t # b
      BY <2>1
    <2> QED
      BY <2>2 DEF PlanTemplates
  <1> QED
    BY <1>2, <1>3

(* The document of a plan.                                                  *)
LEMMA WrittenAsPlanned ==
    ASSUME NEW e, IsEvidence(e)
    PROVE  LET doc == GatesJson(Inspect(e))
               ids == {DetectedId(t) : t \in PlanTemplates(e)}
               gates == {GeneratedGate(t) : t \in PlanTemplates(e)}
           IN  /\ doc.scaffold.ids \in Seq(ids) /\ ToSet(doc.scaffold.ids) = ids
               /\ Len(doc.scaffold.ids) = Cardinality(ids)
               /\ doc.gates \in Seq(gates) /\ ToSet(doc.gates) = gates
               /\ \A i, j \in 1..Len(doc.gates) : doc.gates[i] = doc.gates[j] => i = j
  <1> DEFINE ids == {DetectedId(t) : t \in PlanTemplates(e)}
             gates == {GeneratedGate(t) : t \in PlanTemplates(e)}
             f == [t \in PlanTemplates(e) |-> DetectedId(t)]
             g == [t \in PlanTemplates(e) |-> GeneratedGate(t)]
  <1>1. IsFiniteSet(PlanTemplates(e))
    BY PlanIsRegistered
  <1>2. f \in Surjection(PlanTemplates(e), ids) /\ g \in Surjection(PlanTemplates(e), gates)
    BY DEF Surjection
  <1>3. IsFiniteSet(ids) /\ IsFiniteSet(gates)
    BY <1>1, <1>2, FS_Surjection
  <1>4. /\ GatesJson(Inspect(e)).scaffold.ids = SetToSeq(ids)
        /\ GatesJson(Inspect(e)).gates = SetToSeq(gates)
    BY DEF GatesJson, Provenance, Inspect
  <1> HIDE DEF ids, gates
  <1>5. /\ SetToSeq(ids) \in Seq(ids) /\ ToSet(SetToSeq(ids)) = ids /\ Len(SetToSeq(ids)) = Cardinality(ids)
        /\ SetToSeq(gates) \in Seq(gates) /\ ToSet(SetToSeq(gates)) = gates
        /\ \A i, j \in 1..Len(SetToSeq(gates)) : SetToSeq(gates)[i] = SetToSeq(gates)[j] => i = j
    BY <1>3, SetAsSequence
  <1> QED
    BY <1>4, <1>5 DEF ids, gates

-----------------------------------------------------------------------------
(* Launch.                                                                  *)

LEMMA AppendedIndex ==
    ASSUME NEW T, NEW p \in Seq(T), NEW q \in Seq(T), NEW k \in DOMAIN q
    PROVE  /\ Len(p) + k \in (Len(p) + 1)..Len(p \o q)
           /\ Len(p) + k \in DOMAIN (p \o q)
           /\ (p \o q)[Len(p) + k] = q[k]
  <1>1. DOMAIN q = 1..Len(q) /\ k \in 1..Len(q) /\ Len(p) \in Nat /\ Len(q) \in Nat
    OBVIOUS
  <1>2. Len(p \o q) = Len(p) + Len(q) /\ DOMAIN (p \o q) = 1..(Len(p) + Len(q))
    OBVIOUS
  <1>3. Len(p) + k \in 1..(Len(p) + Len(q)) /\ Len(p) + k > Len(p) /\ (Len(p) + k) - Len(p) = k
    BY <1>1
  <1> QED
    BY <1>1, <1>2, <1>3

(* A valid document keeps every one of its entries.                         *)
LEMMA ValidEntriesStay ==
    ASSUME NEW doc, ~GateErrors(doc), IsGateDocument(doc), NEW e \in ToSet(doc.gates)
    PROVE  GateOf(e) \in ParsedGates(doc)
  <1> DEFINE entries == AllEntries(doc)
  <1>1. doc.preflights \in Seq(ToSet(doc.preflights)) /\ doc.gates \in Seq(ToSet(doc.gates))
    BY DEF IsGateDocument, GateErrors
  <1>2. PICK k \in DOMAIN doc.gates : doc.gates[k] = e
    BY DEF ToSet
  <1> DEFINE both == ToSet(doc.preflights) \cup ToSet(doc.gates)
             i == Len(doc.preflights) + k
  <1>3. doc.preflights \in Seq(both) /\ doc.gates \in Seq(both)
    <2> DEFINE A == ToSet(doc.preflights)
               B == ToSet(doc.gates)
    <2>1. doc.preflights \in Seq(A) /\ doc.gates \in Seq(B)
      BY <1>1
    <2> HIDE DEF A, B
    <2>2. doc.preflights \in Seq(A \cup B) /\ doc.gates \in Seq(A \cup B)
      BY <2>1
    <2> QED
      BY <2>2 DEF A, B
  <1>4. /\ i \in (Len(doc.preflights) + 1)..Len(entries)
        /\ i \in DOMAIN entries
        /\ entries[i] = e
    <2> DEFINE p == doc.preflights
               q == doc.gates
    <2>1. p \in Seq(both) /\ q \in Seq(both) /\ k \in DOMAIN q /\ q[k] = e
      BY <1>2, <1>3
    <2>2. entries = p \o q
      BY DEF AllEntries
    <2> HIDE DEF p, q, both, entries
    <2>3. /\ Len(p) + k \in (Len(p) + 1)..Len(p \o q)
          /\ Len(p) + k \in DOMAIN (p \o q)
          /\ (p \o q)[Len(p) + k] = q[k]
      BY <2>1, AppendedIndex
    <2> QED
      BY <2>1, <2>2, <2>3 DEF p
  <1>5. ~EntryError(entries, i)
    BY <1>4 DEF GateErrors
  <1>6. OwnsId(entries, i) /\ Usable(entries[i])
    BY <1>5 DEF EntryError
  <1> HIDE DEF entries, i
  <1> QED
    BY <1>4, <1>6 DEF ParsedGates, entries

(* Of a source that has a gate for the call, some gate is required of it,   *)
(* whatever the other sources have.                                         *)
LEMMA SelectedIsRequired ==
    ASSUME NEW sources, NEW c \in sources, NEW stage, NEW files, Selected(c, stage, files) # {}
    PROVE  RequiredAt(stage, files, sources) # {}
  <1> DEFINE explicit == \E d \in sources : \E g \in Selected(d, stage, files) : Explicit(d, g)
  <1>1. CASE explicit
    <2>1. PICK d \in sources : \E g \in Selected(d, stage, files) : Explicit(d, g)
      BY <1>1
    <2>2. PICK g \in Selected(d, stage, files) : Explicit(d, g)
      BY <2>1
    <2>3. g \in {h \in Selected(d, stage, files) : explicit => Explicit(d, h)}
      BY <2>2
    <2> QED
      BY <2>3 DEF RequiredAt
  <1>2. CASE ~explicit
    <2>1. PICK g \in Selected(c, stage, files) : TRUE
      OBVIOUS
    <2>2. g \in {h \in Selected(c, stage, files) : explicit => Explicit(c, h)}
      BY <1>2, <2>1
    <2> QED
      BY <2>2 DEF RequiredAt
  <1> QED
    BY <1>1, <1>2

(* An explicit gate selected without changed files is not scoped: it is     *)
(* selected for every change.                                               *)
LEMMA UnscopedIsAlwaysSelected ==
    ASSUME NEW c, UnscopedExplicitPrePr(c), NEW files
    PROVE  Selected(c, "pre_pr", files) # {}
  <1>1. PICK g \in Selected(c, "pre_pr", {}) : Explicit(c, g)
    BY DEF UnscopedExplicitPrePr
  <1>2. \A s \in c.selectors : Matching({}, s) = {}
    BY DEF Matching
  <1>3. c.selectors = {}
    BY <1>1, <1>2 DEF Selected, Pulled, Explicit
  <1>4. g \in Selected(c, "pre_pr", files)
    BY <1>1, <1>3 DEF Selected, Pulled
  <1> QED
    BY <1>4

(* A document that is not drifted and valid has the generated gates; where  *)
(* they are not selected, the explicit proof they give way to is.           *)
LEMMA GeneratedOrCovered ==
    ASSUME NEW e, IsEvidence(e), NEW doc, IsGateDocument(doc), ~GateErrors(doc),
           ParseGates(doc).scaffold # Absent,
           MatchesChecked(Inspect(e), doc),
           NEW files
    PROVE  Selected(ParseGates(doc), "pre_pr", files) # {}
  <1> DEFINE c == ParseGates(doc)
             written == GatesJson(Inspect(e))
             t == [id |-> Baseline, scope |-> Root]
             g == GeneratedGate(t)
  <1>1. t \in PlanTemplates(e)
    BY BaselineIsPlanned
  <1>2. /\ g \in ToSet(written.gates)
        /\ g.id \in ToSet(written.scaffold.ids)
    <2>1. g.id = DetectedId(t)
      BY DEF GeneratedGate
    <2> QED
      BY <1>1, <2>1, WrittenAsPlanned
  <1>3. doc.scaffold = written.scaffold
    BY DEF MatchesChecked
  <1>4. g \in ToSet(doc.gates)
    <2> DEFINE generated(d) == {h \in ToSet(d.gates) : h.id \in ToSet(doc.scaffold.ids)}
    <2>1. generated(doc) = generated(written)
      BY DEF MatchesChecked
    <2>2. g \in generated(written)
      BY <1>2, <1>3
    <2> QED
      BY <2>1, <2>2
  <1>5. GateOf(g) \in c.gates
    BY <1>4, ValidEntriesStay DEF ParseGates
  <1>6. GateOf(g).stage = "pre_pr" /\ GateOf(g).id = g.id
    BY DEF GateOf, GeneratedGate
  <1>7. ~Explicit(c, GateOf(g))
    <2>1. c.scaffold = doc.scaffold
      BY DEF ParseGates
    <2> QED
      BY <1>2, <1>3, <1>6, <2>1 DEF Explicit, Generated, GeneratedIds, ToSet
  <1> HIDE DEF c, g
  <1>8. CASE ~Covers(c, "pre_pr", files)
    BY <1>5, <1>6, <1>7, <1>8, GeneratedStays DEF c
  <1>9. CASE Covers(c, "pre_pr", files) /\ c.selectors # {}
    <2>1. PICK file \in files : TRUE
      BY <1>9 DEF Covers
    <2> QED
      BY <1>9, <2>1, CoveredIsProven DEF c
  <1>10. CASE Covers(c, "pre_pr", files) /\ c.selectors = {}
    <2>1. PICK h \in c.gates : h.id \in GateIds(c.gates) /\ h.stage = "pre_pr" /\ Explicit(c, h)
      BY <1>10 DEF Covers, ExplicitAt
    <2>2. h \in Selected(c, "pre_pr", files)
      BY <1>10, <2>1 DEF Selected, Pulled
    <2> QED
      BY <2>2 DEF c
  <1> QED
    BY <1>8, <1>9, <1>10

(* The documents a step may leave are the ones the assumptions are about.   *)
KnownProject ==
    /\ evidence \in Evidence
    /\ repositoryGates = Absent \/ IsGateDocument(repositoryGates)

LEMMA DetectedIsDocument ==
    ASSUME NEW e \in Evidence
    PROVE  IsGateDocument(GatesJson(Inspect(e))) /\ GatesJson(Inspect(e)) # Bad
  <1> DEFINE doc == GatesJson(Inspect(e))
             gates == {GeneratedGate(t) : t \in PlanTemplates(e)}
  <1>1. IsEvidence(e) /\ doc # Bad
    BY EvidenceAssumption
  <1>2. doc.preflights = <<>>
    BY DEF GatesJson
  <1>3. doc.gates \in Seq(ToSet(doc.gates))
    BY <1>1, WrittenAsPlanned
  <1> QED
    BY <1>1, <1>2, <1>3 DEF IsGateDocument

LEMMA ProjectIsKnown == Spec => []KnownProject
  <1>1. Init => KnownProject
    BY GatesAssumption DEF Init, KnownProject
  <1>2. KnownProject /\ [Next]_vars => KnownProject'
    <2> SUFFICES ASSUME KnownProject, [Next]_vars PROVE KnownProject'
      OBVIOUS
    <2>1. CASE Publish
      BY <2>1, DetectedIsDocument DEF Publish, KnownProject
    <2>2. CASE EditGates
      BY <2>2 DEF EditGates, Edit, KnownProject
    <2>3. CASE ChangeProject
      BY <2>3 DEF ChangeProject, Edit, KnownProject
    <2>4. CASE Launch \/ (\E req \in Requests : Call(req)) \/ EditPolicies \/ EditWorkflow \/ UNCHANGED vars
      BY <2>4 DEF Launch, Call, EditPolicies, EditWorkflow, Edit, vars, KnownProject
    <2> QED
      BY <2>1, <2>2, <2>3, <2>4 DEF Next
  <1> QED
    BY <1>1, <1>2, PTL DEF Spec

(* What may be launched has a gate for every push.                          *)
LEMMA LaunchableHasGate ==
    ASSUME KnownProject, repositoryGates # Absent, Launchable, NEW files
    PROVE  \E c \in Sources(documents) : Selected(c, "pre_pr", files) # {}
  <1>1. repositoryGates \in GateDocuments(documents)
    BY DEF GateDocuments, documents
  <1>2. ParseGates(repositoryGates) \in Sources(documents)
    BY <1>1 DEF Sources
  <1>3. CASE NopalExplicit
    BY <1>2, <1>3, UnscopedIsAlwaysSelected DEF NopalExplicit
  <1>4. CASE WorkflowExplicit
    <2>1. ParseGates(workflow.gates) \in Sources(documents)
      BY <1>4 DEF WorkflowExplicit, Sources, GateDocuments, documents
    <2> QED
      BY <1>4, <2>1, UnscopedIsAlwaysSelected DEF WorkflowExplicit
  <1>5. CASE ParseGates(repositoryGates).scaffold # Absent /\ MatchesChecked(Inspect(evidence), repositoryGates)
    <2>1. ~GateErrors(repositoryGates)
      BY <1>1 DEF Launchable, GatesReady
    <2>2. IsGateDocument(repositoryGates) /\ IsEvidence(evidence)
      BY EvidenceAssumption DEF KnownProject
    <2> QED
      BY <1>2, <1>5, <2>1, <2>2, GeneratedOrCovered
  <1> QED
    BY <1>3, <1>4, <1>5 DEF Launchable, GatesReady

LEMMA ProvenAtLaunch == KnownProject => LaunchIsProven
  <1> SUFFICES ASSUME KnownProject, repositoryGates # Absent, Launchable PROVE LaunchIsProven
    BY DEF LaunchIsProven
  <1>1. ASSUME NEW req \in Requests, "pre_pr" \in RequiredStages(req), ClassesValid(req),
               PlanFor(documents, req).decision # P!Deny
        PROVE  \E g \in PlanFor(documents, req).gates : g.stage = "pre_pr"
    <2>1. PICK c \in Sources(documents) : Selected(c, "pre_pr", req.files) # {}
      BY LaunchableHasGate
    <2>2. RequiredAt("pre_pr", req.files, Sources(documents)) # {}
      BY <2>1, SelectedIsRequired
    <2>3. PICK g \in RequiredAt("pre_pr", req.files, Sources(documents)) : TRUE
      BY <2>2
    <2>4. g.stage = "pre_pr"
      BY <2>3 DEF RequiredAt, Selected
    <2>5. g \in RequiredGates(req, Sources(documents))
      BY <1>1, <2>3 DEF RequiredGates
    <2>6. PlanFor(documents, req).gates = RequiredGates(req, Sources(documents))
      BY <1>1 DEF PlanFor
    <2> QED
      BY <2>4, <2>5, <2>6
  <1>2. ASSUME ~NopalExplicit, ~WorkflowExplicit, NEW path \in Workspaces(evidence.root)
        PROVE  \/ \E t \in repositoryGates.scaffold.templates : t.scope = path
               \/ CoveredBy(evidence.root, path) # {}
    <2>1. PlanReadiness(evidence) = "ready" /\ repositoryGates.scaffold = GatesJson(Inspect(evidence)).scaffold
      BY <1>2 DEF Launchable, GatesReady, MatchesChecked, Inspect
    <2>2. repositoryGates.scaffold.templates = PlanTemplates(evidence)
      BY <2>1 DEF GatesJson, Provenance, Inspect
    <2>3. PICK t \in Child(evidence, path).templates : t # Baseline
      BY <2>1, ReadyIsProof
    <2>4. CASE t \in CoveredBy(evidence.root, path)
      BY <2>4
    <2>5. CASE t \notin CoveredBy(evidence.root, path)
      <3>1. [id |-> t, scope |-> path] \in PlanTemplates(evidence)
        BY <2>3, <2>5 DEF PlanTemplates
      <3> QED
        BY <2>2, <3>1
    <2> QED
      BY <2>4, <2>5
  <1> QED
    BY <1>1, <1>2 DEF LaunchIsProven

(* A project that may be launched has proof for every push it allows, and   *)
(* of every workspace it declares unless explicit gates stand for all.      *)
THEOREM LaunchesAreProven == Spec => []LaunchIsProven
  BY ProjectIsKnown, ProvenAtLaunch, PTL

-----------------------------------------------------------------------------
(* Publication.                                                             *)

(* The entries of a written document are in order.                          *)
LEMMA WrittenEntriesAreUsable ==
    ASSUME NEW e \in Evidence
    PROVE  LET doc == GatesJson(Inspect(e))
           IN  /\ AllEntries(doc) = doc.gates
               /\ \A i \in DOMAIN doc.gates : ~EntryError(doc.gates, i)
               /\ GateIds(ParsedGates(doc)) = {DetectedId(t) : t \in PlanTemplates(e)}
  <1> DEFINE doc == GatesJson(Inspect(e))
             gates == {GeneratedGate(t) : t \in PlanTemplates(e)}
             list == doc.gates
  <1>1. IsEvidence(e)
    BY EvidenceAssumption
  <1>2. /\ list \in Seq(gates) /\ ToSet(list) = gates
        /\ \A i, j \in 1..Len(list) : list[i] = list[j] => i = j
    BY <1>1, WrittenAsPlanned
  <1>3. DOMAIN list = 1..Len(list) /\ Len(list) \in Nat /\ \A i \in DOMAIN list : list[i] \in gates
    BY <1>2
  <1>4. doc.preflights = <<>>
    BY DEF GatesJson
  <1>5. AllEntries(doc) = list /\ Len(doc.preflights) = 0
    <2>1. <<>> \o list = list
      <3> HIDE DEF list, gates
      <3> QED
        BY <1>2
    <2> QED
      BY <1>4, <2>1 DEF AllEntries
  <1>6. ASSUME NEW i \in DOMAIN list
        PROVE  \E t \in PlanTemplates(e) : list[i] = GeneratedGate(t)
    BY <1>3
  <1>7. ASSUME NEW t \in PlanTemplates(e)
        PROVE  /\ GeneratedGate(t).id # Bad /\ GeneratedGate(t).run # Bad
               /\ GeneratedGate(t).stage # Bad /\ GeneratedGate(t).options # Bad
    BY EvidenceAssumption, PoliciesAssumption DEF GeneratedGate
  <1>8. ASSUME NEW t \in PlanTemplates(e), NEW u \in PlanTemplates(e),
               GeneratedGate(t).id = GeneratedGate(u).id
        PROVE  GeneratedGate(t) = GeneratedGate(u)
    BY <1>8 DEF GeneratedGate, DetectedId
  <1> HIDE DEF list, gates
  <1>9. ASSUME NEW i \in DOMAIN list PROVE OwnsId(list, i) /\ Usable(list[i]) /\ list[i].options # Bad
    <2>1. PICK t \in PlanTemplates(e) : list[i] = GeneratedGate(t)
      BY <1>6
    <2>2. ASSUME NEW j \in 1..(i - 1) PROVE list[j].id # list[i].id
      <3>1. j \in DOMAIN list /\ j # i
        BY <1>3
      <3>2. PICK u \in PlanTemplates(e) : list[j] = GeneratedGate(u)
        BY <1>6, <3>1
      <3>3. list[i] # list[j]
        BY <1>2, <1>3, <3>1
      <3> QED
        BY <1>8, <2>1, <3>2, <3>3
    <2> QED
      BY <1>7, <2>1, <2>2 DEF OwnsId, Usable
  <1>10. \A i \in DOMAIN list : ~EntryError(list, i)
    BY <1>9 DEF EntryError
  <1>11. ParsedGates(doc) = {GateOf(list[i]) : i \in DOMAIN list}
    BY <1>3, <1>5, <1>9 DEF ParsedGates
  <1>12. GateIds(ParsedGates(doc)) = {h.id : h \in gates}
    <2>1. \A h : GateOf(h).id = h.id
      BY DEF GateOf
    <2>2. {list[i] : i \in DOMAIN list} = gates
      BY <1>2 DEF ToSet
    <2> QED
      BY <1>11, <2>1, <2>2 DEF GateIds
  <1>13. {h.id : h \in gates} = {DetectedId(t) : t \in PlanTemplates(e)}
    <2>1. \A t : GeneratedGate(t).id = DetectedId(t)
      BY DEF GeneratedGate
    <2> QED
      BY <2>1 DEF gates
  <1> QED
    BY <1>5, <1>10, <1>12, <1>13 DEF list

(* No evidence makes the detector write provenance that validation refuses. *)
LEMMA WrittenProvenanceIsValid ==
    ASSUME NEW e \in Evidence
    PROVE  LET scaffold == GatesJson(Inspect(e)).scaffold
           IN  ~ProvenanceError(scaffold, {DetectedId(t) : t \in PlanTemplates(e)})
  <1> DEFINE scaffold == GatesJson(Inspect(e)).scaffold
             ids == {DetectedId(t) : t \in PlanTemplates(e)}
  <1>1. IsEvidence(e)
    BY EvidenceAssumption
  <1>2. /\ scaffold.templates = PlanTemplates(e) /\ scaffold.authority = "generated"
        /\ scaffold.readiness = PlanReadiness(e)
    BY DEF GatesJson, Provenance, Inspect
  <1>3. PlanTemplates(e) # {}
    BY BaselineIsPlanned
  <1>4. ASSUME NEW t \in PlanTemplates(e)
        PROVE  t.id \in Templates /\ t.scope \in {Root} \cup Workspaces(e.root)
    BY <1>1, PlanIsRegistered
  <1>5. GeneratedIds(scaffold) = ids /\ Len(scaffold.ids) = Cardinality(ids)
    BY <1>1, WrittenAsPlanned DEF GeneratedIds, ToSet
  <1>6. ids \subseteq Reserved
    <2> SUFFICES ASSUME NEW t \in PlanTemplates(e) PROVE DetectedId(t) \in Reserved
      OBVIOUS
    <2>1. DetectedId(t) \in {"detected"} \X Templates \X ({Root} \cup Workspaces(e.root))
      BY <1>4 DEF DetectedId
    <2> QED
      BY <2>1, EvidenceAssumption
  <1>7. scaffold.readiness = "ready" => ~({t.id : t \in scaffold.templates} \subseteq {Baseline})
    <2> SUFFICES ASSUME PlanReadiness(e) = "ready"
                 PROVE  ~({t.id : t \in PlanTemplates(e)} \subseteq {Baseline})
      BY <1>2
    <2>1. \E t \in PlanTemplates(e) : t.id # Baseline
      BY ReadyIsProof
    <2> QED
      BY <2>1
  <1> HIDE DEF scaffold, ids
  <1>8. {t.id : t \in scaffold.templates} \subseteq Templates
    BY <1>2, <1>4
  <1> QED
    BY <1>2, <1>3, <1>5, <1>6, <1>7, <1>8 DEF ProvenanceError, scaffold, ids

LEMMA WrittenIsValid ==
    ASSUME NEW e \in Evidence
    PROVE  ~GateErrors(GatesJson(Inspect(e)))
  <1> DEFINE doc == GatesJson(Inspect(e))
  <1>1. doc # Bad /\ doc.scaffold \notin {Absent, Bad}
    BY EvidenceAssumption
  <1>2. doc.version = "v2" /\ doc.sets = <<>> /\ doc.selectors = {}
    BY DEF GatesJson
  <1>3. \A i \in DOMAIN AllEntries(doc) : ~EntryError(AllEntries(doc), i)
    BY WrittenEntriesAreUsable
  <1>4. ~ProvenanceError(doc.scaffold, GateIds(ParsedGates(doc)))
    BY WrittenEntriesAreUsable, WrittenProvenanceIsValid
  <1> HIDE DEF doc
  <1>5. DOMAIN doc.sets = {} /\ DOMAIN ParsedSets(doc) = {}
    BY <1>2 DEF ParsedSets
  <1>6. ~SetError(doc) /\ ~SelectorError(doc)
    BY <1>2, <1>5 DEF SetError, SelectorError
  <1>7. ~ScaffoldError(doc)
    BY <1>1, <1>2, <1>4 DEF ScaffoldError
  <1> QED
    BY <1>1, <1>2, <1>3, <1>6, <1>7 DEF GateErrors, doc

(* Whatever detection finds, the document it generates is valid.            *)
LEMMA ProposalIsValid == KnownProject /\ Proposed => ~GateErrors(GatesJson(Inspect(evidence)))
  BY WrittenIsValid DEF KnownProject

(* A ready document opens the launch.                                       *)
LEMMA PublishedIsReady ==
    KnownProject /\ Publish =>
        (/\ repositoryGates'.scaffold.readiness = "ready"
         /\ workflow.gates = Absent /\ ~workflow.faulty
         => GatesReady')
  <1> DEFINE doc == GatesJson(Inspect(evidence))
  <1> SUFFICES ASSUME KnownProject, Publish, repositoryGates'.scaffold.readiness = "ready",
                      workflow.gates = Absent, ~workflow.faulty
               PROVE  GatesReady'
    OBVIOUS
  <1>1. repositoryGates' = doc /\ evidence' = evidence /\ workflow' = workflow /\ evidence \in Evidence
    BY DEF Publish, KnownProject
  <1>2. ~GateErrors(doc)
    BY DEF Publish
  <1>3. GateDocuments(documents)' \subseteq {doc}
    BY <1>1 DEF GateDocuments, documents
  <1>4. Inspect(evidence).readiness = "ready"
    BY <1>1 DEF GatesJson, Provenance
  <1>5. doc.scaffold \notin {Absent, Bad} /\ doc.version = "v2"
    BY <1>1, EvidenceAssumption DEF GatesJson
  <1>6. ParseGates(doc).scaffold # Absent
    BY <1>5 DEF ParseGates
  <1>7. MatchesChecked(Inspect(evidence), doc)
    BY DEF MatchesChecked
  <1>8. doc.scaffold.readiness = "ready"
    BY <1>1
  <1> HIDE DEF doc
  <1> QED
    BY <1>1, <1>2, <1>3, <1>4, <1>6, <1>7, <1>8 DEF GatesReady

(* What the first run proposes is written, and accepted by the session that *)
(* follows.                                                                 *)
THEOREM PublicationAccepted == Spec => PublishedIsAccepted
  <1> DEFINE Valid == Proposed => ~GateErrors(GatesJson(Inspect(evidence)))
             Opens == /\ Publish
                      /\ repositoryGates'.scaffold.readiness = "ready"
                      /\ workflow.gates = Absent /\ ~workflow.faulty
                      => GatesReady'
  <1>1. KnownProject => Valid
    BY ProposalIsValid
  <1>2. KnownProject /\ [Next]_vars => [Opens]_vars
    BY PublishedIsReady
  <1> QED
    BY <1>1, <1>2, ProjectIsKnown, PTL DEF Spec, PublishedIsAccepted

=============================================================================
