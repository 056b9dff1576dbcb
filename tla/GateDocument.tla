---------------------------- MODULE GateDocument ----------------------------
(* The gate documents of gates.rs and the selection of selection.rs: which  *)
(* gates a validated document has, and which of them a stage and a set of   *)
(* changed files call for.                                                  *)
(*                                                                          *)
(* A path pattern is the set of files it matches, or BadGlob when it does   *)
(* not compile. A run is what the entry says to execute, with its directory *)
(* and its flags; Bad and Absent are those of Policy.                       *)
EXTENDS Naturals, FiniteSets, Sequences

CONSTANTS Absent, Bad,
          BadGlob,      \* a pattern the glob library refuses
          Reserved,     \* the gate ids in the detected.* namespace
          Templates,    \* the template registry
          Baseline      \* its template that only checks the diff

KnownStages == {"per_edit", "pre_commit", "pre_pr", "post_pr", "continuous", "human_interrupt"}

(* The stages whose gates an action of a session can call for. *)
ActionStages == {"continuous", "per_edit", "pre_commit", "pre_pr"}

-----------------------------------------------------------------------------
(* Validation. Preflights and gates share one space of identities: the      *)
(* first entry of an id keeps it, whatever else is wrong with that entry.   *)

AllEntries(doc) == doc.preflights \o doc.gates

OwnsId(entries, i) == /\ entries[i].id # Bad
                      /\ \A j \in 1..(i - 1) : entries[j].id # entries[i].id

Usable(entry) == entry.stage # Bad /\ entry.run # Bad

EntryError(entries, i) == ~OwnsId(entries, i) \/ ~Usable(entries[i]) \/ entries[i].options = Bad

(* A stage outside the vocabulary is only a warning. *)
GateOf(entry) == [id      |-> entry.id,
                  stage   |-> entry.stage,
                  run     |-> entry.run,
                  options |-> IF entry.options = Bad THEN Absent ELSE entry.options]

ParsedGates(doc) ==
    LET entries == AllEntries(doc)
    IN  {GateOf(entries[i]) : i \in {k \in (Len(doc.preflights) + 1)..Len(entries) :
                                       OwnsId(entries, k) /\ Usable(entries[k])}}

GateIds(gates) == {g.id : g \in gates}

(* An entry of a set that is not a string is dropped without a word. *)
ParsedSets(doc) ==
    [name \in {n \in DOMAIN doc.sets : doc.sets[n] # Bad} |-> doc.sets[name] \ {Bad}]

SetError(doc) ==
    \/ \E name \in DOMAIN doc.sets : doc.sets[name] = Bad
    \/ \E name \in DOMAIN ParsedSets(doc) : ~(ParsedSets(doc)[name] \subseteq GateIds(ParsedGates(doc)))

SelectorUsable(s) == s.name # Bad /\ s.paths # Bad /\ s.exclude # Bad /\ s.sets # Bad

(* No pattern is compiled here. *)
SelectorError(doc) ==
    \E s \in doc.selectors : ~SelectorUsable(s) \/ ~(s.sets \subseteq DOMAIN ParsedSets(doc))

GeneratedIds(scaffold) == {scaffold.ids[i] : i \in DOMAIN scaffold.ids}

(* What generated provenance must be, beside being there in version 2 only. *)
ProvenanceError(scaffold, ids) ==
    \/ scaffold.templates = {}
    \/ scaffold.authority # "generated"
    \/ ~({t.id : t \in scaffold.templates} \subseteq Templates)
    \/ Len(scaffold.ids) # Cardinality(GeneratedIds(scaffold))
    \/ ~(GeneratedIds(scaffold) \subseteq Reserved \cap ids)
    \/ ~(ids \cap Reserved \subseteq GeneratedIds(scaffold))
    \/ /\ scaffold.readiness = "ready"
       /\ {t.id : t \in scaffold.templates} \subseteq {Baseline}
       /\ ids \subseteq GeneratedIds(scaffold)

ScaffoldError(doc) ==
    CASE doc.version = "v1" -> doc.scaffold # Absent
      [] doc.version = "v2" -> \/ doc.scaffold \in {Absent, Bad}
                               \/ ProvenanceError(doc.scaffold, GateIds(ParsedGates(doc)))
      [] OTHER -> FALSE

GateErrors(doc) ==
    \/ doc = Bad
    \/ doc.version \notin {"v1", "v2"}
    \/ \E i \in DOMAIN AllEntries(doc) : EntryError(AllEntries(doc), i)
    \/ SetError(doc)
    \/ SelectorError(doc)
    \/ ScaffoldError(doc)

ParseGates(doc) ==
    [gates     |-> ParsedGates(doc),
     sets      |-> ParsedSets(doc),
     selectors |-> {s \in doc.selectors : SelectorUsable(s)},
     scaffold  |-> IF doc.version = "v2" /\ doc.scaffold # Bad THEN doc.scaffold ELSE Absent]

-----------------------------------------------------------------------------
(* Selection, over a document as parsed. *)

Generated(config) == IF config.scaffold = Absent THEN {} ELSE GeneratedIds(config.scaffold)

Explicit(config, gate) == gate.id \notin Generated(config)

(* A pattern that does not compile empties its selector; one that does not  *)
(* compile in the exclusions lifts them.                                    *)
Matching(files, s) ==
    IF BadGlob \in s.paths THEN {}
    ELSE (files \cap UNION s.paths) \ (IF BadGlob \in s.exclude THEN {} ELSE UNION s.exclude)

SetIds(config, s) == UNION {config.sets[name] : name \in s.sets \cap DOMAIN config.sets}

(* Without selectors everything applies; selectors scope explicit gates and *)
(* leave the generated ones alone.                                          *)
Pulled(config, files) ==
    IF config.selectors = {} THEN GateIds(config.gates)
    ELSE (Generated(config) \cap GateIds(config.gates))
         \cup UNION {SetIds(config, s) : s \in {t \in config.selectors : Matching(files, t) # {}}}

ExplicitAt(config, stage, ids) ==
    \E g \in config.gates : g.id \in ids /\ g.stage = stage /\ Explicit(config, g)

(* Mutant: one explicit gate that matches anything replaces what was        *)
(* generated.                                                               *)
Covers_Anything(config, stage, files) ==
    IF config.selectors = {} THEN ExplicitAt(config, stage, GateIds(config.gates))
    ELSE \E s \in config.selectors : /\ Matching(files, s) # {}
                                     /\ ExplicitAt(config, stage, SetIds(config, s))

(* Whether explicit proof of the stage covers the whole change. *)
Covers(config, stage, files) ==
    IF config.selectors = {} THEN ExplicitAt(config, stage, GateIds(config.gates))
    ELSE /\ files # {}
         /\ files \subseteq UNION {Matching(files, s) : s \in {t \in config.selectors :
                                      ExplicitAt(config, stage, SetIds(config, t))}}

Selected(config, stage, files) ==
    {g \in config.gates : /\ g.stage = stage
                          /\ g.id \in Pulled(config, files)
                          /\ Covers(config, stage, files) => Explicit(config, g)}

(* Launch and doctor have no changed files: only explicit proof selected    *)
(* without them stands for the whole repository.                            *)
UnscopedExplicitPrePr(config) ==
    \E g \in Selected(config, "pre_pr", {}) : Explicit(config, g)
=============================================================================
