----------------------------- MODULE MCContract -----------------------------
EXTENDS Contract, TLC

(* A repository of two workspaces, three policies of it, one of its user,   *)
(* and five calls; gate documents grow by explicit gates and selectors.     *)
CONSTANTS NoValue, WrongValue, NoGlob

MCTemplates == {"baseline", "cargo", "npm", "pnpm", "maven", "gradle", "phpunit", "make"}
MCTaskTemplate == [make |-> "make", just |-> "make"]
MCManagerTemplate == [npm |-> "npm", pnpm |-> "pnpm"]
MCRivals == {{"maven", "gradle"}}
MCCovering == {"cargo", "maven"}
MCReserved == {"detected"} \X MCTemplates \X {".", "a", "b"}

(* Scopes. *)
Bare == [runners |-> {}, scripts |-> FALSE, locks |-> {}, declared |-> NoValue,
         composer |-> FALSE, defaults |-> {}, broken |-> FALSE]
Cargo   == [Bare EXCEPT !.defaults = {"cargo"}]
Scripts == [Bare EXCEPT !.scripts = TRUE]
Locked  == [Scripts EXCEPT !.locks = {"npm"}]

Declares(members, covers) ==
    [members |-> {[path |-> m, covers |-> covers] : m \in members}, excluded |-> {}, invalid |-> FALSE]
Project(scope, npm, declarations, a, b) ==
    [root   |-> scope @@ [npmWorkspaces |-> npm, declarations |-> declarations],
     scopes |-> [a |-> a, b |-> b]]

MCEvidence ==
    { Project(Bare, FALSE, {}, Bare, Bare),
      Project(Cargo, FALSE, {Declares({"a", "b"}, "cargo")}, Cargo, Cargo),
      Project(Locked, TRUE, {Declares({"a"}, NoValue), [Declares({"b"}, NoValue) EXCEPT !.excluded = {"b"}]},
              [Scripts EXCEPT !.declared = WrongValue], Bare),
      Project(Locked, TRUE, {Declares({"a", "b"}, NoValue)}, [Scripts EXCEPT !.declared = "pnpm"], Bare),
      Project([Bare EXCEPT !.runners = {"make"}], FALSE, {Declares({"a"}, NoValue)},
              [Bare EXCEPT !.defaults = {"maven", "gradle"}], Bare),
      Project([Locked EXCEPT !.declared = WrongValue], TRUE, {}, Bare, Bare) }

(* Gate documents. *)
Own(name, stage) == [id |-> <<"own", name, ".">>, stage |-> stage, run |-> <<"run", name, ".">>,
                     options |-> NoValue]
Explicitly(gates) == [version |-> "v1", scaffold |-> NoValue, preflights |-> <<>>, gates |-> gates,
                      sets |-> <<>>, selectors |-> {}]
MCFirstGates == {NoValue, Explicitly(<<Own("lint", "per_edit"), Own("test", "pre_pr")>>)}

Scoped(doc, name, paths) ==
    LET grown == IF \E i \in DOMAIN doc.gates : doc.gates[i].id = Own(name, "pre_pr").id
                 THEN doc ELSE [doc EXCEPT !.gates = Append(@, Own(name, "pre_pr"))]
    IN  [grown EXCEPT !.sets = [own |-> {Own(name, "pre_pr").id}],
                      !.selectors = @ \cup {[name |-> name, paths |-> paths, exclude |-> {}, sets |-> {"own"}]}]
MCAdditions(doc) ==
    { [doc EXCEPT !.gates = Append(@, Own("test", "pre_pr"))],
      [doc EXCEPT !.gates = Append(@, Own("lint", "per_edit"))],
      Scoped(doc, "docs", {{"doc"}}),
      Scoped(doc, "docs", {{"doc"}, {"src"}}),
      Scoped(doc, "docs", {NoGlob}) }

(* Policies. *)
Rule(id, decision, placement, classes, actions) ==
    [id |-> id, decision |-> decision, placement |-> placement, classes |-> classes, actions |-> actions]
Doc(decision, rules, env) ==
    [version |-> "nopal.policy/v1", env |-> env,
     modes   |-> [auto |-> [decision |-> decision, placement |-> NoValue, rules |-> rules]]]
Permissive == Doc(0, <<>>, NoValue)
MCRepositoryPolicies ==
    { Permissive,
      Doc(0, <<Rule("push", 1, NoValue, {"git_remote"}, {"fs.write"}),
               Rule("read", NoValue, 2, NoValue, {"fs.write"})>>,
          <<[name |-> "TOKEN", classes |-> {"secret_bearing"}]>>),
      Doc(0, <<Rule("push", 2, NoValue, {WrongValue, "git_remote"}, NoValue)>>, NoValue) }
MCUserPolicies == {NoValue, Doc(NoValue, <<Rule("mine", 1, 1, {"workspace_write"}, NoValue)>>, NoValue)}

MCWorkflows ==
    { [policy |-> NoValue, gates |-> NoValue, faulty |-> FALSE],
      [policy |-> Doc(1, <<>>, NoValue), gates |-> Explicitly(<<Own("flow", "pre_pr"), Own("watch", "continuous")>>),
       faulty |-> FALSE],
      [policy |-> NoValue, faulty |-> FALSE,
       gates |-> Explicitly(<<[Own("lint", "per_edit") EXCEPT !.run = <<"other", "lint", ".">>]>>)] }

Request(action, classes, files) ==
    [mode |-> "auto", action |-> action, classes |-> classes, files |-> files]
MCRequests ==
    { Request("fs.write", {"workspace_write"}, {"src"}),
      Request("git.push", {"git_remote"}, {"doc", "src"}),
      Request("gh.pr_mutate", {"git_remote"}, {"doc"}),
      Request("git.reset_hard", {"destructive"}, {}),
      Request("git.commit", {"git_local", "read"}, {"src"}) }
=============================================================================
