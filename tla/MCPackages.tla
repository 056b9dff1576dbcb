----------------------------- MODULE MCPackages -----------------------------
(***************************************************************************)
(* A small instance of Packages: two projects on one store; a contract of  *)
(* two npm packages and one with a workspace package beside the builtin.   *)
(***************************************************************************)
EXTENDS Packages

Tree(name, version, content) == [name |-> name, version |-> version, files |-> "SKILL.md" :> content]
Skill == [kind |-> "skill", path |-> "SKILL.md"]
Request(id, kind, package, where) ==
    [id |-> id, kind |-> kind, package |-> package, where |-> where, requirement |-> "1.0.0", resources |-> <<Skill>>]

MCBuiltin == Tree("nopal", "1.0.0", "b")
NopalRequest == Request("nopal", "builtin", "nopal", Absent)

Contract(packages) == [version |-> "v2", ambient |-> {}, packages |-> packages]
TwoNpm == Contract(<<NopalRequest, Request("a", "npm", "a", "npmjs"), Request("b", "npm", "b", "npmjs")>>)
OneLocal == Contract(<<Request("w", "workspace", "w", "tools/w"), Request("a", "npm", "a", "npmjs")>>)
MCContracts == {TwoNpm, OneLocal}

Answer(name, artifact, content) == [version |-> "1.0.0", artifact |-> artifact, tree |-> Tree(name, "1.0.0", content)]
MCAnswers == (<<"a", "1.0.0">> :> {Answer("a", "s1", "a1"), Answer("a", "s2", "a2")})
             @@ (<<"b", "1.0.0">> :> {Answer("b", "s3", "b1")})
MCRoots == "tools/w" :> {Tree("w", "1.0.0", "w1"), Tree("w", "1.0.0", "w2")}
At1(id) == CHOOSE a \in MCAnswers[<<id, "1.0.0">>] : TRUE
CheckoutWorld == [builtin |-> MCBuiltin, workspace |-> [root \in DOMAIN MCRoots |-> CHOOSE t \in MCRoots[root] : TRUE],
                  store |-> <<>>]
Checked(b) == [bundle |-> b, lock |-> BuiltLock(CheckoutWorld, b, [id \in {"a", "b"} |-> At1(id)])]
MCCheckout == [p \in Projects |-> IF p = "p1" THEN Checked(TwoNpm) ELSE Checked(OneLocal)]
MCInstalled == {<<"a", "1.0.0", At1("a").artifact>>}
MCDamage == {Tree("a", "1.0.0", "x")}
=============================================================================
