------------------------------ MODULE MCPiGuard ------------------------------
(* Small instances of PiGuard.                                             *)
EXTENDS PiGuard

CONSTANTS r1, n1, m1, m2

V(r, n, m) == [k \in Kinds |-> CASE k = "read" -> r [] k = "network_read" -> n
                                  [] OTHER -> m]

\* Two reading calls of different classes, and two mutating calls that carry
\* the same identity: the second is a duplicate while the first is in flight, a
\* reuse afterwards.
MCCalls    == {r1, n1, m1, m2}
MCIds      == {r1, n1, m1}
MCIdOf     == [c \in MCCalls |-> IF c = m2 THEN m1 ELSE c]
MCKind     == [c \in MCCalls |-> CASE c = r1 -> "read" [] c = n1 -> "network_read"
                                   [] OTHER -> "mutate"]
MCPolicies == {V("allow", "ask", "ask"), V("deny", "gated", "allow")}

\* Fewer calls for the runs that look for a short counterexample.
PairCalls == {r1, m1}
PairIdOf  == [c \in PairCalls |-> c]
PairKind  == [c \in PairCalls |-> MCKind[c]]
=============================================================================
