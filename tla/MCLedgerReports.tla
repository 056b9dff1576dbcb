-------------------------- MODULE MCLedgerReports --------------------------
\* Two runs and what is asked of one; the .cfg files give the other constants.
EXTENDS LedgerReports, TLC

MCRank == [r1 |-> 1, r2 |-> 2]

Of(kind, target) == [kind |-> kind, target |-> target, gate |-> Absent, stamp |-> Absent]
GateOf(g, n)     == [kind |-> "gate", target |-> "none", gate |-> g, stamp |-> n]

\* Runs are interrupted by prune; one gate has no time stamp, the other has one.
MCCommands ==
    {Of(k, "none") : k \in {"initialize", "resume"}}
    \cup {Of("finalize", "completed"), GateOf("g1", 0), GateOf("g2", 1)}

Symmetry == Permutations(Procs)
=============================================================================
