----------------------------- MODULE MCRunLedger -----------------------------
(* Small instances of RunLedger.                                           *)
EXTENDS RunLedger, TLC

Cmd(kind) == [kind |-> kind, target |-> NoStatus, key |-> NoKey,
              payload |-> "a", write |-> {}, create |-> {}, remove |-> {},
              clear |-> {}]

InitializeCmd == [Cmd("initialize") EXCEPT !.key = "init"]
EventCmd      == [Cmd("event") EXCEPT !.key = "k"]
OtherEventCmd == [Cmd("event") EXCEPT !.key = "k", !.payload = "b"]
ResumeCmd     == Cmd("resume")
InterruptCmd  == Cmd("interrupt")
FinalizeCmd(s) == [Cmd("finalize") EXCEPT !.target = s, !.write = {"report"}]

MCKeys     == {"init", "k"}
MCPayloads == {"a", "b"}
MCArtifacts == {"approval", "receipt", "gate1", "gate2"}
MCGateFile == <<"gate1", "gate2">>

\* The lifecycle with keyed retries.
LifecycleCommands ==
    {InitializeCmd, EventCmd, OtherEventCmd, InterruptCmd, ResumeCmd,
     FinalizeCmd("completed")}

\* Artifacts: gate attempts, receipts created once, approvals replaced,
\* consumed together with a created release, or cleared.
Evidence(w, c, r, x) ==
    [Cmd("evidence") EXCEPT !.write = w, !.create = c, !.remove = r, !.clear = x]

EvidenceCommands ==
    {Cmd("gate"),
     Evidence({"approval"}, {}, {}, {}),
     Evidence({}, {"receipt"}, {"approval"}, {}),
     Evidence({}, {}, {}, {"approval"})}

\* A run first written by the older tool, filled up and finalized.
LegacyCommands ==
    {EventCmd, InterruptCmd, FinalizeCmd("completed")}

Symmetry == Permutations(Procs)
=============================================================================
