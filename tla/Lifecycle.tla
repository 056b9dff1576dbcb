------------------------------ MODULE Lifecycle ------------------------------
(***************************************************************************)
(* The structural lifecycle of a workflow run                              *)
(* (crates/nopal-core/src/run_ledger.rs): which command is legal in which  *)
(* status and where it leads.  Workflow names and payloads are open data;  *)
(* only the kind of a command and the target of a finalize count here.     *)
(***************************************************************************)

Status   == {"running", "interrupted", "failed", "completed"}
Final    == {"interrupted", "failed", "completed"}   \* what finalize accepts
Terminal == {"failed", "completed"}
NoStatus == "none"                                   \* the run does not exist

Kinds == {"initialize", "event", "checkpoint", "gate", "evidence",
          "interrupt", "resume", "finalize"}

\* The kinds that leave a running run running.
Ordinary == {"event", "checkpoint", "gate", "evidence"}

Legal(s, c) ==
    \/ s = NoStatus /\ c.kind = "initialize"
    \/ s = "running" /\ c.kind \in Ordinary \cup {"interrupt"}
    \/ s = "interrupted" /\ c.kind = "resume"
    \/ s \in {"running", "interrupted"} /\ c.kind = "finalize" /\ c.target \in Final

\* The status a legal command leads to.
Target(c) == CASE c.kind = "finalize"  -> c.target
               [] c.kind = "interrupt" -> "interrupted"
               [] OTHER                -> "running"
=============================================================================
