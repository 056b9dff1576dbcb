------------------------------ MODULE LedgerLog ------------------------------
(***************************************************************************)
(* What the run ledger promises its callers: one log of transitions.  A    *)
(* command takes effect in one indivisible step or not at all, an          *)
(* operation identity takes effect once, the lifecycle is respected, the   *)
(* last two places are kept for interruption and finalization, and a       *)
(* caller is told of success only for a transition that is in the log.     *)
(* Locks, processes, files, crashes and repairs do not exist here.         *)
(***************************************************************************)
EXTENDS Lifecycle, Integers, Sequences

CONSTANTS
    Commands,      \* the commands callers issue
    NoKey,         \* the caller gave no operation identity
    Starts,        \* statuses an adopted older run may have; NoStatus for none
    OrdinaryLimit, \* capacity for every command
    FileLimit      \* capacity for interruption and finalization

VARIABLES
    start,  \* status of the adopted run, NoStatus for a run that starts here
    log,    \* the transitions
    acks    \* what callers were told

Log_vars == <<start, log, acks>>

Current == IF log = <<>> THEN start ELSE log[Len(log)].status

Taken(key) == key # NoKey /\ \E i \in DOMAIN log : log[i].cmd.key = key

HasRoom(c) ==
    /\ Len(log) < FileLimit
    /\ c.kind \in {"interrupt", "finalize"} \/ Len(log) < OrdinaryLimit

Init == start \in Starts /\ log = <<>> /\ acks = {}

Commit(c) ==
    /\ HasRoom(c)
    /\ ~Taken(c.key)
    /\ Legal(Current, c)
    /\ log' = Append(log, [cmd |-> c, status |-> Target(c)])
    /\ UNCHANGED <<start, acks>>

Acknowledge(i) ==
    /\ acks' = acks \cup {[cmd |-> log[i].cmd, rev |-> i]}
    /\ UNCHANGED <<start, log>>

Next == \/ \E c \in Commands : Commit(c)
        \/ \E i \in DOMAIN log : Acknowledge(i)

Spec == Init /\ [][Next]_Log_vars
=============================================================================
