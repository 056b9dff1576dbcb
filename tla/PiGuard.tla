------------------------------- MODULE PiGuard -------------------------------
(***************************************************************************)
(* The guard on protected tool calls of one Pi session                     *)
(* (extensions/policy-gate/guard.ts) and the private core requests it      *)
(* makes.  Its three handlers -- tool_call, tool_result and                *)
(* session_shutdown -- run on one event loop: the code between two awaits  *)
(* is indivisible, and at an await every other handler may run.  An        *)
(* awaited request is a `nopal` subprocess: it commits to the run's        *)
(* ledger, and then its answer is delivered; it may be killed, or its      *)
(* answer lost, before or after it committed.                              *)
(*                                                                         *)
(* A request commits in one step (RunLedger refines such a step).  What a  *)
(* verification observes of the project is the effective policy and the    *)
(* workspace's fingerprint, a version number.                              *)
(***************************************************************************)
EXTENDS Integers, FiniteSets

CONSTANTS
    Calls,       \* tool_call events
    Ids,         \* tool-call identities
    IdOf,        \* the identity each call carries
    Kind,        \* "read", "network_read" or "mutate", as classified
    Targeted,    \* calls that name a file other than the changed ones
    NoCall,      \* no mutating call is active
    NoSubject,   \* no exact subject: no release yet
    Policies,    \* effective policies: a verdict for each kind
    HasUI,       \* can the user be asked?
    MaxVersion,  \* bound on workspace versions
    MaxTroubles  \* bound on the user's edits and lost requests together

\* "gated": allowed, but a required gate is not declared safe beside readers.
Verdicts == {"allow", "gated", "ask", "deny"}
Kinds    == {"read", "network_read", "mutate"}
Policy   == [Kinds -> Verdicts]

\* The authorization binding: an exact call at a policy and a workspace.
Subject  == [id: Ids, policy: Policy, version: 0..MaxVersion]

ASSUME ConstantsAssumption ==
    /\ IdOf \in [Calls -> Ids]
    /\ Kind \in [Calls -> Kinds]
    /\ Targeted \subseteq Calls
    /\ NoCall \notin Ids
    /\ NoSubject \notin Subject
    /\ Policies \subseteq Policy
    /\ HasUI \in BOOLEAN
    /\ MaxVersion \in Nat /\ MaxTroubles \in Nat

VARIABLES
    held, exclusive, released, \* activeCalls: its keys, mutates, release
    mutating,                  \* activeMutatingCallId
    poisoned, shutting,        \* concurrencyPoisoned, shuttingDown
    pc, answer,     \* where each call stands, and what its request returned
    subject,        \* the subject a call's request or release is about
    sd, sanswer,    \* the same for session_shutdown
    visited,        \* the leases its loop has passed
    awaited,        \* the release whose interruption it awaits
    interrupted,    \* runWasInterrupted
    unrecorded,     \* an interruption could not be recorded
    policy, version,                \* the project
    run, runtime,                   \* status of the run, gate runtime present
    approvals, releases, outcomes,  \* the run's enforcement artifacts
    edits, faults,  \* how often the user edited, a request failed
    consents        \* history: subjects the user said yes to

guard    == <<held, exclusive, released, mutating, poisoned, shutting>>
handlers == <<pc, answer, subject>>
shutdown == <<sd, sanswer, visited, awaited, interrupted, unrecorded>>
project  == <<policy, version>>
ledger   == <<run, runtime, approvals, releases, outcomes>>
history  == <<edits, faults, consents>>
vars     == <<guard, handlers, shutdown, project, ledger, history>>

-----------------------------------------------------------------------------
Init ==
    /\ held = {} /\ exclusive = {}
    /\ released = [i \in Ids |-> NoSubject]
    /\ mutating = NoCall
    /\ poisoned = FALSE /\ shutting = FALSE
    /\ pc = [c \in Calls |-> "idle"]
    /\ answer = [c \in Calls |-> "none"]
    /\ subject = [c \in Calls |-> NoSubject]
    /\ sd = "off" /\ sanswer = "none"
    /\ visited = {} /\ awaited = NoSubject
    /\ interrupted = FALSE /\ unrecorded = FALSE
    /\ policy \in Policies
    /\ version = 0
    /\ run = "running" /\ runtime = TRUE
    /\ approvals = {} /\ releases = {} /\ outcomes = {}
    /\ edits = 0 /\ faults = 0
    /\ consents = {}

\* What the core would observe for call c now.
Current(c) == [id |-> IdOf[c], policy |-> policy, version |-> version]
Verdict(c, s) == s.policy[Kind[c]]

\* removeActiveCall
RemoveActiveCall(i) ==
    /\ held' = held \ {i}
    /\ exclusive' = exclusive \ {i}
    /\ released' = [released EXCEPT ![i] = NoSubject]
    /\ mutating' = IF i \in exclusive /\ mutating = i THEN NoCall ELSE mutating

Go(c, p) == pc' = [pc EXCEPT ![c] = p]

\* A request is sent and awaited.
Send(c, p) == Go(c, p) /\ answer' = [answer EXCEPT ![c] = "none"]

\* The handler returns for good.
Return(c, p) == Send(c, p) /\ subject' = [subject EXCEPT ![c] = NoSubject]

Answered(c, p) == pc[c] = p /\ answer[c] \notin {"none", "working"}

-----------------------------------------------------------------------------
(* tool_call                                                               *)

\* Refused without a lease.  (So is a call that cannot be classified: it does
\* not occur here.)
Reject(c) ==
    /\ pc[c] = "idle"
    /\ poisoned \/ shutting
    /\ Go(c, "blocked")
    /\ UNCHANGED <<guard, answer, subject, shutdown, project, ledger, history>>

\* A mutating call may overlap nothing, a reading call no mutating call.
Conflicts(c) ==
    \/ IdOf[c] \in held
    \/ IF Kind[c] = "mutate" THEN held # {} ELSE mutating # NoCall

Overlap(c) ==
    /\ pc[c] = "idle"
    /\ ~poisoned /\ ~shutting
    /\ Conflicts(c)
    /\ poisoned' = TRUE
    /\ Go(c, "blocked")
    /\ UNCHANGED <<held, exclusive, released, mutating, shutting, answer,
                   subject, shutdown, project, ledger, history>>

\* Mutant: only another mutating call is a conflict.
Lease_BesideReaders(c) ==
    /\ pc[c] = "idle"
    /\ ~poisoned /\ ~shutting
    /\ IdOf[c] \notin held /\ mutating = NoCall
    /\ held' = held \cup {IdOf[c]}
    /\ exclusive' = exclusive \cup (IF Kind[c] = "mutate" THEN {IdOf[c]} ELSE {})
    /\ mutating' = IF Kind[c] = "mutate" THEN IdOf[c] ELSE mutating
    /\ Send(c, "plan")
    /\ UNCHANGED <<released, poisoned, shutting, subject, shutdown, project,
                   ledger, history>>

\* The lease is taken and the plan requested.
Lease(c) ==
    /\ pc[c] = "idle"
    /\ ~poisoned /\ ~shutting
    /\ ~Conflicts(c)
    /\ held' = held \cup {IdOf[c]}
    /\ exclusive' = exclusive \cup (IF Kind[c] = "mutate" THEN {IdOf[c]} ELSE {})
    /\ mutating' = IF Kind[c] = "mutate" THEN IdOf[c] ELSE mutating
    /\ Send(c, "plan")
    /\ UNCHANGED <<released, poisoned, shutting, subject, shutdown, project,
                   ledger, history>>

\* Mutant: the early returns keep the lease.
Block_KeepsLease(c) ==
    /\ Return(c, "blocked")
    /\ UNCHANGED <<guard, shutdown, project, ledger, history>>

\* Every early return after the lease runs the finally block.
Block(c) ==
    /\ Return(c, "blocked")
    /\ RemoveActiveCall(IdOf[c])
    /\ UNCHANGED <<poisoned, shutting, shutdown, project, ledger, history>>

\* Mutant: only mutating calls are looked for.
IsAlone_Unchecked(c) == IdOf[c] \in held /\ mutating = NoCall

\* A reading call that must be asked about, or has a required gate that is not
\* declared safe beside readers, needs the workspace for itself.
NeedsExclusive(c) == Kind[c] # "mutate" /\ answer[c] \in {"ask", "gated"}
IsAlone(c) == held = {IdOf[c]} /\ mutating = NoCall

PlanRefused(c) ==
    /\ Answered(c, "plan")
    /\ \/ answer[c] \in {"failed", "deny"}
       \/ NeedsExclusive(c) /\ ~IsAlone(c)
    /\ Block(c)

Planned(c) ==
    /\ Answered(c, "plan")
    /\ answer[c] \notin {"failed", "deny"}
    /\ IF NeedsExclusive(c)
       THEN /\ IsAlone(c)
            /\ exclusive' = exclusive \cup {IdOf[c]}
            /\ mutating' = IdOf[c]
       ELSE UNCHANGED <<exclusive, mutating>>
    /\ Send(c, "advance")
    /\ UNCHANGED <<held, released, poisoned, shutting, subject, shutdown,
                   project, ledger, history>>

AdvanceRefused(c) ==
    /\ Answered(c, "advance")
    /\ \/ answer[c] \in {"failed", "blocked"}
       \/ answer[c] = "approval_required" /\ ~HasUI
    /\ Block(c)

\* The user is asked, and the answer sent to be recorded.
Ask(c) ==
    /\ Answered(c, "advance")
    /\ answer[c] = "approval_required"
    /\ HasUI
    /\ Go(c, "select")
    /\ UNCHANGED <<guard, answer, subject, shutdown, project, ledger, history>>

Select(c, yes) ==
    /\ pc[c] = "select"
    /\ Send(c, IF yes THEN "approve" ELSE "decline")
    /\ consents' = consents \cup (IF yes THEN {subject[c]} ELSE {})
    /\ UNCHANGED <<guard, subject, shutdown, project, ledger, edits, faults>>

NotApproved(c) ==
    /\ \/ Answered(c, "approve") /\ answer[c] = "failed"
       \/ Answered(c, "decline")
    /\ Block(c)

Approved(c) ==
    /\ Answered(c, "approve")
    /\ answer[c] = "recorded"
    /\ Send(c, "readvance")
    /\ UNCHANGED <<guard, subject, shutdown, project, ledger, history>>

\* The second answer must be a release that consumed an approval.
ReleasedAfterAsk(c) == answer[c] = "released" /\ Verdict(c, subject[c]) = "ask"

ReadvanceRefused(c) ==
    /\ Answered(c, "readvance")
    /\ ~ReleasedAfterAsk(c)
    /\ Block(c)

\* The call has its release, yet its lease is gone: a shutdown was completed.
Vanished(c) ==
    /\ \/ Answered(c, "advance") /\ answer[c] = "released"
       \/ Answered(c, "readvance") /\ ReleasedAfterAsk(c)
    /\ IdOf[c] \notin held
    /\ Block(c)

\* The release is remembered until the result; the tool call is let through,
\* or, when shutdown has begun, its interruption is recorded instead.
Release(c) ==
    /\ \/ Answered(c, "advance") /\ answer[c] = "released"
       \/ Answered(c, "readvance") /\ ReleasedAfterAsk(c)
    /\ IdOf[c] \in held
    /\ released' = [released EXCEPT ![IdOf[c]] = subject[c]]
    /\ Send(c, IF shutting THEN "interrupt" ELSE "allowed")
    /\ UNCHANGED <<held, exclusive, mutating, poisoned, shutting, subject,
                   shutdown, project, ledger, history>>

\* An outcome is settled: the lease goes when it was recorded, and further
\* calls are refused when it was not.
Settled(c) ==
    /\ Answered(c, "interrupt") \/ Answered(c, "outcome")
    /\ Return(c, IF pc[c] = "interrupt" THEN "blocked" ELSE "done")
    /\ IF answer[c] = "recorded"
       THEN RemoveActiveCall(IdOf[c]) /\ UNCHANGED poisoned
       ELSE poisoned' = TRUE /\ UNCHANGED <<held, exclusive, released, mutating>>
    /\ UNCHANGED <<shutting, shutdown, project, ledger, history>>

-----------------------------------------------------------------------------
(* The tool itself, run by Pi, and tool_result                             *)

ToolChanges(c) ==
    /\ pc[c] = "allowed"
    /\ Kind[c] = "mutate"
    /\ version < MaxVersion
    /\ version' = version + 1
    /\ Go(c, "ran")
    /\ UNCHANGED <<guard, answer, subject, shutdown, policy, ledger, history>>

\* A result without a release cannot be accounted for.
UnknownResult(c) ==
    /\ pc[c] \in {"allowed", "ran"}
    /\ released[IdOf[c]] = NoSubject
    /\ poisoned' = TRUE
    /\ Return(c, "done")
    /\ UNCHANGED <<held, exclusive, released, mutating, shutting, shutdown,
                   project, ledger, history>>

Result(c) ==
    /\ pc[c] \in {"allowed", "ran"}
    /\ released[IdOf[c]] # NoSubject
    /\ subject' = [subject EXCEPT ![c] = released[IdOf[c]]]
    /\ Send(c, "outcome")
    /\ UNCHANGED <<guard, shutdown, project, ledger, history>>

-----------------------------------------------------------------------------
(* session_shutdown                                                        *)

\* Mutant: the run is closed as completed whatever was still active.
WasInterrupted_Never == FALSE
WasInterrupted == held # {} \/ poisoned

\* The handler gives up and keeps refusing: nothing more is recorded.
Stuck(lost) ==
    /\ sd' = "ended"
    /\ poisoned' = TRUE
    /\ unrecorded' = lost

\* The loop runs on to the next lease with a release, whose interruption it
\* awaits, or to its end.  Leases without a release are passed.  The code visits
\* the leases in the order they were taken; here any order will do.
Sweep(passed, lost) ==
    LET rest == {i \in held \ passed : released[i] # NoSubject}
        bare == {i \in held : released[i] = NoSubject}
    IN /\ sanswer' = "none"
       /\ IF rest # {}
          THEN \E i \in rest, skip \in SUBSET bare :
                  /\ visited' = passed \cup skip \cup {i}
                  /\ awaited' = released[i]
                  /\ sd' = "record"
                  /\ unrecorded' = lost
                  /\ UNCHANGED poisoned
          ELSE /\ visited' = passed \cup held
               /\ awaited' = NoSubject
               /\ IF lost THEN Stuck(lost)
                  ELSE sd' = "cleanup" /\ unrecorded' = lost /\ UNCHANGED poisoned

BeginShutdown ==
    /\ sd = "off"
    /\ shutting' = TRUE
    /\ interrupted' = WasInterrupted
    /\ Sweep({}, FALSE)
    /\ UNCHANGED <<held, exclusive, released, mutating, handlers, project,
                   ledger, history>>

InterruptionAnswered ==
    /\ sd = "record" /\ sanswer # "none"
    /\ Sweep(visited, unrecorded \/ sanswer = "failed")
    /\ UNCHANGED <<held, exclusive, released, mutating, shutting, interrupted,
                   handlers, project, ledger, history>>

\* Mutant: a failed cleanup or close is not noticed.
ClosingFailed_Ignored ==
    /\ sd \in {"cleanup", "close"} /\ sanswer = "failed"
    /\ sd' = "ended"
    /\ poisoned' = FALSE /\ shutting' = FALSE
    /\ UNCHANGED <<held, exclusive, released, mutating, sanswer, visited,
                   awaited, interrupted, unrecorded, handlers, project, ledger,
                   history>>

ClosingFailed ==
    /\ sd \in {"cleanup", "close"} /\ sanswer = "failed"
    /\ Stuck(unrecorded)
    /\ UNCHANGED <<held, exclusive, released, mutating, shutting, sanswer,
                   visited, awaited, interrupted, handlers, project, ledger, history>>

CleanedUp ==
    /\ sd = "cleanup" /\ sanswer = "recorded"
    /\ sd' = "close" /\ sanswer' = "none"
    /\ UNCHANGED <<guard, visited, awaited, interrupted, unrecorded, handlers,
                   project, ledger, history>>

\* The run is closed: every lease, the poison and the flag are cleared.
Closed ==
    /\ sd = "close" /\ sanswer = "recorded"
    /\ sd' = "ended"
    /\ held' = {} /\ exclusive' = {}
    /\ released' = [i \in Ids |-> NoSubject]
    /\ mutating' = NoCall
    /\ poisoned' = FALSE /\ shutting' = FALSE
    /\ UNCHANGED <<sanswer, visited, awaited, interrupted, unrecorded, handlers,
                   project, ledger, history>>

-----------------------------------------------------------------------------
(* The core: what each request commits, and answers                        *)

Answer(c, a) == answer' = [answer EXCEPT ![c] = a]

\* The ledger takes a transition of a running run only.
Open == run = "running"

CorePlan(c) ==
    /\ pc[c] = "plan" /\ answer[c] = "none"
    /\ Answer(c, IF Open /\ runtime THEN Verdict(c, Current(c)) ELSE "failed")
    /\ UNCHANGED <<guard, pc, subject, shutdown, project, ledger, history>>

\* The transaction checks the gate runtime first.
CoreStart(c) ==
    /\ pc[c] \in {"advance", "readvance"} /\ answer[c] = "none"
    /\ Answer(c, IF runtime THEN "working" ELSE "failed")
    /\ UNCHANGED <<guard, pc, subject, shutdown, project, ledger, history>>

\* Gates that are already proven at this very subject are not run again.
GatesRun(c) == subject[c] # Current(c)

\* A required gate fails, the policy denies, or the passes do not converge.
CoreBlocks(c) ==
    /\ answer[c] = "working"
    /\ GatesRun(c) \/ Verdict(c, Current(c)) = "deny" \/ ~Open
    /\ Answer(c, "blocked")
    /\ UNCHANGED <<guard, pc, subject, shutdown, project, ledger, history>>

\* Only gates not declared safe beside readers may change the workspace.
VersionAfterGates(c) ==
    IF GatesRun(c) /\ Verdict(c, Current(c)) \in {"ask", "gated"}
    THEN {version, version + 1} \cap (0..MaxVersion) ELSE {version}

\* Mutant: the release is written, not created once.
CoreAdvance_Overwrites(c) ==
    /\ answer[c] = "working"
    /\ Open
    /\ Verdict(c, Current(c)) # "deny"
    /\ version' \in VersionAfterGates(c)
    /\ LET s == [Current(c) EXCEPT !.version = version']
       IN /\ subject' = [subject EXCEPT ![c] = s]
          /\ IF Verdict(c, s) = "ask" /\ s \notin approvals
             THEN Answer(c, "approval_required") /\ UNCHANGED <<approvals, releases>>
             ELSE /\ Answer(c, "released")
                  /\ releases' = releases \cup {s}
                  /\ approvals' = approvals \ {s}
    /\ UNCHANGED <<guard, pc, shutdown, policy, run, runtime, outcomes, history>>

\* A passing verification commits its release, which consumes the approval.
CoreAdvance(c) ==
    /\ answer[c] = "working"
    /\ Open
    /\ Verdict(c, Current(c)) # "deny"
    /\ version' \in VersionAfterGates(c)
    /\ LET s == [Current(c) EXCEPT !.version = version']
       IN /\ subject' = [subject EXCEPT ![c] = s]
          /\ IF Verdict(c, s) = "ask" /\ s \notin approvals
             THEN /\ Answer(c, "approval_required")
                  /\ UNCHANGED <<approvals, releases>>
             ELSE IF s \in releases           \* created once
             THEN Answer(c, "failed") /\ UNCHANGED <<approvals, releases>>
             ELSE /\ Answer(c, "released")
                  /\ releases' = releases \cup {s}
                  /\ approvals' = approvals \ {s}
    /\ UNCHANGED <<guard, pc, shutdown, policy, run, runtime, outcomes, history>>

\* Mutant: the response is recorded for whatever the subject is by now.
CoreApprove_Unbound(c) ==
    /\ pc[c] = "approve" /\ answer[c] = "none"
    /\ Answer(c, "recorded")
    /\ approvals' = approvals \cup {Current(c)}
    /\ UNCHANGED <<guard, pc, subject, shutdown, project, run, runtime, releases,
                   outcomes, history>>

\* record-approval plans again, with the files the call names instead of the
\* files that are changed: the binding must still be the one asked about.
SubjectHolds(c) == subject[c] = Current(c) /\ c \notin Targeted

CoreApprove(c) ==
    /\ pc[c] \in {"approve", "decline"} /\ answer[c] = "none"
    /\ IF Open /\ runtime /\ SubjectHolds(c)
       THEN /\ Answer(c, "recorded")
            /\ approvals' = IF pc[c] = "approve" THEN approvals \cup {subject[c]}
                            ELSE approvals \ {subject[c]}
       ELSE Answer(c, "failed") /\ UNCHANGED approvals
    /\ UNCHANGED <<guard, pc, subject, shutdown, project, run, runtime, releases,
                   outcomes, history>>

\* An outcome is created once, for a release.
CoreOutcome(c) ==
    /\ pc[c] \in {"interrupt", "outcome"} /\ answer[c] = "none"
    /\ IF Open /\ subject[c] \notin outcomes
       THEN Answer(c, "recorded") /\ outcomes' = outcomes \cup {subject[c]}
       ELSE Answer(c, "failed") /\ UNCHANGED outcomes
    /\ UNCHANGED <<guard, pc, subject, shutdown, project, run, runtime, approvals,
                   releases, history>>

CoreInterruption ==
    /\ sd = "record" /\ sanswer = "none"
    /\ IF Open /\ awaited \notin outcomes
       THEN sanswer' = "recorded" /\ outcomes' = outcomes \cup {awaited}
       ELSE sanswer' = "failed" /\ UNCHANGED outcomes
    /\ UNCHANGED <<guard, handlers, sd, visited, awaited, interrupted, unrecorded,
                   project, run, runtime, approvals, releases, history>>

CoreCleanup ==
    /\ sd = "cleanup" /\ sanswer = "none"
    /\ sanswer' = "recorded"
    /\ runtime' = FALSE
    /\ UNCHANGED <<guard, handlers, sd, visited, awaited, interrupted, unrecorded,
                   project, run, approvals, releases, outcomes, history>>

CoreClose ==
    /\ sd = "close" /\ sanswer = "none"
    /\ sanswer' = "recorded"
    /\ run' = IF interrupted THEN "interrupted" ELSE "completed"
    /\ UNCHANGED <<guard, handlers, sd, visited, awaited, interrupted, unrecorded,
                   project, runtime, approvals, releases, outcomes, history>>

\* A subprocess is killed, or its answer lost, before or after it committed.
Lost(c) ==
    /\ edits + faults < MaxTroubles
    /\ pc[c] \in {"plan", "advance", "approve", "decline", "readvance",
                  "interrupt", "outcome"}
    /\ answer[c] # "failed"
    /\ Answer(c, "failed")
    /\ faults' = faults + 1
    /\ UNCHANGED <<guard, pc, subject, shutdown, project, ledger, edits, consents>>

LostInShutdown ==
    /\ edits + faults < MaxTroubles
    /\ sd \in {"record", "cleanup", "close"}
    /\ sanswer # "failed"
    /\ sanswer' = "failed"
    /\ faults' = faults + 1
    /\ UNCHANGED <<guard, handlers, sd, visited, awaited, interrupted, unrecorded,
                   project, ledger, edits, consents>>

\* The user, who is not confined to the session, edits the project.
UserEdits ==
    /\ edits + faults < MaxTroubles
    /\ edits' = edits + 1
    /\ policy' \in Policies
    /\ version' \in {version, version + 1} \cap (0..MaxVersion)
    /\ UNCHANGED <<guard, handlers, shutdown, ledger, faults, consents>>

-----------------------------------------------------------------------------
Handler(c) ==
    \/ Reject(c) \/ Overlap(c) \/ Lease(c)
    \/ PlanRefused(c) \/ Planned(c)
    \/ AdvanceRefused(c) \/ Ask(c) \/ \E yes \in BOOLEAN : Select(c, yes)
    \/ NotApproved(c) \/ Approved(c) \/ ReadvanceRefused(c)
    \/ Vanished(c) \/ Release(c) \/ Settled(c)
    \/ UnknownResult(c) \/ Result(c)

Core(c) == CorePlan(c) \/ CoreStart(c) \/ CoreBlocks(c) \/ CoreAdvance(c)
           \/ CoreApprove(c) \/ CoreOutcome(c) \/ Lost(c)

Shutdown == BeginShutdown \/ InterruptionAnswered \/ ClosingFailed \/ CleanedUp
            \/ Closed \/ CoreInterruption \/ CoreCleanup \/ CoreClose
            \/ LostInShutdown

Next == (\E c \in Calls : Handler(c) \/ ToolChanges(c) \/ Core(c)) \/ Shutdown \/ UserEdits

Spec == Init /\ [][Next]_vars

-----------------------------------------------------------------------------
(* Properties                                                              *)

\* Every variable keeps its type.
TypeOK ==
    /\ held \subseteq Ids /\ exclusive \subseteq held
    /\ released \in [Ids -> Subject \cup {NoSubject}]
    /\ mutating \in Ids \cup {NoCall}
    /\ poisoned \in BOOLEAN /\ shutting \in BOOLEAN
    /\ pc \in [Calls -> {"idle", "plan", "advance", "select", "approve",
                         "decline", "readvance", "interrupt", "allowed",
                         "ran", "outcome", "blocked", "done"}]
    /\ answer \in [Calls -> Verdicts \cup {"none", "working", "failed", "blocked",
                            "approval_required", "released", "recorded"}]
    /\ subject \in [Calls -> Subject \cup {NoSubject}]
    /\ sd \in {"off", "record", "cleanup", "close", "ended"}
    /\ sanswer \in {"none", "recorded", "failed"}
    /\ visited \subseteq Ids
    /\ awaited \in Subject \cup {NoSubject}
    /\ interrupted \in BOOLEAN /\ unrecorded \in BOOLEAN
    /\ policy \in Policies /\ version \in 0..MaxVersion
    /\ run \in {"running", "interrupted", "completed"} /\ runtime \in BOOLEAN
    /\ approvals \subseteq Subject /\ releases \subseteq Subject
    /\ outcomes \subseteq Subject /\ consents \subseteq Subject
    /\ edits \in 0..MaxTroubles /\ faults \in 0..MaxTroubles

InProgress(c) == pc[c] \in {"allowed", "ran"}

\* Sibling effects never share pre-mutation evidence: until a call that was
\* released has its own effect, the workspace is the one its gates and approval
\* were about (unless the user edited it from outside).
EvidenceIsFresh ==
    edits = 0 => \A c \in Calls :
        pc[c] = "allowed" => subject[c].version = version

\* A mutating call, one the user was asked about, and one with a gate that is
\* not safe beside readers, is in progress alone.
ExclusiveRunsAlone ==
    edits = 0 => \A c, d \in Calls :
        InProgress(c) /\ InProgress(d) /\ c # d =>
            Kind[c] # "mutate" /\ Verdict(c, subject[c]) = "allow"

\* Every call that is let through has a release in the ledger, one that no
\* other call in progress has and that was not settled before.
OneReleasePerCall ==
    \A c \in Calls : InProgress(c) =>
        /\ subject[c] \in releases
        /\ sd = "off" => subject[c] \notin outcomes
        /\ \A d \in Calls \ {c} : InProgress(d) => subject[d] # subject[c]

\* What policy says to ask about is released only for the very subject the
\* user said yes to.
AskedIsConsented ==
    \A c \in Calls : InProgress(c) /\ Verdict(c, subject[c]) = "ask" =>
        subject[c] \in consents

\* A call that came to its end gives its lease back, unless further calls are
\* refused: nobody is locked out by a call that is over.
LeasesReturn ==
    /\ mutating # NoCall => mutating \in exclusive
    /\ ~poisoned => \A i \in held :
          \E c \in Calls : IdOf[c] = i /\ pc[c] \notin {"idle", "blocked", "done"}

\* A run closed as completed has an outcome for every release, if no request
\* was lost and the user did not edit.
CompletedIsSettled ==
    run = "completed" /\ faults = 0 /\ edits = 0 => releases = outcomes

\* Poison is lifted only when the run is closed, so that no later call can be
\* authorized.
PoisonUntilClosed == [][poisoned /\ ~poisoned' => run # "running"]_vars

(* What the documentation promises and the guard does not keep             *)

\* "The guard retains that identity until the matching result and records
\* success, error, cancellation, or shutdown interruption before clearing the
\* in-flight lease": no release is left without an outcome when the run closes.
ClosedIsSettled == run # "running" => releases = outcomes

\* Shutdown closes the run unless a request was lost.
ShutdownCloses == sd = "ended" /\ faults = 0 => run # "running"

\* "The response is recorded as authenticated durable evidence for the exact
\* authorization binding": the user's yes is recorded if nothing changed since.
ConsentIsRecorded ==
    \A c \in Calls :
        pc[c] = "approve" /\ answer[c] = "failed" /\ faults = 0 /\ run = "running"
            => ~runtime \/ subject[c] # Current(c)
=============================================================================
