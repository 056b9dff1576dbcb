---------------------------- MODULE PiGuardProofs ----------------------------
(***************************************************************************)
(* Proofs about PiGuard: every safety property of a session, for any calls, *)
(* identities, policies and bounds.                                         *)
(*                                                                          *)
(* The invariant has a part for each question.  While the run is open, a    *)
(* call in flight owns the lease of its identity (Own), and a lease that    *)
(* must be exclusive is the only one (Leases, Exclusive); hence releases    *)
(* that stand together are compatible (Pairs), and no sibling makes the     *)
(* evidence of another stale (Evidence).  After the run is closed leases no *)
(* longer mean this, but no release is committed any more.  Every release   *)
(* is some call's to settle (Carried) until a shutdown that finds no lease  *)
(* finds everything settled (Quiet).                                        *)
(***************************************************************************)
EXTENDS PiGuard, TLAPS

\* A call between its lease and its end; one that its plan let through; one
\* whose release is committed and that has not had its result yet.
Active(c)  == pc[c] \notin {"idle", "blocked", "done"}
Cleared(c) == Active(c) /\ pc[c] # "plan"
Asking(c)  == pc[c] \in {"advance", "readvance"}
Granted(c) == (Asking(c) /\ answer[c] = "released") \/ InProgress(c)

\* Answers and subjects belong to what a call awaits.
Answers_OK(c) ==
    /\ answer[c] = "working" => Asking(c)
    /\ pc[c] = "plan" => answer[c] \in Verdicts \cup {"none", "failed"}
    /\ \/ pc[c] \in {"select", "approve", "decline", "interrupt", "allowed", "ran", "outcome"}
       \/ Asking(c) /\ answer[c] \in {"approval_required", "released"}
       => subject[c] \in Subject

\* The types, of what is awaited too.
Typed == /\ TypeOK
         /\ \A c \in Calls : Answers_OK(c)
         /\ sd = "record" => awaited \in Subject

\* A lease is held for a call in flight, an exclusive one alone.
Leases == LeasesReturn /\ (mutating # NoCall => held = {mutating})

\* Shutdown refuses new calls until it has closed the run.
Closing ==
    /\ sd = "off" => ~shutting /\ run = "running"
    /\ sd \in {"record", "cleanup", "close"} => shutting
    /\ sd = "close" /\ sanswer = "recorded" => run # "running"
    /\ sd = "ended" /\ run = "running" => shutting /\ poisoned

\* While the run is open no two calls in progress share an identity.
Own ==
    run = "running" => \A c \in Calls : Active(c) =>
        /\ IdOf[c] \in held
        /\ \A d \in Calls \ {c} : Active(d) => IdOf[d] # IdOf[c]
        /\ pc[c] \in {"allowed", "ran", "interrupt", "outcome"} => released[IdOf[c]] = subject[c]

\* Releases stand apart from each other and from outcomes.
Fresh ==
    /\ outcomes \subseteq releases
    /\ \A i \in Ids : released[i] \in releases \cup {NoSubject}
    /\ sd = "record" => awaited \in releases
    /\ \A c \in Calls :
        /\ Granted(c) \/ pc[c] \in {"interrupt", "outcome"} => subject[c] \in releases
        /\ \A d \in Calls \ {c} : Granted(c) /\ Granted(d) => subject[d] # subject[c]
    /\ sd = "off" => \A c \in Calls :
        /\ pc[c] # "interrupt"
        /\ Granted(c) => /\ subject[c] \notin outcomes
                         /\ \A d \in Calls \ {c} : pc[d] = "outcome" => subject[d] # subject[c]

\* Approvals, and what was released on one, were consented to.
Consented ==
    /\ approvals \subseteq consents
    /\ \A c \in Calls :
          /\ pc[c] = "approve" => subject[c] \in consents
          /\ Granted(c) /\ Verdict(c, subject[c]) = "ask" => subject[c] \in consents

\* Calls that must be alone from here on.
Needs(c) == Kind[c] = "mutate" \/ (Cleared(c) /\ policy[Kind[c]] \in {"ask", "gated"})

\* Without edits there is one policy, and every verdict is its.
SamePolicy ==
    edits = 0 =>
        /\ \A i \in Ids : released[i] # NoSubject => released[i].policy = policy
        /\ \A c \in Calls :
              /\ subject[c] # NoSubject => subject[c].policy = policy
              /\ pc[c] = "plan" /\ answer[c] \in Verdicts => answer[c] = policy[Kind[c]]
              /\ Granted(c) => policy[Kind[c]] # "deny"

\* ... and a call that must be alone has the mutating lease.
Exclusive ==
    edits = 0 /\ run = "running" => \A c \in Calls : Active(c) /\ Needs(c) => mutating = IdOf[c]

\* Of two standing releases neither had to be alone.
Pairs ==
   edits = 0 => \A c, d \in Calls : Granted(c) /\ Granted(d) /\ c # d =>
      Kind[c] # "mutate" /\ Verdict(c, subject[c]) = "allow"

\* A release that has changed nothing yet is about the workspace there is.
Evidence ==
   edits = 0 => \A c \in Calls : Granted(c) /\ pc[c] # "ran" => subject[c].version = version

\* Who is asked about is one the policy asks about, and what was recorded is
\* in the ledger.
Asked ==
    /\ edits = 0 => \A c \in Calls :
          \/ pc[c] \in {"select", "approve", "decline", "readvance"}
          \/ pc[c] = "advance" /\ answer[c] = "approval_required"
          => policy[Kind[c]] = "ask"
    /\ \A c \in Calls : pc[c] = "outcome" /\ answer[c] = "recorded" => subject[c] \in outcomes

\* A release without an outcome is some call's to settle.
Carrier(c) == Granted(c) \/ pc[c] = "outcome"
Carried ==
    edits = 0 /\ faults = 0 /\ sd = "off" /\ ~poisoned =>
        \A s \in releases \ outcomes : \E c \in Calls : Carrier(c) /\ subject[c] = s

\* A shutdown that had nothing to interrupt finds everything settled.
Quiet ==
    /\ run = "completed" => ~interrupted
    /\ edits = 0 /\ faults = 0 /\ sd # "off" /\ ~interrupted =>
          /\ releases = outcomes
          /\ run = "running" => \A c \in Calls : ~Active(c)

-----------------------------------------------------------------------------
\* A handler that gives up.
Refused(c) == PlanRefused(c) \/ AdvanceRefused(c) \/ NotApproved(c)
              \/ ReadvanceRefused(c) \/ Vanished(c)

USE DEF guard, handlers, shutdown, project, ledger, history

\* What the core observes of a call is a subject of it.
LEMMA CurrentIs ==
    ASSUME TypeOK, NEW c \in Calls
    PROVE  /\ Current(c) \in Subject
           /\ Current(c).policy = policy /\ Current(c).version = version
           /\ Verdict(c, Current(c)) = policy[Kind[c]]
           /\ policy[Kind[c]] \in Verdicts
  BY ConstantsAssumption DEF TypeOK, Current, Subject, Verdict, Policy

\* What a verification commits, in terms of the subject it ends at.
CommitsAs(c, s) ==
    /\ s.policy = policy /\ s.version = version' /\ Verdict(c, s) = policy[Kind[c]]
    /\ subject' = [subject EXCEPT ![c] = s]
    /\ \/ /\ Verdict(c, s) = "ask"
          /\ answer' = [answer EXCEPT ![c] = "approval_required"]
          /\ UNCHANGED <<approvals, releases>>
       \/ /\ answer' = [answer EXCEPT ![c] = "failed"]
          /\ UNCHANGED <<approvals, releases>>
       \/ /\ Verdict(c, s) = "ask" => s \in approvals
          /\ s \notin releases
          /\ answer' = [answer EXCEPT ![c] = "released"]
          /\ releases' = releases \cup {s}
          /\ approvals' = approvals \ {s}

\* There is such a subject.
LEMMA AdvanceCommits ==
    ASSUME Typed, NEW c \in Calls, CoreAdvance(c)
    PROVE  \E s \in Subject : CommitsAs(c, s)
  <1> DEFINE s == [Current(c) EXCEPT !.version = version']
  <1>1. version' \in 0..MaxVersion
    BY DEF CoreAdvance, VersionAfterGates, Typed, TypeOK
  <1>2. /\ s \in Subject /\ s.policy = policy /\ s.version = version'
        /\ Verdict(c, s) = policy[Kind[c]]
    BY <1>1, CurrentIs DEF Typed, Subject, Verdict, Current
  <1> HIDE DEF s
  <1> QED
    BY <1>2 DEF CoreAdvance, Answer, CommitsAs, s

\* The rest of it.
LEMMA AdvanceKeeps ==
    ASSUME Typed, NEW c \in Calls, CoreAdvance(c)
    PROVE  /\ answer[c] = "working" /\ Open
           /\ policy[Kind[c]] # "deny"
           /\ version' \in 0..MaxVersion
           /\ version' # version => policy[Kind[c]] \in {"ask", "gated"}
           /\ UNCHANGED <<guard, pc, shutdown, policy, run, runtime, outcomes, history>>
  BY CurrentIs DEF CoreAdvance, VersionAfterGates, Typed, TypeOK

\* It comes from a request, and gives its lease back.
LEMMA RefusedBlocks ==
    ASSUME NEW c \in Calls, Refused(c)
    PROVE  /\ Block(c)
           /\ pc[c] \in {"plan", "advance", "approve", "decline", "readvance"}
  BY DEF Refused, PlanRefused, AdvanceRefused, NotApproved, ReadvanceRefused, Vanished,
      Answered

\* Every step keeps the types.
LEMMA TypedStep ==
    ASSUME Typed, [Next]_vars
    PROVE  Typed'
  <1>1. ASSUME NEW c \in Calls, Reject(c) PROVE Typed'
    BY <1>1 DEF Reject, Go, handlers, Typed, TypeOK, Answers_OK, Asking
  <1>2. ASSUME NEW c \in Calls, Overlap(c) PROVE Typed'
    BY <1>2 DEF Overlap, Go, Typed, TypeOK, Answers_OK, Asking
  <1>3. ASSUME NEW c \in Calls, Lease(c) PROVE Typed'
    BY <1>3, ConstantsAssumption
    DEF Lease, Conflicts, Send, Go, Typed, TypeOK, Answers_OK, Asking
  <1>4. ASSUME NEW c \in Calls, Refused(c) PROVE Typed'
    BY <1>4, RefusedBlocks
    DEF Block, Return, Send, Go, RemoveActiveCall, Typed, TypeOK, Answers_OK, Asking
  <1>5. ASSUME NEW c \in Calls, Planned(c) PROVE Typed'
    BY <1>5
    DEF Planned, NeedsExclusive, IsAlone, Answered, Send, Go, Typed, TypeOK, Answers_OK,
        Asking
  <1>6. ASSUME NEW c \in Calls, Ask(c) PROVE Typed'
    BY <1>6 DEF Ask, Answered, Go, Typed, TypeOK, Answers_OK, Asking
  <1>7. ASSUME NEW c \in Calls, NEW yes \in BOOLEAN, Select(c, yes) PROVE Typed'
    BY <1>7 DEF Select, Send, Go, Typed, TypeOK, Answers_OK, Asking
  <1>8. ASSUME NEW c \in Calls, Approved(c) PROVE Typed'
    BY <1>8 DEF Approved, Answered, Send, Go, Typed, TypeOK, Answers_OK, Asking
  <1>9. ASSUME NEW c \in Calls, Release(c) PROVE Typed'
    BY <1>9
    DEF Release, ReleasedAfterAsk, Answered, Send, Go, Typed, TypeOK, Answers_OK, Asking
  <1>10. ASSUME NEW c \in Calls, Settled(c) PROVE Typed'
    <2>1. CASE answer[c] = "recorded"
      BY <2>1, <1>10, ConstantsAssumption
      DEF Settled, Answered, Return, Send, Go, RemoveActiveCall, Typed, TypeOK, Answers_OK,
          Asking
    <2>2. CASE answer[c] # "recorded"
      BY <2>2, <1>10, ConstantsAssumption
      DEF Settled, Answered, Return, Send, Go, Typed, TypeOK, Answers_OK, Asking
    <2> QED BY <2>1, <2>2
  <1>11. ASSUME NEW c \in Calls, UnknownResult(c) PROVE Typed'
    BY <1>11 DEF UnknownResult, Return, Send, Go, Typed, TypeOK, Answers_OK, Asking
  <1>12. ASSUME NEW c \in Calls, Result(c) PROVE Typed'
    <2>1. IdOf[c] \in Ids /\ released[IdOf[c]] \in Subject
      BY <1>12, ConstantsAssumption DEF Result, Typed, TypeOK
    <2> QED BY <2>1, <1>12 DEF Result, Send, Go, Typed, TypeOK, Answers_OK, Asking
  <1>13. ASSUME NEW c \in Calls, ToolChanges(c) PROVE Typed'
    BY <1>13, ConstantsAssumption DEF ToolChanges, Go, Typed, TypeOK, Answers_OK, Asking
  <1>14. ASSUME NEW c \in Calls, CorePlan(c) PROVE Typed'
    <2>1. Verdict(c, Current(c)) \in Verdicts
      BY CurrentIs DEF Typed
    <2> QED BY <2>1, <1>14 DEF CorePlan, Answer, Verdicts, Typed, TypeOK, Answers_OK, Asking
  <1>15. ASSUME NEW c \in Calls, CoreStart(c) PROVE Typed'
    BY <1>15 DEF CoreStart, Answer, Typed, TypeOK, Answers_OK, Asking
  <1>16. ASSUME NEW c \in Calls, CoreBlocks(c) PROVE Typed'
    BY <1>16 DEF CoreBlocks, Answer, Typed, TypeOK, Answers_OK, Asking
  <1>17. ASSUME NEW c \in Calls, CoreAdvance(c) PROVE Typed'
    <2>1. PICK s \in Subject : CommitsAs(c, s)
      BY <1>17, AdvanceCommits
    <2> QED BY <2>1, <1>17, AdvanceKeeps DEF CommitsAs, Typed, TypeOK, Answers_OK, Asking
  <1>18. ASSUME NEW c \in Calls, CoreApprove(c) PROVE Typed'
    BY <1>18 DEF CoreApprove, Answer, Typed, TypeOK, Answers_OK, Asking
  <1>19. ASSUME NEW c \in Calls, CoreOutcome(c) PROVE Typed'
    BY <1>19 DEF CoreOutcome, Answer, Typed, TypeOK, Answers_OK, Asking
  <1>20. ASSUME NEW c \in Calls, Lost(c) PROVE Typed'
    BY <1>20, ConstantsAssumption DEF Lost, Answer, Typed, TypeOK, Answers_OK, Asking
  <1>21. ASSUME BeginShutdown PROVE Typed'
    BY <1>21
    DEF BeginShutdown, Sweep, Stuck, Typed, TypeOK, Answers_OK, Asking, WasInterrupted
  <1>22. ASSUME InterruptionAnswered PROVE Typed'
    BY <1>22 DEF InterruptionAnswered, Sweep, Stuck, Typed, TypeOK, Answers_OK, Asking
  <1>23. ASSUME ClosingFailed PROVE Typed'
    BY <1>23 DEF ClosingFailed, Stuck, Typed, TypeOK, Answers_OK, Asking
  <1>24. ASSUME CleanedUp PROVE Typed'
    BY <1>24 DEF CleanedUp, Typed, TypeOK, Answers_OK, Asking
  <1>25. ASSUME Closed PROVE Typed'
    BY <1>25 DEF Closed, Typed, TypeOK, Answers_OK, Asking
  <1>26. ASSUME CoreInterruption PROVE Typed'
    BY <1>26 DEF CoreInterruption, Typed, TypeOK, Answers_OK, Asking
  <1>27. ASSUME CoreCleanup PROVE Typed'
    BY <1>27 DEF CoreCleanup, Typed, TypeOK, Answers_OK, Asking
  <1>28. ASSUME CoreClose PROVE Typed'
    BY <1>28 DEF CoreClose, Typed, TypeOK, Answers_OK, Asking
  <1>29. ASSUME LostInShutdown PROVE Typed'
    BY <1>29, ConstantsAssumption DEF LostInShutdown, Typed, TypeOK, Answers_OK, Asking
  <1>30. ASSUME UserEdits PROVE Typed'
    BY <1>30, ConstantsAssumption DEF UserEdits, Typed, TypeOK, Answers_OK, Asking
  <1>31. ASSUME UNCHANGED vars PROVE Typed'
    BY <1>31 DEF Typed, TypeOK, Answers_OK, Asking, vars
  <1> QED
    BY <1>1, <1>2, <1>3, <1>4, <1>5, <1>6, <1>7, <1>8, <1>9, <1>10, <1>11, <1>12, <1>13,
       <1>14, <1>15, <1>16, <1>17, <1>18, <1>19, <1>20, <1>21, <1>22, <1>23, <1>24,
       <1>25, <1>26, <1>27, <1>28, <1>29, <1>30, <1>31
    DEF Next, Handler, Core, Shutdown, Refused

\* Every step keeps the leases with calls in flight.
LEMMA LeasesStep ==
    ASSUME Typed, Leases, [Next]_vars
    PROVE  Leases'
  <1>1. ASSUME NEW c \in Calls, Reject(c) PROVE Leases'
    BY <1>1 DEF Reject, Go, handlers, Leases, LeasesReturn, Typed, TypeOK
  <1>2. ASSUME NEW c \in Calls, Overlap(c) PROVE Leases'
    BY <1>2 DEF Overlap, Go, Leases, LeasesReturn, Typed, TypeOK
  <1>3. ASSUME NEW c \in Calls, Lease(c) PROVE Leases'
    BY <1>3 DEF Lease, Conflicts, Send, Go, Leases, LeasesReturn, Typed, TypeOK
  <1>4. ASSUME NEW c \in Calls, Refused(c) PROVE Leases'
    BY <1>4, RefusedBlocks
    DEF Block, Return, Send, Go, RemoveActiveCall, Leases, LeasesReturn, Typed, TypeOK
  <1>5. ASSUME NEW c \in Calls, Planned(c) PROVE Leases'
    BY <1>5
    DEF Planned, NeedsExclusive, IsAlone, Answered, Send, Go, Leases, LeasesReturn, Typed,
        TypeOK
  <1>6. ASSUME NEW c \in Calls, Ask(c) PROVE Leases'
    BY <1>6 DEF Ask, Answered, Go, Leases, LeasesReturn, Typed, TypeOK
  <1>7. ASSUME NEW c \in Calls, NEW yes \in BOOLEAN, Select(c, yes) PROVE Leases'
    BY <1>7 DEF Select, Send, Go, Leases, LeasesReturn, Typed, TypeOK
  <1>8. ASSUME NEW c \in Calls, Approved(c) PROVE Leases'
    BY <1>8 DEF Approved, Answered, Send, Go, Leases, LeasesReturn, Typed, TypeOK
  <1>9. ASSUME NEW c \in Calls, Release(c) PROVE Leases'
    BY <1>9
    DEF Release, ReleasedAfterAsk, Answered, Send, Go, Leases, LeasesReturn, Typed, TypeOK
  <1>10. ASSUME NEW c \in Calls, Settled(c) PROVE Leases'
    BY <1>10
    DEF Settled, Answered, Return, Send, Go, RemoveActiveCall, Leases, LeasesReturn, Typed,
        TypeOK
  <1>11. ASSUME NEW c \in Calls, UnknownResult(c) PROVE Leases'
    BY <1>11 DEF UnknownResult, Return, Send, Go, Leases, LeasesReturn, Typed, TypeOK
  <1>12. ASSUME NEW c \in Calls, Result(c) PROVE Leases'
    BY <1>12 DEF Result, Send, Go, Leases, LeasesReturn, Typed, TypeOK
  <1>13. ASSUME NEW c \in Calls, ToolChanges(c) PROVE Leases'
    BY <1>13 DEF ToolChanges, Go, Leases, LeasesReturn, Typed, TypeOK
  <1>14. ASSUME NEW c \in Calls, CorePlan(c) PROVE Leases'
    BY <1>14 DEF CorePlan, Answer, Leases, LeasesReturn, Typed, TypeOK
  <1>15. ASSUME NEW c \in Calls, CoreStart(c) PROVE Leases'
    BY <1>15 DEF CoreStart, Answer, Leases, LeasesReturn, Typed, TypeOK
  <1>16. ASSUME NEW c \in Calls, CoreBlocks(c) PROVE Leases'
    BY <1>16 DEF CoreBlocks, Answer, Leases, LeasesReturn, Typed, TypeOK
  <1>17. ASSUME NEW c \in Calls, CoreAdvance(c) PROVE Leases'
    BY <1>17, AdvanceKeeps DEF Leases, LeasesReturn
  <1>18. ASSUME NEW c \in Calls, CoreApprove(c) PROVE Leases'
    BY <1>18 DEF CoreApprove, Answer, Leases, LeasesReturn, Typed, TypeOK
  <1>19. ASSUME NEW c \in Calls, CoreOutcome(c) PROVE Leases'
    BY <1>19 DEF CoreOutcome, Answer, Leases, LeasesReturn, Typed, TypeOK
  <1>20. ASSUME NEW c \in Calls, Lost(c) PROVE Leases'
    BY <1>20 DEF Lost, Answer, Leases, LeasesReturn, Typed, TypeOK
  <1>21. ASSUME BeginShutdown PROVE Leases'
    BY <1>21 DEF BeginShutdown, Sweep, Stuck, Leases, LeasesReturn, Typed, TypeOK
  <1>22. ASSUME InterruptionAnswered PROVE Leases'
    BY <1>22 DEF InterruptionAnswered, Sweep, Stuck, Leases, LeasesReturn, Typed, TypeOK
  <1>23. ASSUME ClosingFailed PROVE Leases'
    BY <1>23 DEF ClosingFailed, Stuck, Leases, LeasesReturn, Typed, TypeOK
  <1>24. ASSUME CleanedUp PROVE Leases'
    BY <1>24 DEF CleanedUp, Leases, LeasesReturn, Typed, TypeOK
  <1>25. ASSUME Closed PROVE Leases'
    BY <1>25 DEF Closed, Leases, LeasesReturn, Typed, TypeOK
  <1>26. ASSUME CoreInterruption PROVE Leases'
    BY <1>26 DEF CoreInterruption, Leases, LeasesReturn, Typed, TypeOK
  <1>27. ASSUME CoreCleanup PROVE Leases'
    BY <1>27 DEF CoreCleanup, Leases, LeasesReturn, Typed, TypeOK
  <1>28. ASSUME CoreClose PROVE Leases'
    BY <1>28 DEF CoreClose, Leases, LeasesReturn, Typed, TypeOK
  <1>29. ASSUME LostInShutdown PROVE Leases'
    BY <1>29 DEF LostInShutdown, Leases, LeasesReturn, Typed, TypeOK
  <1>30. ASSUME UserEdits PROVE Leases'
    BY <1>30 DEF UserEdits, Leases, LeasesReturn, Typed, TypeOK
  <1>31. ASSUME UNCHANGED vars PROVE Leases'
    BY <1>31 DEF Leases, LeasesReturn, Typed, TypeOK, vars
  <1> QED
    BY <1>1, <1>2, <1>3, <1>4, <1>5, <1>6, <1>7, <1>8, <1>9, <1>10, <1>11, <1>12, <1>13,
       <1>14, <1>15, <1>16, <1>17, <1>18, <1>19, <1>20, <1>21, <1>22, <1>23, <1>24,
       <1>25, <1>26, <1>27, <1>28, <1>29, <1>30, <1>31
    DEF Next, Handler, Core, Shutdown, Refused

\* Every step keeps the order of a shutdown.
LEMMA ClosingStep ==
    ASSUME Typed, Closing, [Next]_vars
    PROVE  Closing'
  <1>1. ASSUME NEW c \in Calls, Reject(c) PROVE Closing'
    BY <1>1 DEF Reject, Go, handlers, Closing, Typed, TypeOK
  <1>2. ASSUME NEW c \in Calls, Overlap(c) PROVE Closing'
    BY <1>2 DEF Overlap, Go, Closing, Typed, TypeOK
  <1>3. ASSUME NEW c \in Calls, Lease(c) PROVE Closing'
    BY <1>3 DEF Lease, Conflicts, Send, Go, Closing, Typed, TypeOK
  <1>4. ASSUME NEW c \in Calls, Refused(c) PROVE Closing'
    BY <1>4, RefusedBlocks
    DEF Block, Return, Send, Go, RemoveActiveCall, Closing, Typed, TypeOK
  <1>5. ASSUME NEW c \in Calls, Planned(c) PROVE Closing'
    BY <1>5 DEF Planned, NeedsExclusive, IsAlone, Answered, Send, Go, Closing, Typed, TypeOK
  <1>6. ASSUME NEW c \in Calls, Ask(c) PROVE Closing'
    BY <1>6 DEF Ask, Answered, Go, Closing, Typed, TypeOK
  <1>7. ASSUME NEW c \in Calls, NEW yes \in BOOLEAN, Select(c, yes) PROVE Closing'
    BY <1>7 DEF Select, Send, Go, Closing, Typed, TypeOK
  <1>8. ASSUME NEW c \in Calls, Approved(c) PROVE Closing'
    BY <1>8 DEF Approved, Answered, Send, Go, Closing, Typed, TypeOK
  <1>9. ASSUME NEW c \in Calls, Release(c) PROVE Closing'
    BY <1>9 DEF Release, ReleasedAfterAsk, Answered, Send, Go, Closing, Typed, TypeOK
  <1>10. ASSUME NEW c \in Calls, Settled(c) PROVE Closing'
    BY <1>10
    DEF Settled, Answered, Return, Send, Go, RemoveActiveCall, Closing, Typed, TypeOK
  <1>11. ASSUME NEW c \in Calls, UnknownResult(c) PROVE Closing'
    BY <1>11 DEF UnknownResult, Return, Send, Go, Closing, Typed, TypeOK
  <1>12. ASSUME NEW c \in Calls, Result(c) PROVE Closing'
    BY <1>12 DEF Result, Send, Go, Closing, Typed, TypeOK
  <1>13. ASSUME NEW c \in Calls, ToolChanges(c) PROVE Closing'
    BY <1>13 DEF ToolChanges, Go, Closing, Typed, TypeOK
  <1>14. ASSUME NEW c \in Calls, CorePlan(c) PROVE Closing'
    BY <1>14 DEF CorePlan, Answer, Closing, Typed, TypeOK
  <1>15. ASSUME NEW c \in Calls, CoreStart(c) PROVE Closing'
    BY <1>15 DEF CoreStart, Answer, Closing, Typed, TypeOK
  <1>16. ASSUME NEW c \in Calls, CoreBlocks(c) PROVE Closing'
    BY <1>16 DEF CoreBlocks, Answer, Closing, Typed, TypeOK
  <1>17. ASSUME NEW c \in Calls, CoreAdvance(c) PROVE Closing'
    BY <1>17, AdvanceKeeps DEF Closing
  <1>18. ASSUME NEW c \in Calls, CoreApprove(c) PROVE Closing'
    BY <1>18 DEF CoreApprove, Answer, Closing, Typed, TypeOK
  <1>19. ASSUME NEW c \in Calls, CoreOutcome(c) PROVE Closing'
    BY <1>19 DEF CoreOutcome, Answer, Closing, Typed, TypeOK
  <1>20. ASSUME NEW c \in Calls, Lost(c) PROVE Closing'
    BY <1>20 DEF Lost, Answer, Closing, Typed, TypeOK
  <1>21. ASSUME BeginShutdown PROVE Closing'
    BY <1>21 DEF BeginShutdown, Sweep, Stuck, Closing, Typed, TypeOK
  <1>22. ASSUME InterruptionAnswered PROVE Closing'
    BY <1>22 DEF InterruptionAnswered, Sweep, Stuck, Closing, Typed, TypeOK
  <1>23. ASSUME ClosingFailed PROVE Closing'
    BY <1>23 DEF ClosingFailed, Stuck, Closing, Typed, TypeOK
  <1>24. ASSUME CleanedUp PROVE Closing'
    BY <1>24 DEF CleanedUp, Closing, Typed, TypeOK
  <1>25. ASSUME Closed PROVE Closing'
    BY <1>25 DEF Closed, Closing, Typed, TypeOK
  <1>26. ASSUME CoreInterruption PROVE Closing'
    BY <1>26 DEF CoreInterruption, Closing, Typed, TypeOK
  <1>27. ASSUME CoreCleanup PROVE Closing'
    BY <1>27 DEF CoreCleanup, Closing, Typed, TypeOK
  <1>28. ASSUME CoreClose PROVE Closing'
    BY <1>28 DEF CoreClose, Closing, Typed, TypeOK
  <1>29. ASSUME LostInShutdown PROVE Closing'
    BY <1>29 DEF LostInShutdown, Closing, Typed, TypeOK
  <1>30. ASSUME UserEdits PROVE Closing'
    BY <1>30 DEF UserEdits, Closing, Typed, TypeOK
  <1>31. ASSUME UNCHANGED vars PROVE Closing'
    BY <1>31 DEF Closing, Typed, TypeOK, vars
  <1> QED
    BY <1>1, <1>2, <1>3, <1>4, <1>5, <1>6, <1>7, <1>8, <1>9, <1>10, <1>11, <1>12, <1>13,
       <1>14, <1>15, <1>16, <1>17, <1>18, <1>19, <1>20, <1>21, <1>22, <1>23, <1>24,
       <1>25, <1>26, <1>27, <1>28, <1>29, <1>30, <1>31
    DEF Next, Handler, Core, Shutdown, Refused

\* While the run is open, every step keeps each call its own lease.
LEMMA OwnStep ==
    ASSUME Typed, Leases, Closing, Own, [Next]_vars
    PROVE  Own'
  <1>1. ASSUME NEW c \in Calls, Reject(c) PROVE Own'
    BY <1>1 DEF Reject, Go, handlers, Own, Active, Typed, TypeOK
  <1>2. ASSUME NEW c \in Calls, Overlap(c) PROVE Own'
    BY <1>2 DEF Overlap, Go, Own, Active, Typed, TypeOK
  <1>3. ASSUME NEW c \in Calls, Lease(c) PROVE Own'
    BY <1>3 DEF Lease, Conflicts, Send, Go, Own, Active, Typed, TypeOK
  <1>4. ASSUME NEW c \in Calls, Refused(c) PROVE Own'
    BY <1>4, RefusedBlocks
    DEF Block, Return, Send, Go, RemoveActiveCall, Own, Active, Typed, TypeOK
  <1>5. ASSUME NEW c \in Calls, Planned(c) PROVE Own'
    BY <1>5
    DEF Planned, NeedsExclusive, IsAlone, Answered, Send, Go, Own, Active, Typed, TypeOK
  <1>6. ASSUME NEW c \in Calls, Ask(c) PROVE Own'
    BY <1>6 DEF Ask, Answered, Go, Own, Active, Typed, TypeOK
  <1>7. ASSUME NEW c \in Calls, NEW yes \in BOOLEAN, Select(c, yes) PROVE Own'
    BY <1>7 DEF Select, Send, Go, Own, Active, Typed, TypeOK
  <1>8. ASSUME NEW c \in Calls, Approved(c) PROVE Own'
    BY <1>8 DEF Approved, Answered, Send, Go, Own, Active, Typed, TypeOK
  <1>9. ASSUME NEW c \in Calls, Release(c) PROVE Own'
    BY <1>9 DEF Release, ReleasedAfterAsk, Answered, Send, Go, Own, Active, Typed, TypeOK
  <1>10. ASSUME NEW c \in Calls, Settled(c) PROVE Own'
    BY <1>10
    DEF Settled, Answered, Return, Send, Go, RemoveActiveCall, Own, Active, Typed, TypeOK
  <1>11. ASSUME NEW c \in Calls, UnknownResult(c) PROVE Own'
    BY <1>11 DEF UnknownResult, Return, Send, Go, Own, Active, Typed, TypeOK
  <1>12. ASSUME NEW c \in Calls, Result(c) PROVE Own'
    BY <1>12 DEF Result, Send, Go, Own, Active, Typed, TypeOK
  <1>13. ASSUME NEW c \in Calls, ToolChanges(c) PROVE Own'
    BY <1>13 DEF ToolChanges, Go, Own, Active, Typed, TypeOK
  <1>14. ASSUME NEW c \in Calls, CorePlan(c) PROVE Own'
    BY <1>14 DEF CorePlan, Answer, Own, Active, Typed, TypeOK
  <1>15. ASSUME NEW c \in Calls, CoreStart(c) PROVE Own'
    BY <1>15 DEF CoreStart, Answer, Own, Active, Typed, TypeOK
  <1>16. ASSUME NEW c \in Calls, CoreBlocks(c) PROVE Own'
    BY <1>16 DEF CoreBlocks, Answer, Own, Active, Typed, TypeOK
  <1>17. ASSUME NEW c \in Calls, CoreAdvance(c) PROVE Own'
    BY <1>17, AdvanceCommits, AdvanceKeeps
    DEF CommitsAs, Own, Active, Asking, Typed, TypeOK, Answers_OK
  <1>18. ASSUME NEW c \in Calls, CoreApprove(c) PROVE Own'
    BY <1>18 DEF CoreApprove, Answer, Own, Active, Typed, TypeOK
  <1>19. ASSUME NEW c \in Calls, CoreOutcome(c) PROVE Own'
    BY <1>19 DEF CoreOutcome, Answer, Own, Active, Typed, TypeOK
  <1>20. ASSUME NEW c \in Calls, Lost(c) PROVE Own'
    BY <1>20 DEF Lost, Answer, Own, Active, Typed, TypeOK
  <1>21. ASSUME BeginShutdown PROVE Own'
    BY <1>21 DEF BeginShutdown, Sweep, Stuck, Own, Active, Typed, TypeOK
  <1>22. ASSUME InterruptionAnswered PROVE Own'
    BY <1>22 DEF InterruptionAnswered, Sweep, Stuck, Own, Active, Typed, TypeOK
  <1>23. ASSUME ClosingFailed PROVE Own'
    BY <1>23 DEF ClosingFailed, Stuck, Own, Active, Typed, TypeOK
  <1>24. ASSUME CleanedUp PROVE Own'
    BY <1>24 DEF CleanedUp, Own, Active, Typed, TypeOK
  <1>25. ASSUME Closed PROVE Own'
    BY <1>25 DEF Closed, Own, Active, Typed, TypeOK, Closing
  <1>26. ASSUME CoreInterruption PROVE Own'
    BY <1>26 DEF CoreInterruption, Own, Active, Typed, TypeOK
  <1>27. ASSUME CoreCleanup PROVE Own'
    BY <1>27 DEF CoreCleanup, Own, Active, Typed, TypeOK
  <1>28. ASSUME CoreClose PROVE Own'
    BY <1>28 DEF CoreClose, Own, Active, Typed, TypeOK
  <1>29. ASSUME LostInShutdown PROVE Own'
    BY <1>29 DEF LostInShutdown, Own, Active, Typed, TypeOK
  <1>30. ASSUME UserEdits PROVE Own'
    BY <1>30 DEF UserEdits, Own, Active, Typed, TypeOK
  <1>31. ASSUME UNCHANGED vars PROVE Own'
    BY <1>31 DEF Own, Active, Typed, TypeOK, vars
  <1> QED
    BY <1>1, <1>2, <1>3, <1>4, <1>5, <1>6, <1>7, <1>8, <1>9, <1>10, <1>11, <1>12, <1>13,
       <1>14, <1>15, <1>16, <1>17, <1>18, <1>19, <1>20, <1>21, <1>22, <1>23, <1>24,
       <1>25, <1>26, <1>27, <1>28, <1>29, <1>30, <1>31
    DEF Next, Handler, Core, Shutdown, Refused

\* Every step keeps releases apart.
LEMMA FreshStep ==
    ASSUME Typed, Closing, Own, Fresh, [Next]_vars
    PROVE  Fresh'
  <1>1. ASSUME NEW c \in Calls, Reject(c) PROVE Fresh'
    BY <1>1 DEF Reject, Go, handlers, Fresh, Granted, InProgress, Asking, Typed, TypeOK
  <1>2. ASSUME NEW c \in Calls, Overlap(c) PROVE Fresh'
    BY <1>2 DEF Overlap, Go, Fresh, Granted, InProgress, Asking, Typed, TypeOK
  <1>3. ASSUME NEW c \in Calls, Lease(c) PROVE Fresh'
    BY <1>3
    DEF Lease, Conflicts, Send, Go, Fresh, Granted, InProgress, Asking, Typed, TypeOK
  <1>4. ASSUME NEW c \in Calls, Refused(c) PROVE Fresh'
    BY <1>4, RefusedBlocks
    DEF Block, Return, Send, Go, RemoveActiveCall, Fresh, Granted, InProgress, Asking,
        Typed, TypeOK
  <1>5. ASSUME NEW c \in Calls, Planned(c) PROVE Fresh'
    BY <1>5
    DEF Planned, NeedsExclusive, IsAlone, Answered, Send, Go, Fresh, Granted, InProgress,
        Asking, Typed, TypeOK
  <1>6. ASSUME NEW c \in Calls, Ask(c) PROVE Fresh'
    BY <1>6 DEF Ask, Answered, Go, Fresh, Granted, InProgress, Asking, Typed, TypeOK
  <1>7. ASSUME NEW c \in Calls, NEW yes \in BOOLEAN, Select(c, yes) PROVE Fresh'
    BY <1>7 DEF Select, Send, Go, Fresh, Granted, InProgress, Asking, Typed, TypeOK
  <1>8. ASSUME NEW c \in Calls, Approved(c) PROVE Fresh'
    BY <1>8
    DEF Approved, Answered, Send, Go, Fresh, Granted, InProgress, Asking, Typed, TypeOK
  <1>9. ASSUME NEW c \in Calls, Release(c) PROVE Fresh'
    BY <1>9
    DEF Release, ReleasedAfterAsk, Answered, Send, Go, Fresh, Granted, InProgress, Asking,
        Typed, TypeOK, Closing
  <1>10. ASSUME NEW c \in Calls, Settled(c) PROVE Fresh'
    BY <1>10
    DEF Settled, Answered, Return, Send, Go, RemoveActiveCall, Fresh, Granted, InProgress,
        Asking, Typed, TypeOK, Own, Active
  <1>11. ASSUME NEW c \in Calls, UnknownResult(c) PROVE Fresh'
    BY <1>11
    DEF UnknownResult, Return, Send, Go, Fresh, Granted, InProgress, Asking, Typed, TypeOK
  <1>12. ASSUME NEW c \in Calls, Result(c) PROVE Fresh'
    <2>1. IdOf[c] \in Ids /\ released[IdOf[c]] \in releases /\ Granted(c)
      BY <1>12, ConstantsAssumption DEF Result, Fresh, Granted, InProgress
    <2>2. sd = "off" => released[IdOf[c]] = subject[c]
      BY <1>12 DEF Result, Own, Active, Closing
    <2>3. /\ pc' = [pc EXCEPT ![c] = "outcome"] /\ UNCHANGED <<sd, releases, outcomes, released, awaited>>
          /\ subject' = [subject EXCEPT ![c] = released[IdOf[c]]]
          /\ answer' = [answer EXCEPT ![c] = "none"]
      BY <1>12 DEF Result, Send, Go
    <2> HIDE DEF Granted
    <2>4. \A d \in Calls : Granted(d)' => d # c /\ Granted(d) /\ subject'[d] = subject[d]
      BY <2>3 DEF Granted, InProgress, Asking, Typed, TypeOK
    <2> QED BY <2>1, <2>2, <2>3, <2>4 DEF Fresh, Typed, TypeOK
  <1>13. ASSUME NEW c \in Calls, ToolChanges(c) PROVE Fresh'
    BY <1>13 DEF ToolChanges, Go, Fresh, Granted, InProgress, Asking, Typed, TypeOK
  <1>14. ASSUME NEW c \in Calls, CorePlan(c) PROVE Fresh'
    BY <1>14 DEF CorePlan, Answer, Fresh, Granted, InProgress, Asking, Typed, TypeOK
  <1>15. ASSUME NEW c \in Calls, CoreStart(c) PROVE Fresh'
    BY <1>15 DEF CoreStart, Answer, Fresh, Granted, InProgress, Asking, Typed, TypeOK
  <1>16. ASSUME NEW c \in Calls, CoreBlocks(c) PROVE Fresh'
    BY <1>16 DEF CoreBlocks, Answer, Fresh, Granted, InProgress, Asking, Typed, TypeOK
  <1>17. ASSUME NEW c \in Calls, CoreAdvance(c) PROVE Fresh'
    <2>1. PICK s \in Subject : CommitsAs(c, s)
      BY <1>17, AdvanceCommits
    <2> QED BY <2>1, <1>17, AdvanceKeeps
    DEF CommitsAs, Fresh, Granted, InProgress, Asking, Typed, TypeOK, Answers_OK
  <1>18. ASSUME NEW c \in Calls, CoreApprove(c) PROVE Fresh'
    BY <1>18 DEF CoreApprove, Answer, Fresh, Granted, InProgress, Asking, Typed, TypeOK
  <1>19. ASSUME NEW c \in Calls, CoreOutcome(c) PROVE Fresh'
    BY <1>19
    DEF CoreOutcome, Answer, Fresh, Granted, InProgress, Asking, Typed, TypeOK, Closing,
        Answers_OK
  <1>20. ASSUME NEW c \in Calls, Lost(c) PROVE Fresh'
    BY <1>20 DEF Lost, Answer, Fresh, Granted, InProgress, Asking, Typed, TypeOK
  <1>21. ASSUME BeginShutdown PROVE Fresh'
    BY <1>21
    DEF BeginShutdown, Sweep, Stuck, Fresh, Granted, InProgress, Asking, Typed, TypeOK,
        Closing
  <1>22. ASSUME InterruptionAnswered PROVE Fresh'
    BY <1>22
    DEF InterruptionAnswered, Sweep, Stuck, Fresh, Granted, InProgress, Asking, Typed,
        TypeOK
  <1>23. ASSUME ClosingFailed PROVE Fresh'
    BY <1>23 DEF ClosingFailed, Stuck, Fresh, Granted, InProgress, Asking, Typed, TypeOK
  <1>24. ASSUME CleanedUp PROVE Fresh'
    BY <1>24 DEF CleanedUp, Fresh, Granted, InProgress, Asking, Typed, TypeOK
  <1>25. ASSUME Closed PROVE Fresh'
    BY <1>25 DEF Closed, Fresh, Granted, InProgress, Asking, Typed, TypeOK
  <1>26. ASSUME CoreInterruption PROVE Fresh'
    BY <1>26 DEF CoreInterruption, Fresh, Granted, InProgress, Asking, Typed, TypeOK
  <1>27. ASSUME CoreCleanup PROVE Fresh'
    BY <1>27 DEF CoreCleanup, Fresh, Granted, InProgress, Asking, Typed, TypeOK
  <1>28. ASSUME CoreClose PROVE Fresh'
    BY <1>28 DEF CoreClose, Fresh, Granted, InProgress, Asking, Typed, TypeOK
  <1>29. ASSUME LostInShutdown PROVE Fresh'
    BY <1>29 DEF LostInShutdown, Fresh, Granted, InProgress, Asking, Typed, TypeOK
  <1>30. ASSUME UserEdits PROVE Fresh'
    BY <1>30 DEF UserEdits, Fresh, Granted, InProgress, Asking, Typed, TypeOK
  <1>31. ASSUME UNCHANGED vars PROVE Fresh'
    BY <1>31 DEF Fresh, Granted, InProgress, Asking, Typed, TypeOK, vars
  <1> QED
    BY <1>1, <1>2, <1>3, <1>4, <1>5, <1>6, <1>7, <1>8, <1>9, <1>10, <1>11, <1>12, <1>13,
       <1>14, <1>15, <1>16, <1>17, <1>18, <1>19, <1>20, <1>21, <1>22, <1>23, <1>24,
       <1>25, <1>26, <1>27, <1>28, <1>29, <1>30, <1>31
    DEF Next, Handler, Core, Shutdown, Refused

\* Every step keeps approvals to what was consented to.
LEMMA ConsentedStep ==
    ASSUME Typed, Consented, [Next]_vars
    PROVE  Consented'
  <1>1. ASSUME NEW c \in Calls, Reject(c) PROVE Consented'
    BY <1>1
    DEF Reject, Go, handlers, Consented, Granted, InProgress, Asking, Verdict, Typed, TypeOK
  <1>2. ASSUME NEW c \in Calls, Overlap(c) PROVE Consented'
    BY <1>2 DEF Overlap, Go, Consented, Granted, InProgress, Asking, Verdict, Typed, TypeOK
  <1>3. ASSUME NEW c \in Calls, Lease(c) PROVE Consented'
    BY <1>3
    DEF Lease, Conflicts, Send, Go, Consented, Granted, InProgress, Asking, Verdict, Typed,
        TypeOK
  <1>4. ASSUME NEW c \in Calls, Refused(c) PROVE Consented'
    BY <1>4, RefusedBlocks
    DEF Block, Return, Send, Go, RemoveActiveCall, Consented, Granted, InProgress, Asking,
        Verdict, Typed, TypeOK
  <1>5. ASSUME NEW c \in Calls, Planned(c) PROVE Consented'
    BY <1>5
    DEF Planned, NeedsExclusive, IsAlone, Answered, Send, Go, Consented, Granted,
        InProgress, Asking, Verdict, Typed, TypeOK
  <1>6. ASSUME NEW c \in Calls, Ask(c) PROVE Consented'
    BY <1>6
    DEF Ask, Answered, Go, Consented, Granted, InProgress, Asking, Verdict, Typed, TypeOK
  <1>7. ASSUME NEW c \in Calls, NEW yes \in BOOLEAN, Select(c, yes) PROVE Consented'
    BY <1>7
    DEF Select, Send, Go, Consented, Granted, InProgress, Asking, Verdict, Typed, TypeOK
  <1>8. ASSUME NEW c \in Calls, Approved(c) PROVE Consented'
    BY <1>8
    DEF Approved, Answered, Send, Go, Consented, Granted, InProgress, Asking, Verdict,
        Typed, TypeOK
  <1>9. ASSUME NEW c \in Calls, Release(c) PROVE Consented'
    BY <1>9
    DEF Release, ReleasedAfterAsk, Answered, Send, Go, Consented, Granted, InProgress,
        Asking, Verdict, Typed, TypeOK
  <1>10. ASSUME NEW c \in Calls, Settled(c) PROVE Consented'
    BY <1>10
    DEF Settled, Answered, Return, Send, Go, RemoveActiveCall, Consented, Granted,
        InProgress, Asking, Verdict, Typed, TypeOK
  <1>11. ASSUME NEW c \in Calls, UnknownResult(c) PROVE Consented'
    BY <1>11
    DEF UnknownResult, Return, Send, Go, Consented, Granted, InProgress, Asking, Verdict,
        Typed, TypeOK
  <1>12. ASSUME NEW c \in Calls, Result(c) PROVE Consented'
    BY <1>12
    DEF Result, Send, Go, Consented, Granted, InProgress, Asking, Verdict, Typed, TypeOK
  <1>13. ASSUME NEW c \in Calls, ToolChanges(c) PROVE Consented'
    BY <1>13
    DEF ToolChanges, Go, Consented, Granted, InProgress, Asking, Verdict, Typed, TypeOK
  <1>14. ASSUME NEW c \in Calls, CorePlan(c) PROVE Consented'
    BY <1>14
    DEF CorePlan, Answer, Consented, Granted, InProgress, Asking, Verdict, Typed, TypeOK
  <1>15. ASSUME NEW c \in Calls, CoreStart(c) PROVE Consented'
    BY <1>15
    DEF CoreStart, Answer, Consented, Granted, InProgress, Asking, Verdict, Typed, TypeOK
  <1>16. ASSUME NEW c \in Calls, CoreBlocks(c) PROVE Consented'
    BY <1>16
    DEF CoreBlocks, Answer, Consented, Granted, InProgress, Asking, Verdict, Typed, TypeOK
  <1>17. ASSUME NEW c \in Calls, CoreAdvance(c) PROVE Consented'
    <2>1. PICK s \in Subject : CommitsAs(c, s)
      BY <1>17, AdvanceCommits
    <2> QED BY <2>1, <1>17, AdvanceKeeps
    DEF CommitsAs, Consented, Granted, InProgress, Asking, Typed, TypeOK, Answers_OK
  <1>18. ASSUME NEW c \in Calls, CoreApprove(c) PROVE Consented'
    BY <1>18
    DEF CoreApprove, Answer, Consented, Granted, InProgress, Asking, Verdict, Typed, TypeOK
  <1>19. ASSUME NEW c \in Calls, CoreOutcome(c) PROVE Consented'
    BY <1>19
    DEF CoreOutcome, Answer, Consented, Granted, InProgress, Asking, Verdict, Typed, TypeOK
  <1>20. ASSUME NEW c \in Calls, Lost(c) PROVE Consented'
    BY <1>20
    DEF Lost, Answer, Consented, Granted, InProgress, Asking, Verdict, Typed, TypeOK
  <1>21. ASSUME BeginShutdown PROVE Consented'
    BY <1>21
    DEF BeginShutdown, Sweep, Stuck, Consented, Granted, InProgress, Asking, Verdict, Typed,
        TypeOK
  <1>22. ASSUME InterruptionAnswered PROVE Consented'
    BY <1>22
    DEF InterruptionAnswered, Sweep, Stuck, Consented, Granted, InProgress, Asking, Verdict,
        Typed, TypeOK
  <1>23. ASSUME ClosingFailed PROVE Consented'
    BY <1>23
    DEF ClosingFailed, Stuck, Consented, Granted, InProgress, Asking, Verdict, Typed, TypeOK
  <1>24. ASSUME CleanedUp PROVE Consented'
    BY <1>24 DEF CleanedUp, Consented, Granted, InProgress, Asking, Verdict, Typed, TypeOK
  <1>25. ASSUME Closed PROVE Consented'
    BY <1>25 DEF Closed, Consented, Granted, InProgress, Asking, Verdict, Typed, TypeOK
  <1>26. ASSUME CoreInterruption PROVE Consented'
    BY <1>26
    DEF CoreInterruption, Consented, Granted, InProgress, Asking, Verdict, Typed, TypeOK
  <1>27. ASSUME CoreCleanup PROVE Consented'
    BY <1>27 DEF CoreCleanup, Consented, Granted, InProgress, Asking, Verdict, Typed, TypeOK
  <1>28. ASSUME CoreClose PROVE Consented'
    BY <1>28 DEF CoreClose, Consented, Granted, InProgress, Asking, Verdict, Typed, TypeOK
  <1>29. ASSUME LostInShutdown PROVE Consented'
    BY <1>29
    DEF LostInShutdown, Consented, Granted, InProgress, Asking, Verdict, Typed, TypeOK
  <1>30. ASSUME UserEdits PROVE Consented'
    BY <1>30 DEF UserEdits, Consented, Granted, InProgress, Asking, Verdict, Typed, TypeOK
  <1>31. ASSUME UNCHANGED vars PROVE Consented'
    BY <1>31 DEF Consented, Granted, InProgress, Asking, Verdict, Typed, TypeOK, vars
  <1> QED
    BY <1>1, <1>2, <1>3, <1>4, <1>5, <1>6, <1>7, <1>8, <1>9, <1>10, <1>11, <1>12, <1>13,
       <1>14, <1>15, <1>16, <1>17, <1>18, <1>19, <1>20, <1>21, <1>22, <1>23, <1>24,
       <1>25, <1>26, <1>27, <1>28, <1>29, <1>30, <1>31
    DEF Next, Handler, Core, Shutdown, Refused

\* Without edits, every step keeps calls to the one policy there is.
LEMMA SamePolicyStep ==
    ASSUME Typed, SamePolicy, [Next]_vars
    PROVE  SamePolicy'
  <1>1. ASSUME NEW c \in Calls, Reject(c) PROVE SamePolicy'
    BY <1>1
    DEF Reject, Go, handlers, SamePolicy, Granted, InProgress, Asking, Verdicts, Typed,
        TypeOK
  <1>2. ASSUME NEW c \in Calls, Overlap(c) PROVE SamePolicy'
    BY <1>2
    DEF Overlap, Go, SamePolicy, Granted, InProgress, Asking, Verdicts, Typed, TypeOK
  <1>3. ASSUME NEW c \in Calls, Lease(c) PROVE SamePolicy'
    BY <1>3
    DEF Lease, Conflicts, Send, Go, SamePolicy, Granted, InProgress, Asking, Verdicts,
        Typed, TypeOK
  <1>4. ASSUME NEW c \in Calls, Refused(c) PROVE SamePolicy'
    BY <1>4, RefusedBlocks
    DEF Block, Return, Send, Go, RemoveActiveCall, SamePolicy, Granted, InProgress, Asking,
        Verdicts, Typed, TypeOK
  <1>5. ASSUME NEW c \in Calls, Planned(c) PROVE SamePolicy'
    BY <1>5
    DEF Planned, NeedsExclusive, IsAlone, Answered, Send, Go, SamePolicy, Granted,
        InProgress, Asking, Verdicts, Typed, TypeOK
  <1>6. ASSUME NEW c \in Calls, Ask(c) PROVE SamePolicy'
    BY <1>6
    DEF Ask, Answered, Go, SamePolicy, Granted, InProgress, Asking, Verdicts, Typed, TypeOK
  <1>7. ASSUME NEW c \in Calls, NEW yes \in BOOLEAN, Select(c, yes) PROVE SamePolicy'
    BY <1>7
    DEF Select, Send, Go, SamePolicy, Granted, InProgress, Asking, Verdicts, Typed, TypeOK
  <1>8. ASSUME NEW c \in Calls, Approved(c) PROVE SamePolicy'
    BY <1>8
    DEF Approved, Answered, Send, Go, SamePolicy, Granted, InProgress, Asking, Verdicts,
        Typed, TypeOK
  <1>9. ASSUME NEW c \in Calls, Release(c) PROVE SamePolicy'
    BY <1>9
    DEF Release, ReleasedAfterAsk, Answered, Send, Go, SamePolicy, Granted, InProgress,
        Asking, Verdicts, Typed, TypeOK
  <1>10. ASSUME NEW c \in Calls, Settled(c) PROVE SamePolicy'
    BY <1>10
    DEF Settled, Answered, Return, Send, Go, RemoveActiveCall, SamePolicy, Granted,
        InProgress, Asking, Verdicts, Typed, TypeOK
  <1>11. ASSUME NEW c \in Calls, UnknownResult(c) PROVE SamePolicy'
    BY <1>11
    DEF UnknownResult, Return, Send, Go, SamePolicy, Granted, InProgress, Asking, Verdicts,
        Typed, TypeOK
  <1>12. ASSUME NEW c \in Calls, Result(c) PROVE SamePolicy'
    BY <1>12, ConstantsAssumption
    DEF Result, Send, Go, SamePolicy, Granted, InProgress, Asking, Verdicts, Typed, TypeOK
  <1>13. ASSUME NEW c \in Calls, ToolChanges(c) PROVE SamePolicy'
    BY <1>13
    DEF ToolChanges, Go, SamePolicy, Granted, InProgress, Asking, Verdicts, Typed, TypeOK
  <1>14. ASSUME NEW c \in Calls, CorePlan(c) PROVE SamePolicy'
    <2>1. Verdict(c, Current(c)) = policy[Kind[c]]
      BY CurrentIs DEF Typed
    <2> QED BY <2>1, <1>14
    DEF CorePlan, Answer, SamePolicy, Granted, InProgress, Asking, Verdicts, Typed, TypeOK
  <1>15. ASSUME NEW c \in Calls, CoreStart(c) PROVE SamePolicy'
    BY <1>15
    DEF CoreStart, Answer, SamePolicy, Granted, InProgress, Asking, Verdicts, Typed, TypeOK
  <1>16. ASSUME NEW c \in Calls, CoreBlocks(c) PROVE SamePolicy'
    BY <1>16
    DEF CoreBlocks, Answer, SamePolicy, Granted, InProgress, Asking, Verdicts, Typed, TypeOK
  <1>17. ASSUME NEW c \in Calls, CoreAdvance(c) PROVE SamePolicy'
    <2>1. PICK s \in Subject : CommitsAs(c, s)
      BY <1>17, AdvanceCommits
    <2> QED BY <2>1, <1>17, AdvanceKeeps
    DEF CommitsAs, SamePolicy, Granted, InProgress, Asking, Verdicts, Typed, TypeOK
  <1>18. ASSUME NEW c \in Calls, CoreApprove(c) PROVE SamePolicy'
    BY <1>18
    DEF CoreApprove, Answer, SamePolicy, Granted, InProgress, Asking, Verdicts, Typed,
        TypeOK
  <1>19. ASSUME NEW c \in Calls, CoreOutcome(c) PROVE SamePolicy'
    BY <1>19
    DEF CoreOutcome, Answer, SamePolicy, Granted, InProgress, Asking, Verdicts, Typed,
        TypeOK
  <1>20. ASSUME NEW c \in Calls, Lost(c) PROVE SamePolicy'
    BY <1>20
    DEF Lost, Answer, SamePolicy, Granted, InProgress, Asking, Verdicts, Typed, TypeOK
  <1>21. ASSUME BeginShutdown PROVE SamePolicy'
    BY <1>21
    DEF BeginShutdown, Sweep, Stuck, SamePolicy, Granted, InProgress, Asking, Verdicts,
        Typed, TypeOK
  <1>22. ASSUME InterruptionAnswered PROVE SamePolicy'
    BY <1>22
    DEF InterruptionAnswered, Sweep, Stuck, SamePolicy, Granted, InProgress, Asking,
        Verdicts, Typed, TypeOK
  <1>23. ASSUME ClosingFailed PROVE SamePolicy'
    BY <1>23
    DEF ClosingFailed, Stuck, SamePolicy, Granted, InProgress, Asking, Verdicts, Typed,
        TypeOK
  <1>24. ASSUME CleanedUp PROVE SamePolicy'
    BY <1>24 DEF CleanedUp, SamePolicy, Granted, InProgress, Asking, Verdicts, Typed, TypeOK
  <1>25. ASSUME Closed PROVE SamePolicy'
    BY <1>25 DEF Closed, SamePolicy, Granted, InProgress, Asking, Verdicts, Typed, TypeOK
  <1>26. ASSUME CoreInterruption PROVE SamePolicy'
    BY <1>26
    DEF CoreInterruption, SamePolicy, Granted, InProgress, Asking, Verdicts, Typed, TypeOK
  <1>27. ASSUME CoreCleanup PROVE SamePolicy'
    BY <1>27
    DEF CoreCleanup, SamePolicy, Granted, InProgress, Asking, Verdicts, Typed, TypeOK
  <1>28. ASSUME CoreClose PROVE SamePolicy'
    BY <1>28 DEF CoreClose, SamePolicy, Granted, InProgress, Asking, Verdicts, Typed, TypeOK
  <1>29. ASSUME LostInShutdown PROVE SamePolicy'
    BY <1>29
    DEF LostInShutdown, SamePolicy, Granted, InProgress, Asking, Verdicts, Typed, TypeOK
  <1>30. ASSUME UserEdits PROVE SamePolicy'
    BY <1>30 DEF UserEdits, SamePolicy, Granted, InProgress, Asking, Verdicts, Typed, TypeOK
  <1>31. ASSUME UNCHANGED vars PROVE SamePolicy'
    BY <1>31 DEF SamePolicy, Granted, InProgress, Asking, Verdicts, Typed, TypeOK, vars
  <1> QED
    BY <1>1, <1>2, <1>3, <1>4, <1>5, <1>6, <1>7, <1>8, <1>9, <1>10, <1>11, <1>12, <1>13,
       <1>14, <1>15, <1>16, <1>17, <1>18, <1>19, <1>20, <1>21, <1>22, <1>23, <1>24,
       <1>25, <1>26, <1>27, <1>28, <1>29, <1>30, <1>31
    DEF Next, Handler, Core, Shutdown, Refused

\* Without edits, every step keeps the lease of an exclusive call exclusive.
LEMMA ExclusiveStep ==
    ASSUME Typed, Leases, Closing, Own, SamePolicy, Exclusive, [Next]_vars
    PROVE  Exclusive'
  <1>1. ASSUME NEW c \in Calls, Reject(c) PROVE Exclusive'
    BY <1>1
    DEF Reject, Go, handlers, Exclusive, Needs, Cleared, Active, Asking, Verdicts, Typed,
        TypeOK
  <1>2. ASSUME NEW c \in Calls, Overlap(c) PROVE Exclusive'
    BY <1>2
    DEF Overlap, Go, Exclusive, Needs, Cleared, Active, Asking, Verdicts, Typed, TypeOK
  <1>3. ASSUME NEW c \in Calls, Lease(c) PROVE Exclusive'
    <2>1. CASE Kind[c] = "mutate"
      <3>1. run = "running" => \A d \in Calls : ~Active(d)
        BY <2>1, <1>3 DEF Lease, Conflicts, Own
      <3>2. \A d \in Calls : Active(d)' => d = c \/ Active(d)
        BY <1>3 DEF Lease, Send, Go, Active, Typed, TypeOK
      <3> QED BY <2>1, <3>1, <3>2, <1>3 DEF Lease, Exclusive
    <2>2. CASE Kind[c] # "mutate"
      <3>1. mutating = NoCall /\ UNCHANGED <<edits, run, mutating, policy>>
        BY <2>2, <1>3 DEF Lease, Conflicts
      <3>2. edits = 0 /\ run = "running" => \A d \in Calls : ~(Active(d) /\ Needs(d))
        BY <3>1, ConstantsAssumption DEF Exclusive
      <3>3. \A d \in Calls : Active(d)' /\ Needs(d)' => Active(d) /\ Needs(d)
        BY <2>2, <3>1, <1>3 DEF Lease, Send, Go, Active, Needs, Cleared, Typed, TypeOK
      <3> QED BY <3>1, <3>2, <3>3 DEF Exclusive
    <2> QED BY <2>1, <2>2
  <1>4. ASSUME NEW c \in Calls, Refused(c) PROVE Exclusive'
    BY <1>4, RefusedBlocks
    DEF Block, Return, Send, Go, RemoveActiveCall, Exclusive, Needs, Cleared, Active,
        Asking, Verdicts, Typed, TypeOK, Own
  <1>5. ASSUME NEW c \in Calls, Planned(c) PROVE Exclusive'
    <2>1. CASE NeedsExclusive(c)
      <3>1. held = {IdOf[c]} /\ mutating' = IdOf[c] /\ UNCHANGED <<edits, run>>
        BY <2>1, <1>5 DEF Planned, IsAlone
      <3>2. Active(c)
        BY <1>5 DEF Planned, Answered, Active
      <3>3. run = "running" => \A d \in Calls : Active(d) => d = c
        BY <3>1, <3>2 DEF Own
      <3>4. \A d \in Calls : Active(d)' => d = c \/ Active(d)
        BY <1>5 DEF Planned, Send, Go, Active, Typed, TypeOK
      <3> QED BY <3>1, <3>3, <3>4 DEF Exclusive
    <2>2. CASE ~NeedsExclusive(c)
      <3>1. UNCHANGED <<edits, run, mutating, policy>> /\ Active(c)
        BY <2>2, <1>5 DEF Planned, Answered, Active
      <3>2. edits = 0 /\ policy[Kind[c]] \in {"ask", "gated"} => Kind[c] = "mutate"
        BY <2>2, <1>5 DEF Planned, Answered, NeedsExclusive, SamePolicy, Typed, Answers_OK
      <3>3. \A d \in Calls : Active(d)' => Active(d)
        BY <3>1, <1>5 DEF Planned, Send, Go, Active, Typed, TypeOK
      <3>4. edits = 0 => \A d \in Calls : Active(d)' /\ Needs(d)' => Needs(d)
        BY <3>1, <3>2, <1>5 DEF Planned, Send, Go, Active, Needs, Cleared, Typed, TypeOK
      <3> QED BY <3>1, <3>3, <3>4 DEF Exclusive
    <2> QED BY <2>1, <2>2
  <1>6. ASSUME NEW c \in Calls, Ask(c) PROVE Exclusive'
    BY <1>6
    DEF Ask, Answered, Go, Exclusive, Needs, Cleared, Active, Asking, Verdicts, Typed,
        TypeOK
  <1>7. ASSUME NEW c \in Calls, NEW yes \in BOOLEAN, Select(c, yes) PROVE Exclusive'
    BY <1>7
    DEF Select, Send, Go, Exclusive, Needs, Cleared, Active, Asking, Verdicts, Typed, TypeOK
  <1>8. ASSUME NEW c \in Calls, Approved(c) PROVE Exclusive'
    BY <1>8
    DEF Approved, Answered, Send, Go, Exclusive, Needs, Cleared, Active, Asking, Verdicts,
        Typed, TypeOK
  <1>9. ASSUME NEW c \in Calls, Release(c) PROVE Exclusive'
    BY <1>9
    DEF Release, ReleasedAfterAsk, Answered, Send, Go, Exclusive, Needs, Cleared, Active,
        Asking, Verdicts, Typed, TypeOK
  <1>10. ASSUME NEW c \in Calls, Settled(c) PROVE Exclusive'
    BY <1>10
    DEF Settled, Answered, Return, Send, Go, RemoveActiveCall, Exclusive, Needs, Cleared,
        Active, Asking, Verdicts, Typed, TypeOK, Own
  <1>11. ASSUME NEW c \in Calls, UnknownResult(c) PROVE Exclusive'
    BY <1>11
    DEF UnknownResult, Return, Send, Go, Exclusive, Needs, Cleared, Active, Asking,
        Verdicts, Typed, TypeOK
  <1>12. ASSUME NEW c \in Calls, Result(c) PROVE Exclusive'
    BY <1>12
    DEF Result, Send, Go, Exclusive, Needs, Cleared, Active, Asking, Verdicts, Typed, TypeOK
  <1>13. ASSUME NEW c \in Calls, ToolChanges(c) PROVE Exclusive'
    BY <1>13
    DEF ToolChanges, Go, Exclusive, Needs, Cleared, Active, Asking, Verdicts, Typed, TypeOK
  <1>14. ASSUME NEW c \in Calls, CorePlan(c) PROVE Exclusive'
    BY <1>14
    DEF CorePlan, Answer, Exclusive, Needs, Cleared, Active, Asking, Verdicts, Typed, TypeOK
  <1>15. ASSUME NEW c \in Calls, CoreStart(c) PROVE Exclusive'
    BY <1>15
    DEF CoreStart, Answer, Exclusive, Needs, Cleared, Active, Asking, Verdicts, Typed,
        TypeOK
  <1>16. ASSUME NEW c \in Calls, CoreBlocks(c) PROVE Exclusive'
    BY <1>16
    DEF CoreBlocks, Answer, Exclusive, Needs, Cleared, Active, Asking, Verdicts, Typed,
        TypeOK
  <1>17. ASSUME NEW c \in Calls, CoreAdvance(c) PROVE Exclusive'
    BY <1>17, AdvanceCommits, AdvanceKeeps
    DEF CommitsAs, Exclusive, Needs, Cleared, Active, Asking, Verdicts, Typed, TypeOK,
        Answers_OK
  <1>18. ASSUME NEW c \in Calls, CoreApprove(c) PROVE Exclusive'
    BY <1>18
    DEF CoreApprove, Answer, Exclusive, Needs, Cleared, Active, Asking, Verdicts, Typed,
        TypeOK
  <1>19. ASSUME NEW c \in Calls, CoreOutcome(c) PROVE Exclusive'
    BY <1>19
    DEF CoreOutcome, Answer, Exclusive, Needs, Cleared, Active, Asking, Verdicts, Typed,
        TypeOK
  <1>20. ASSUME NEW c \in Calls, Lost(c) PROVE Exclusive'
    BY <1>20
    DEF Lost, Answer, Exclusive, Needs, Cleared, Active, Asking, Verdicts, Typed, TypeOK
  <1>21. ASSUME BeginShutdown PROVE Exclusive'
    BY <1>21
    DEF BeginShutdown, Sweep, Stuck, Exclusive, Needs, Cleared, Active, Asking, Verdicts,
        Typed, TypeOK
  <1>22. ASSUME InterruptionAnswered PROVE Exclusive'
    BY <1>22
    DEF InterruptionAnswered, Sweep, Stuck, Exclusive, Needs, Cleared, Active, Asking,
        Verdicts, Typed, TypeOK
  <1>23. ASSUME ClosingFailed PROVE Exclusive'
    BY <1>23
    DEF ClosingFailed, Stuck, Exclusive, Needs, Cleared, Active, Asking, Verdicts, Typed,
        TypeOK
  <1>24. ASSUME CleanedUp PROVE Exclusive'
    BY <1>24
    DEF CleanedUp, Exclusive, Needs, Cleared, Active, Asking, Verdicts, Typed, TypeOK
  <1>25. ASSUME Closed PROVE Exclusive'
    BY <1>25
    DEF Closed, Exclusive, Needs, Cleared, Active, Asking, Verdicts, Typed, TypeOK, Closing
  <1>26. ASSUME CoreInterruption PROVE Exclusive'
    BY <1>26
    DEF CoreInterruption, Exclusive, Needs, Cleared, Active, Asking, Verdicts, Typed, TypeOK
  <1>27. ASSUME CoreCleanup PROVE Exclusive'
    BY <1>27
    DEF CoreCleanup, Exclusive, Needs, Cleared, Active, Asking, Verdicts, Typed, TypeOK
  <1>28. ASSUME CoreClose PROVE Exclusive'
    BY <1>28
    DEF CoreClose, Exclusive, Needs, Cleared, Active, Asking, Verdicts, Typed, TypeOK
  <1>29. ASSUME LostInShutdown PROVE Exclusive'
    BY <1>29
    DEF LostInShutdown, Exclusive, Needs, Cleared, Active, Asking, Verdicts, Typed, TypeOK
  <1>30. ASSUME UserEdits PROVE Exclusive'
    BY <1>30
    DEF UserEdits, Exclusive, Needs, Cleared, Active, Asking, Verdicts, Typed, TypeOK
  <1>31. ASSUME UNCHANGED vars PROVE Exclusive'
    BY <1>31 DEF Exclusive, Needs, Cleared, Active, Asking, Verdicts, Typed, TypeOK, vars
  <1> QED
    BY <1>1, <1>2, <1>3, <1>4, <1>5, <1>6, <1>7, <1>8, <1>9, <1>10, <1>11, <1>12, <1>13,
       <1>14, <1>15, <1>16, <1>17, <1>18, <1>19, <1>20, <1>21, <1>22, <1>23, <1>24,
       <1>25, <1>26, <1>27, <1>28, <1>29, <1>30, <1>31
    DEF Next, Handler, Core, Shutdown, Refused

\* While the run is open and nobody edits, nothing is in flight beside a call
\* that must be alone.
LEMMA Compatible ==
    ASSUME Typed, Leases, Own, Exclusive, edits = 0, run = "running",
           NEW c \in Calls, NEW d \in Calls, c # d, Active(c), Active(d)
    PROVE  ~Needs(c)
  <1> SUFFICES ASSUME Needs(c) PROVE FALSE
    OBVIOUS
  <1>1. mutating = IdOf[c] /\ IdOf[c] # NoCall
    BY ConstantsAssumption DEF Exclusive
  <1>2. held = {IdOf[c]}
    BY <1>1 DEF Leases
  <1> QED BY <1>2 DEF Own

\* A call with a release has been asked for its verdict under the one policy.
LEMMA GrantedVerdict ==
    ASSUME Typed, SamePolicy, edits = 0, NEW c \in Calls, Granted(c), ~Needs(c)
    PROVE  Kind[c] # "mutate" /\ Verdict(c, subject[c]) = "allow"
  <1>1. subject[c] \in Subject /\ Active(c) /\ pc[c] # "plan"
    BY DEF Typed, Answers_OK, Granted, InProgress, Asking, Active
  <1>2. subject[c].policy = policy /\ policy[Kind[c]] # "deny"
    BY <1>1, ConstantsAssumption DEF SamePolicy
  <1>3. policy[Kind[c]] \in Verdicts
    BY CurrentIs DEF Typed
  <1> QED BY <1>1, <1>2, <1>3 DEF Needs, Cleared, Verdict, Verdicts

\* Without edits, every step keeps exclusive calls alone.
LEMMA PairsStep ==
    ASSUME Typed, Leases, Own, SamePolicy, Exclusive, Pairs, Typed', SamePolicy', [Next]_vars
    PROVE  Pairs'
  <1>1. ASSUME NEW c \in Calls, Reject(c) PROVE Pairs'
    BY <1>1 DEF Reject, Go, handlers, Pairs, Granted, InProgress, Asking, Typed, TypeOK
  <1>2. ASSUME NEW c \in Calls, Overlap(c) PROVE Pairs'
    BY <1>2 DEF Overlap, Go, Pairs, Granted, InProgress, Asking, Typed, TypeOK
  <1>3. ASSUME NEW c \in Calls, Lease(c) PROVE Pairs'
    BY <1>3
    DEF Lease, Conflicts, Send, Go, Pairs, Granted, InProgress, Asking, Typed, TypeOK
  <1>4. ASSUME NEW c \in Calls, Refused(c) PROVE Pairs'
    BY <1>4, RefusedBlocks
    DEF Block, Return, Send, Go, RemoveActiveCall, Pairs, Granted, InProgress, Asking,
        Typed, TypeOK
  <1>5. ASSUME NEW c \in Calls, Planned(c) PROVE Pairs'
    BY <1>5
    DEF Planned, NeedsExclusive, IsAlone, Answered, Send, Go, Pairs, Granted, InProgress,
        Asking, Typed, TypeOK
  <1>6. ASSUME NEW c \in Calls, Ask(c) PROVE Pairs'
    BY <1>6 DEF Ask, Answered, Go, Pairs, Granted, InProgress, Asking, Typed, TypeOK
  <1>7. ASSUME NEW c \in Calls, NEW yes \in BOOLEAN, Select(c, yes) PROVE Pairs'
    BY <1>7 DEF Select, Send, Go, Pairs, Granted, InProgress, Asking, Typed, TypeOK
  <1>8. ASSUME NEW c \in Calls, Approved(c) PROVE Pairs'
    BY <1>8
    DEF Approved, Answered, Send, Go, Pairs, Granted, InProgress, Asking, Typed, TypeOK
  <1>9. ASSUME NEW c \in Calls, Release(c) PROVE Pairs'
    BY <1>9
    DEF Release, ReleasedAfterAsk, Answered, Send, Go, Pairs, Granted, InProgress, Asking,
        Typed, TypeOK
  <1>10. ASSUME NEW c \in Calls, Settled(c) PROVE Pairs'
    BY <1>10
    DEF Settled, Answered, Return, Send, Go, RemoveActiveCall, Pairs, Granted, InProgress,
        Asking, Typed, TypeOK
  <1>11. ASSUME NEW c \in Calls, UnknownResult(c) PROVE Pairs'
    BY <1>11
    DEF UnknownResult, Return, Send, Go, Pairs, Granted, InProgress, Asking, Typed, TypeOK
  <1>12. ASSUME NEW c \in Calls, Result(c) PROVE Pairs'
    BY <1>12 DEF Result, Send, Go, Pairs, Granted, InProgress, Asking, Typed, TypeOK
  <1>13. ASSUME NEW c \in Calls, ToolChanges(c) PROVE Pairs'
    BY <1>13 DEF ToolChanges, Go, Pairs, Granted, InProgress, Asking, Typed, TypeOK
  <1>14. ASSUME NEW c \in Calls, CorePlan(c) PROVE Pairs'
    BY <1>14 DEF CorePlan, Answer, Pairs, Granted, InProgress, Asking, Typed, TypeOK
  <1>15. ASSUME NEW c \in Calls, CoreStart(c) PROVE Pairs'
    BY <1>15 DEF CoreStart, Answer, Pairs, Granted, InProgress, Asking, Typed, TypeOK
  <1>16. ASSUME NEW c \in Calls, CoreBlocks(c) PROVE Pairs'
    BY <1>16 DEF CoreBlocks, Answer, Pairs, Granted, InProgress, Asking, Typed, TypeOK
  <1>17. ASSUME NEW c \in Calls, CoreAdvance(c) PROVE Pairs'
    <2>1. PICK s \in Subject : CommitsAs(c, s)
      BY <1>17, AdvanceCommits
    <2>2. /\ run = "running" /\ Active(c) /\ UNCHANGED <<edits, pc, policy>>
          /\ \A d \in Calls \ {c} : Granted(d)' <=> Granted(d)
          /\ \A d \in Calls \ {c} : subject'[d] = subject[d]
      BY <2>1, <1>17, AdvanceKeeps
      DEF Open, CommitsAs, Active, Granted, InProgress, Asking, Typed, TypeOK, Answers_OK
    <2>3. \A d \in Calls : Granted(d) => Active(d)
      BY DEF Granted, InProgress, Asking, Active
    <2>4. ASSUME edits = 0, NEW d \in Calls \ {c}, Granted(d) PROVE ~Needs(c) /\ ~Needs(d)
      BY <2>2, <2>3, <2>4, Compatible
    <2>5. \A d \in Calls : Needs(d)' <=> Needs(d)
      BY <2>2 DEF Needs, Cleared, Active
    <2>6. ASSUME edits = 0, NEW d \in Calls \ {c}, Granted(d), Granted(c)'
          PROVE  /\ Kind[c] # "mutate" /\ Verdict(c, subject'[c]) = "allow"
                 /\ Kind[d] # "mutate" /\ Verdict(d, subject'[d]) = "allow"
      <3>1. Kind[d] # "mutate" /\ Verdict(d, subject[d]) = "allow"
        BY <2>4, <2>6, GrantedVerdict
      <3>2. policy[Kind[c]] \in Verdicts /\ policy[Kind[c]] # "deny"
        BY <1>17, AdvanceKeeps, CurrentIs DEF Typed
      <3>3. Verdict(c, subject'[c]) = policy[Kind[c]] /\ pc[c] # "plan"
        BY <2>1, <1>17, AdvanceKeeps DEF CommitsAs, Typed, TypeOK, Answers_OK, Asking
      <3>4. ~Needs(c)
        BY <2>4, <2>6
      <3> QED BY <2>2, <3>1, <3>2, <3>3, <3>4 DEF Needs, Cleared, Verdicts
    <2> HIDE DEF Granted, Verdict
    <2> QED BY <2>2, <2>6 DEF Pairs, Verdict
  <1>18. ASSUME NEW c \in Calls, CoreApprove(c) PROVE Pairs'
    BY <1>18 DEF CoreApprove, Answer, Pairs, Granted, InProgress, Asking, Typed, TypeOK
  <1>19. ASSUME NEW c \in Calls, CoreOutcome(c) PROVE Pairs'
    BY <1>19 DEF CoreOutcome, Answer, Pairs, Granted, InProgress, Asking, Typed, TypeOK
  <1>20. ASSUME NEW c \in Calls, Lost(c) PROVE Pairs'
    BY <1>20 DEF Lost, Answer, Pairs, Granted, InProgress, Asking, Typed, TypeOK
  <1>21. ASSUME BeginShutdown PROVE Pairs'
    BY <1>21
    DEF BeginShutdown, Sweep, Stuck, Pairs, Granted, InProgress, Asking, Typed, TypeOK
  <1>22. ASSUME InterruptionAnswered PROVE Pairs'
    BY <1>22
    DEF InterruptionAnswered, Sweep, Stuck, Pairs, Granted, InProgress, Asking, Typed,
        TypeOK
  <1>23. ASSUME ClosingFailed PROVE Pairs'
    BY <1>23 DEF ClosingFailed, Stuck, Pairs, Granted, InProgress, Asking, Typed, TypeOK
  <1>24. ASSUME CleanedUp PROVE Pairs'
    BY <1>24 DEF CleanedUp, Pairs, Granted, InProgress, Asking, Typed, TypeOK
  <1>25. ASSUME Closed PROVE Pairs'
    BY <1>25 DEF Closed, Pairs, Granted, InProgress, Asking, Typed, TypeOK
  <1>26. ASSUME CoreInterruption PROVE Pairs'
    BY <1>26 DEF CoreInterruption, Pairs, Granted, InProgress, Asking, Typed, TypeOK
  <1>27. ASSUME CoreCleanup PROVE Pairs'
    BY <1>27 DEF CoreCleanup, Pairs, Granted, InProgress, Asking, Typed, TypeOK
  <1>28. ASSUME CoreClose PROVE Pairs'
    BY <1>28 DEF CoreClose, Pairs, Granted, InProgress, Asking, Typed, TypeOK
  <1>29. ASSUME LostInShutdown PROVE Pairs'
    BY <1>29 DEF LostInShutdown, Pairs, Granted, InProgress, Asking, Typed, TypeOK
  <1>30. ASSUME UserEdits PROVE Pairs'
    BY <1>30 DEF UserEdits, Pairs, Granted, InProgress, Asking, Typed, TypeOK
  <1>31. ASSUME UNCHANGED vars PROVE Pairs'
    BY <1>31 DEF Pairs, Granted, InProgress, Asking, Typed, TypeOK, vars
  <1> QED
    BY <1>1, <1>2, <1>3, <1>4, <1>5, <1>6, <1>7, <1>8, <1>9, <1>10, <1>11, <1>12, <1>13,
       <1>14, <1>15, <1>16, <1>17, <1>18, <1>19, <1>20, <1>21, <1>22, <1>23, <1>24,
       <1>25, <1>26, <1>27, <1>28, <1>29, <1>30, <1>31
    DEF Next, Handler, Core, Shutdown, Refused

\* Without edits, every step keeps the evidence of a release fresh.
LEMMA EvidenceStep ==
    ASSUME Typed, Leases, Own, SamePolicy, Exclusive, Pairs, Evidence, [Next]_vars
    PROVE  Evidence'
  <1>1. ASSUME NEW c \in Calls, Reject(c) PROVE Evidence'
    BY <1>1 DEF Reject, Go, handlers, Evidence, Granted, InProgress, Asking, Typed, TypeOK
  <1>2. ASSUME NEW c \in Calls, Overlap(c) PROVE Evidence'
    BY <1>2 DEF Overlap, Go, Evidence, Granted, InProgress, Asking, Typed, TypeOK
  <1>3. ASSUME NEW c \in Calls, Lease(c) PROVE Evidence'
    BY <1>3
    DEF Lease, Conflicts, Send, Go, Evidence, Granted, InProgress, Asking, Typed, TypeOK
  <1>4. ASSUME NEW c \in Calls, Refused(c) PROVE Evidence'
    BY <1>4, RefusedBlocks
    DEF Block, Return, Send, Go, RemoveActiveCall, Evidence, Granted, InProgress, Asking,
        Typed, TypeOK
  <1>5. ASSUME NEW c \in Calls, Planned(c) PROVE Evidence'
    BY <1>5
    DEF Planned, NeedsExclusive, IsAlone, Answered, Send, Go, Evidence, Granted, InProgress,
        Asking, Typed, TypeOK
  <1>6. ASSUME NEW c \in Calls, Ask(c) PROVE Evidence'
    BY <1>6 DEF Ask, Answered, Go, Evidence, Granted, InProgress, Asking, Typed, TypeOK
  <1>7. ASSUME NEW c \in Calls, NEW yes \in BOOLEAN, Select(c, yes) PROVE Evidence'
    BY <1>7 DEF Select, Send, Go, Evidence, Granted, InProgress, Asking, Typed, TypeOK
  <1>8. ASSUME NEW c \in Calls, Approved(c) PROVE Evidence'
    BY <1>8
    DEF Approved, Answered, Send, Go, Evidence, Granted, InProgress, Asking, Typed, TypeOK
  <1>9. ASSUME NEW c \in Calls, Release(c) PROVE Evidence'
    BY <1>9
    DEF Release, ReleasedAfterAsk, Answered, Send, Go, Evidence, Granted, InProgress,
        Asking, Typed, TypeOK
  <1>10. ASSUME NEW c \in Calls, Settled(c) PROVE Evidence'
    BY <1>10
    DEF Settled, Answered, Return, Send, Go, RemoveActiveCall, Evidence, Granted,
        InProgress, Asking, Typed, TypeOK
  <1>11. ASSUME NEW c \in Calls, UnknownResult(c) PROVE Evidence'
    BY <1>11
    DEF UnknownResult, Return, Send, Go, Evidence, Granted, InProgress, Asking, Typed,
        TypeOK
  <1>12. ASSUME NEW c \in Calls, Result(c) PROVE Evidence'
    BY <1>12 DEF Result, Send, Go, Evidence, Granted, InProgress, Asking, Typed, TypeOK
  <1>13. ASSUME NEW c \in Calls, ToolChanges(c) PROVE Evidence'
    BY <1>13
    DEF ToolChanges, Go, Evidence, Granted, InProgress, Asking, Typed, TypeOK, Pairs
  <1>14. ASSUME NEW c \in Calls, CorePlan(c) PROVE Evidence'
    BY <1>14 DEF CorePlan, Answer, Evidence, Granted, InProgress, Asking, Typed, TypeOK
  <1>15. ASSUME NEW c \in Calls, CoreStart(c) PROVE Evidence'
    BY <1>15 DEF CoreStart, Answer, Evidence, Granted, InProgress, Asking, Typed, TypeOK
  <1>16. ASSUME NEW c \in Calls, CoreBlocks(c) PROVE Evidence'
    BY <1>16 DEF CoreBlocks, Answer, Evidence, Granted, InProgress, Asking, Typed, TypeOK
  <1>17. ASSUME NEW c \in Calls, CoreAdvance(c) PROVE Evidence'
    <2>1. PICK s \in Subject : CommitsAs(c, s)
      BY <1>17, AdvanceCommits
    <2>2. /\ run = "running" /\ Active(c) /\ pc[c] # "plan" /\ UNCHANGED <<edits, pc>>
          /\ \A d \in Calls \ {c} : Granted(d)' <=> Granted(d)
          /\ \A d \in Calls \ {c} : subject'[d] = subject[d]
      BY <2>1, <1>17, AdvanceKeeps
      DEF Open, CommitsAs, Active, Granted, InProgress, Asking, Typed, TypeOK, Answers_OK
    <2>3. ASSUME edits = 0, NEW d \in Calls \ {c}, Granted(d) PROVE version' = version
      <3>1. Active(d)
        BY <2>3 DEF Granted, InProgress, Asking, Active
      <3>2. ~Needs(c)
        BY <2>2, <2>3, <3>1, Compatible
      <3> QED BY <2>2, <3>2, <1>17, AdvanceKeeps DEF Needs, Cleared
    <2>4. subject'[c].version = version'
      BY <2>1 DEF CommitsAs, Typed, TypeOK
    <2> HIDE DEF Granted
    <2> QED BY <2>2, <2>3, <2>4 DEF Evidence
  <1>18. ASSUME NEW c \in Calls, CoreApprove(c) PROVE Evidence'
    BY <1>18 DEF CoreApprove, Answer, Evidence, Granted, InProgress, Asking, Typed, TypeOK
  <1>19. ASSUME NEW c \in Calls, CoreOutcome(c) PROVE Evidence'
    BY <1>19 DEF CoreOutcome, Answer, Evidence, Granted, InProgress, Asking, Typed, TypeOK
  <1>20. ASSUME NEW c \in Calls, Lost(c) PROVE Evidence'
    BY <1>20 DEF Lost, Answer, Evidence, Granted, InProgress, Asking, Typed, TypeOK
  <1>21. ASSUME BeginShutdown PROVE Evidence'
    BY <1>21
    DEF BeginShutdown, Sweep, Stuck, Evidence, Granted, InProgress, Asking, Typed, TypeOK
  <1>22. ASSUME InterruptionAnswered PROVE Evidence'
    BY <1>22
    DEF InterruptionAnswered, Sweep, Stuck, Evidence, Granted, InProgress, Asking, Typed,
        TypeOK
  <1>23. ASSUME ClosingFailed PROVE Evidence'
    BY <1>23 DEF ClosingFailed, Stuck, Evidence, Granted, InProgress, Asking, Typed, TypeOK
  <1>24. ASSUME CleanedUp PROVE Evidence'
    BY <1>24 DEF CleanedUp, Evidence, Granted, InProgress, Asking, Typed, TypeOK
  <1>25. ASSUME Closed PROVE Evidence'
    BY <1>25 DEF Closed, Evidence, Granted, InProgress, Asking, Typed, TypeOK
  <1>26. ASSUME CoreInterruption PROVE Evidence'
    BY <1>26 DEF CoreInterruption, Evidence, Granted, InProgress, Asking, Typed, TypeOK
  <1>27. ASSUME CoreCleanup PROVE Evidence'
    BY <1>27 DEF CoreCleanup, Evidence, Granted, InProgress, Asking, Typed, TypeOK
  <1>28. ASSUME CoreClose PROVE Evidence'
    BY <1>28 DEF CoreClose, Evidence, Granted, InProgress, Asking, Typed, TypeOK
  <1>29. ASSUME LostInShutdown PROVE Evidence'
    BY <1>29 DEF LostInShutdown, Evidence, Granted, InProgress, Asking, Typed, TypeOK
  <1>30. ASSUME UserEdits PROVE Evidence'
    BY <1>30 DEF UserEdits, Evidence, Granted, InProgress, Asking, Typed, TypeOK
  <1>31. ASSUME UNCHANGED vars PROVE Evidence'
    BY <1>31 DEF Evidence, Granted, InProgress, Asking, Typed, TypeOK, vars
  <1> QED
    BY <1>1, <1>2, <1>3, <1>4, <1>5, <1>6, <1>7, <1>8, <1>9, <1>10, <1>11, <1>12, <1>13,
       <1>14, <1>15, <1>16, <1>17, <1>18, <1>19, <1>20, <1>21, <1>22, <1>23, <1>24,
       <1>25, <1>26, <1>27, <1>28, <1>29, <1>30, <1>31
    DEF Next, Handler, Core, Shutdown, Refused

\* Without edits, every step asks only what the policy asks about.
LEMMA AskedStep ==
    ASSUME Typed, SamePolicy, Asked, [Next]_vars
    PROVE  Asked'
  <1>1. ASSUME NEW c \in Calls, Reject(c) PROVE Asked'
    BY <1>1 DEF Reject, Go, handlers, Asked, Asking, Verdicts, Typed, TypeOK
  <1>2. ASSUME NEW c \in Calls, Overlap(c) PROVE Asked'
    BY <1>2 DEF Overlap, Go, Asked, Asking, Verdicts, Typed, TypeOK
  <1>3. ASSUME NEW c \in Calls, Lease(c) PROVE Asked'
    BY <1>3 DEF Lease, Conflicts, Send, Go, Asked, Asking, Verdicts, Typed, TypeOK
  <1>4. ASSUME NEW c \in Calls, Refused(c) PROVE Asked'
    BY <1>4, RefusedBlocks
    DEF Block, Return, Send, Go, RemoveActiveCall, Asked, Asking, Verdicts, Typed, TypeOK
  <1>5. ASSUME NEW c \in Calls, Planned(c) PROVE Asked'
    BY <1>5
    DEF Planned, NeedsExclusive, IsAlone, Answered, Send, Go, Asked, Asking, Verdicts,
        Typed, TypeOK
  <1>6. ASSUME NEW c \in Calls, Ask(c) PROVE Asked'
    BY <1>6 DEF Ask, Answered, Go, Asked, Asking, Verdicts, Typed, TypeOK
  <1>7. ASSUME NEW c \in Calls, NEW yes \in BOOLEAN, Select(c, yes) PROVE Asked'
    BY <1>7 DEF Select, Send, Go, Asked, Asking, Verdicts, Typed, TypeOK
  <1>8. ASSUME NEW c \in Calls, Approved(c) PROVE Asked'
    BY <1>8 DEF Approved, Answered, Send, Go, Asked, Asking, Verdicts, Typed, TypeOK
  <1>9. ASSUME NEW c \in Calls, Release(c) PROVE Asked'
    BY <1>9
    DEF Release, ReleasedAfterAsk, Answered, Send, Go, Asked, Asking, Verdicts, Typed,
        TypeOK
  <1>10. ASSUME NEW c \in Calls, Settled(c) PROVE Asked'
    BY <1>10
    DEF Settled, Answered, Return, Send, Go, RemoveActiveCall, Asked, Asking, Verdicts,
        Typed, TypeOK
  <1>11. ASSUME NEW c \in Calls, UnknownResult(c) PROVE Asked'
    BY <1>11 DEF UnknownResult, Return, Send, Go, Asked, Asking, Verdicts, Typed, TypeOK
  <1>12. ASSUME NEW c \in Calls, Result(c) PROVE Asked'
    BY <1>12 DEF Result, Send, Go, Asked, Asking, Verdicts, Typed, TypeOK
  <1>13. ASSUME NEW c \in Calls, ToolChanges(c) PROVE Asked'
    BY <1>13 DEF ToolChanges, Go, Asked, Asking, Verdicts, Typed, TypeOK
  <1>14. ASSUME NEW c \in Calls, CorePlan(c) PROVE Asked'
    BY <1>14 DEF CorePlan, Answer, Asked, Asking, Verdicts, Typed, TypeOK
  <1>15. ASSUME NEW c \in Calls, CoreStart(c) PROVE Asked'
    BY <1>15 DEF CoreStart, Answer, Asked, Asking, Verdicts, Typed, TypeOK
  <1>16. ASSUME NEW c \in Calls, CoreBlocks(c) PROVE Asked'
    BY <1>16 DEF CoreBlocks, Answer, Asked, Asking, Verdicts, Typed, TypeOK
  <1>17. ASSUME NEW c \in Calls, CoreAdvance(c) PROVE Asked'
    <2>1. PICK s \in Subject : CommitsAs(c, s)
      BY <1>17, AdvanceCommits
    <2> QED BY <2>1, <1>17, AdvanceKeeps
    DEF CommitsAs, Asked, Asking, Verdicts, Typed, TypeOK, Answers_OK
  <1>18. ASSUME NEW c \in Calls, CoreApprove(c) PROVE Asked'
    BY <1>18 DEF CoreApprove, Answer, Asked, Asking, Verdicts, Typed, TypeOK
  <1>19. ASSUME NEW c \in Calls, CoreOutcome(c) PROVE Asked'
    BY <1>19 DEF CoreOutcome, Answer, Asked, Asking, Verdicts, Typed, TypeOK
  <1>20. ASSUME NEW c \in Calls, Lost(c) PROVE Asked'
    BY <1>20 DEF Lost, Answer, Asked, Asking, Verdicts, Typed, TypeOK
  <1>21. ASSUME BeginShutdown PROVE Asked'
    BY <1>21 DEF BeginShutdown, Sweep, Stuck, Asked, Asking, Verdicts, Typed, TypeOK
  <1>22. ASSUME InterruptionAnswered PROVE Asked'
    BY <1>22 DEF InterruptionAnswered, Sweep, Stuck, Asked, Asking, Verdicts, Typed, TypeOK
  <1>23. ASSUME ClosingFailed PROVE Asked'
    BY <1>23 DEF ClosingFailed, Stuck, Asked, Asking, Verdicts, Typed, TypeOK
  <1>24. ASSUME CleanedUp PROVE Asked'
    BY <1>24 DEF CleanedUp, Asked, Asking, Verdicts, Typed, TypeOK
  <1>25. ASSUME Closed PROVE Asked'
    BY <1>25 DEF Closed, Asked, Asking, Verdicts, Typed, TypeOK
  <1>26. ASSUME CoreInterruption PROVE Asked'
    BY <1>26 DEF CoreInterruption, Asked, Asking, Verdicts, Typed, TypeOK
  <1>27. ASSUME CoreCleanup PROVE Asked'
    BY <1>27 DEF CoreCleanup, Asked, Asking, Verdicts, Typed, TypeOK
  <1>28. ASSUME CoreClose PROVE Asked'
    BY <1>28 DEF CoreClose, Asked, Asking, Verdicts, Typed, TypeOK
  <1>29. ASSUME LostInShutdown PROVE Asked'
    BY <1>29 DEF LostInShutdown, Asked, Asking, Verdicts, Typed, TypeOK
  <1>30. ASSUME UserEdits PROVE Asked'
    BY <1>30 DEF UserEdits, Asked, Asking, Verdicts, Typed, TypeOK
  <1>31. ASSUME UNCHANGED vars PROVE Asked'
    BY <1>31 DEF Asked, Asking, Verdicts, Typed, TypeOK, vars
  <1> QED
    BY <1>1, <1>2, <1>3, <1>4, <1>5, <1>6, <1>7, <1>8, <1>9, <1>10, <1>11, <1>12, <1>13,
       <1>14, <1>15, <1>16, <1>17, <1>18, <1>19, <1>20, <1>21, <1>22, <1>23, <1>24,
       <1>25, <1>26, <1>27, <1>28, <1>29, <1>30, <1>31
    DEF Next, Handler, Core, Shutdown, Refused

\* A handler that gives up before shutdown has no release in its hands.
LEMMA RefusedIsFree ==
    ASSUME Typed, Own, SamePolicy, Asked, edits = 0, run = "running",
           NEW c \in Calls, Refused(c)
    PROVE  ~Carrier(c)
  <1>1. pc[c] \notin {"allowed", "ran", "outcome"}
    BY RefusedBlocks
  <1>2. ASSUME Asking(c), answer[c] = "released" PROVE FALSE
    <2>1. Active(c) /\ IdOf[c] \in held
      BY <1>2 DEF Asking, Active, Own
    <2>2. ReadvanceRefused(c)
      BY <1>2, <2>1
      DEF Refused, PlanRefused, AdvanceRefused, NotApproved, Vanished, Answered, Asking
    <2>3. subject[c] \in Subject /\ subject[c].policy = policy /\ policy[Kind[c]] = "ask"
      BY <1>2, <2>2, ConstantsAssumption
      DEF Typed, Answers_OK, SamePolicy, Asked, ReadvanceRefused, Answered
    <2> QED BY <1>2, <2>2, <2>3 DEF ReadvanceRefused, ReleasedAfterAsk, Verdict
  <1> QED BY <1>1, <1>2 DEF Carrier, Granted, InProgress

\* Every step leaves each unsettled release in some call's hands.
LEMMA CarriedStep ==
    ASSUME Typed, Closing, Own, Fresh, SamePolicy, Asked, Carried, [Next]_vars
    PROVE  Carried'
  <1>1. ASSUME NEW c \in Calls, Reject(c) PROVE Carried'
    BY <1>1
    DEF Reject, Go, handlers, Carried, Carrier, Granted, InProgress, Asking, Typed, TypeOK
  <1>2. ASSUME NEW c \in Calls, Overlap(c) PROVE Carried'
    BY <1>2 DEF Overlap, Go, Carried, Carrier, Granted, InProgress, Asking, Typed, TypeOK
  <1>3. ASSUME NEW c \in Calls, Lease(c) PROVE Carried'
    BY <1>3
    DEF Lease, Conflicts, Send, Go, Carried, Carrier, Granted, InProgress, Asking, Typed,
        TypeOK
  <1>4. ASSUME NEW c \in Calls, Refused(c) PROVE Carried'
    <2>1. Block(c) /\ UNCHANGED <<edits, faults, sd, poisoned, releases, outcomes, run>>
      BY <1>4, RefusedBlocks DEF Block
    <2>2. edits = 0 /\ sd = "off" => ~Carrier(c)
      BY <1>4, RefusedIsFree DEF Closing
    <2>3. \A d \in Calls \ {c} : (Carrier(d)' <=> Carrier(d)) /\ subject'[d] = subject[d]
      BY <2>1
      DEF Block, Return, Send, Go, Carrier, Granted, InProgress, Asking, Typed, TypeOK
    <2> HIDE DEF Carrier
    <2> QED BY <2>1, <2>2, <2>3 DEF Carried
  <1>5. ASSUME NEW c \in Calls, Planned(c) PROVE Carried'
    BY <1>5
    DEF Planned, NeedsExclusive, IsAlone, Answered, Send, Go, Carried, Carrier, Granted,
        InProgress, Asking, Typed, TypeOK
  <1>6. ASSUME NEW c \in Calls, Ask(c) PROVE Carried'
    BY <1>6
    DEF Ask, Answered, Go, Carried, Carrier, Granted, InProgress, Asking, Typed, TypeOK
  <1>7. ASSUME NEW c \in Calls, NEW yes \in BOOLEAN, Select(c, yes) PROVE Carried'
    BY <1>7
    DEF Select, Send, Go, Carried, Carrier, Granted, InProgress, Asking, Typed, TypeOK
  <1>8. ASSUME NEW c \in Calls, Approved(c) PROVE Carried'
    BY <1>8
    DEF Approved, Answered, Send, Go, Carried, Carrier, Granted, InProgress, Asking, Typed,
        TypeOK
  <1>9. ASSUME NEW c \in Calls, Release(c) PROVE Carried'
    BY <1>9
    DEF Release, ReleasedAfterAsk, Answered, Send, Go, Carried, Carrier, Granted,
        InProgress, Asking, Typed, TypeOK, Closing
  <1>10. ASSUME NEW c \in Calls, Settled(c) PROVE Carried'
    <2>1. CASE answer[c] # "recorded"
      BY <2>1, <1>10 DEF Settled, Carried
    <2>2. CASE answer[c] = "recorded"
      <3>1. UNCHANGED <<edits, faults, sd, poisoned, releases, outcomes, run>>
        BY <2>2, <1>10 DEF Settled
      <3>2. sd = "off" => subject[c] \in outcomes
        BY <2>2, <1>10 DEF Settled, Answered, Fresh, Asked
      <3>3. \A d \in Calls \ {c} : (Carrier(d)' <=> Carrier(d)) /\ subject'[d] = subject[d]
        BY <1>10
        DEF Settled, Return, Send, Go, Carrier, Granted, InProgress, Asking, Typed, TypeOK
      <3> HIDE DEF Carrier
      <3> QED BY <3>1, <3>2, <3>3 DEF Carried
    <2> QED BY <2>1, <2>2
  <1>11. ASSUME NEW c \in Calls, UnknownResult(c) PROVE Carried'
    BY <1>11
    DEF UnknownResult, Return, Send, Go, Carried, Carrier, Granted, InProgress, Asking,
        Typed, TypeOK
  <1>12. ASSUME NEW c \in Calls, Result(c) PROVE Carried'
    <2>1. UNCHANGED <<edits, faults, sd, poisoned, releases, outcomes, run>>
      BY <1>12 DEF Result
    <2>2. sd = "off" => released[IdOf[c]] = subject[c]
      BY <1>12 DEF Result, Own, Active, Closing
    <2>3. Carrier(c)' /\ subject'[c] = released[IdOf[c]]
      BY <1>12 DEF Result, Send, Go, Carrier, Typed, TypeOK
    <2>4. \A d \in Calls \ {c} : (Carrier(d)' <=> Carrier(d)) /\ subject'[d] = subject[d]
      BY <1>12 DEF Result, Send, Go, Carrier, Granted, InProgress, Asking, Typed, TypeOK
    <2> HIDE DEF Carrier
    <2> QED BY <2>1, <2>2, <2>3, <2>4 DEF Carried
  <1>13. ASSUME NEW c \in Calls, ToolChanges(c) PROVE Carried'
    BY <1>13
    DEF ToolChanges, Go, Carried, Carrier, Granted, InProgress, Asking, Typed, TypeOK
  <1>14. ASSUME NEW c \in Calls, CorePlan(c) PROVE Carried'
    BY <1>14
    DEF CorePlan, Answer, Carried, Carrier, Granted, InProgress, Asking, Typed, TypeOK
  <1>15. ASSUME NEW c \in Calls, CoreStart(c) PROVE Carried'
    BY <1>15
    DEF CoreStart, Answer, Carried, Carrier, Granted, InProgress, Asking, Typed, TypeOK
  <1>16. ASSUME NEW c \in Calls, CoreBlocks(c) PROVE Carried'
    BY <1>16
    DEF CoreBlocks, Answer, Carried, Carrier, Granted, InProgress, Asking, Typed, TypeOK
  <1>17. ASSUME NEW c \in Calls, CoreAdvance(c) PROVE Carried'
    <2>1. PICK s \in Subject : CommitsAs(c, s)
      BY <1>17, AdvanceCommits
    <2>2. UNCHANGED <<edits, faults, sd, poisoned, outcomes, run>>
      BY <1>17, AdvanceKeeps
    <2>3. \A d \in Calls \ {c} : (Carrier(d)' <=> Carrier(d)) /\ subject'[d] = subject[d]
      BY <2>1, <1>17, AdvanceKeeps
      DEF CommitsAs, Carrier, Granted, InProgress, Asking, Typed, TypeOK
    <2>4. ~Carrier(c)
      BY <1>17, AdvanceKeeps DEF Typed, Answers_OK, Asking, Carrier, Granted, InProgress
    <2>5. \/ releases' = releases
          \/ releases' = releases \cup {s} /\ Carrier(c)' /\ subject'[c] = s
      BY <2>1, <1>17, AdvanceKeeps
      DEF CommitsAs, Carrier, Granted, Asking, Typed, TypeOK, Answers_OK
    <2> HIDE DEF Carrier
    <2> QED BY <2>2, <2>3, <2>4, <2>5 DEF Carried
  <1>18. ASSUME NEW c \in Calls, CoreApprove(c) PROVE Carried'
    BY <1>18
    DEF CoreApprove, Answer, Carried, Carrier, Granted, InProgress, Asking, Typed, TypeOK
  <1>19. ASSUME NEW c \in Calls, CoreOutcome(c) PROVE Carried'
    BY <1>19
    DEF CoreOutcome, Answer, Carried, Carrier, Granted, InProgress, Asking, Typed, TypeOK
  <1>20. ASSUME NEW c \in Calls, Lost(c) PROVE Carried'
    BY <1>20 DEF Lost, Answer, Carried, Carrier, Granted, InProgress, Asking, Typed, TypeOK
  <1>21. ASSUME BeginShutdown PROVE Carried'
    BY <1>21
    DEF BeginShutdown, Sweep, Stuck, Carried, Carrier, Granted, InProgress, Asking, Typed,
        TypeOK, Closing
  <1>22. ASSUME InterruptionAnswered PROVE Carried'
    BY <1>22
    DEF InterruptionAnswered, Sweep, Stuck, Carried, Carrier, Granted, InProgress, Asking,
        Typed, TypeOK
  <1>23. ASSUME ClosingFailed PROVE Carried'
    BY <1>23
    DEF ClosingFailed, Stuck, Carried, Carrier, Granted, InProgress, Asking, Typed, TypeOK
  <1>24. ASSUME CleanedUp PROVE Carried'
    BY <1>24 DEF CleanedUp, Carried, Carrier, Granted, InProgress, Asking, Typed, TypeOK
  <1>25. ASSUME Closed PROVE Carried'
    BY <1>25
    DEF Closed, Carried, Carrier, Granted, InProgress, Asking, Typed, TypeOK, Closing
  <1>26. ASSUME CoreInterruption PROVE Carried'
    BY <1>26
    DEF CoreInterruption, Carried, Carrier, Granted, InProgress, Asking, Typed, TypeOK
  <1>27. ASSUME CoreCleanup PROVE Carried'
    BY <1>27 DEF CoreCleanup, Carried, Carrier, Granted, InProgress, Asking, Typed, TypeOK
  <1>28. ASSUME CoreClose PROVE Carried'
    BY <1>28 DEF CoreClose, Carried, Carrier, Granted, InProgress, Asking, Typed, TypeOK
  <1>29. ASSUME LostInShutdown PROVE Carried'
    BY <1>29
    DEF LostInShutdown, Carried, Carrier, Granted, InProgress, Asking, Typed, TypeOK
  <1>30. ASSUME UserEdits PROVE Carried'
    BY <1>30 DEF UserEdits, Carried, Carrier, Granted, InProgress, Asking, Typed, TypeOK
  <1>31. ASSUME UNCHANGED vars PROVE Carried'
    BY <1>31 DEF Carried, Carrier, Granted, InProgress, Asking, Typed, TypeOK, vars
  <1> QED
    BY <1>1, <1>2, <1>3, <1>4, <1>5, <1>6, <1>7, <1>8, <1>9, <1>10, <1>11, <1>12, <1>13,
       <1>14, <1>15, <1>16, <1>17, <1>18, <1>19, <1>20, <1>21, <1>22, <1>23, <1>24,
       <1>25, <1>26, <1>27, <1>28, <1>29, <1>30, <1>31
    DEF Next, Handler, Core, Shutdown, Refused

\* Every step of a quiet shutdown leaves everything settled.
LEMMA QuietStep ==
    ASSUME Typed, Closing, Own, Fresh, Carried, Quiet, [Next]_vars
    PROVE  Quiet'
  <1>1. ASSUME NEW c \in Calls, Reject(c) PROVE Quiet'
    BY <1>1 DEF Reject, Go, handlers, Quiet, Active, Typed, TypeOK, Closing
  <1>2. ASSUME NEW c \in Calls, Overlap(c) PROVE Quiet'
    BY <1>2 DEF Overlap, Go, Quiet, Active, Typed, TypeOK, Closing
  <1>3. ASSUME NEW c \in Calls, Lease(c) PROVE Quiet'
    BY <1>3 DEF Lease, Conflicts, Send, Go, Quiet, Active, Typed, TypeOK, Closing
  <1>4. ASSUME NEW c \in Calls, Refused(c) PROVE Quiet'
    BY <1>4, RefusedBlocks
    DEF Block, Return, Send, Go, RemoveActiveCall, Quiet, Active, Typed, TypeOK, Closing
  <1>5. ASSUME NEW c \in Calls, Planned(c) PROVE Quiet'
    BY <1>5
    DEF Planned, NeedsExclusive, IsAlone, Answered, Send, Go, Quiet, Active, Typed, TypeOK,
        Closing
  <1>6. ASSUME NEW c \in Calls, Ask(c) PROVE Quiet'
    BY <1>6 DEF Ask, Answered, Go, Quiet, Active, Typed, TypeOK, Closing
  <1>7. ASSUME NEW c \in Calls, NEW yes \in BOOLEAN, Select(c, yes) PROVE Quiet'
    BY <1>7 DEF Select, Send, Go, Quiet, Active, Typed, TypeOK, Closing
  <1>8. ASSUME NEW c \in Calls, Approved(c) PROVE Quiet'
    BY <1>8 DEF Approved, Answered, Send, Go, Quiet, Active, Typed, TypeOK, Closing
  <1>9. ASSUME NEW c \in Calls, Release(c) PROVE Quiet'
    BY <1>9
    DEF Release, ReleasedAfterAsk, Answered, Send, Go, Quiet, Active, Typed, TypeOK, Closing
  <1>10. ASSUME NEW c \in Calls, Settled(c) PROVE Quiet'
    BY <1>10
    DEF Settled, Answered, Return, Send, Go, RemoveActiveCall, Quiet, Active, Typed, TypeOK,
        Closing
  <1>11. ASSUME NEW c \in Calls, UnknownResult(c) PROVE Quiet'
    BY <1>11 DEF UnknownResult, Return, Send, Go, Quiet, Active, Typed, TypeOK, Closing
  <1>12. ASSUME NEW c \in Calls, Result(c) PROVE Quiet'
    BY <1>12 DEF Result, Send, Go, Quiet, Active, Typed, TypeOK, Closing
  <1>13. ASSUME NEW c \in Calls, ToolChanges(c) PROVE Quiet'
    BY <1>13 DEF ToolChanges, Go, Quiet, Active, Typed, TypeOK, Closing
  <1>14. ASSUME NEW c \in Calls, CorePlan(c) PROVE Quiet'
    BY <1>14 DEF CorePlan, Answer, Quiet, Active, Typed, TypeOK, Closing
  <1>15. ASSUME NEW c \in Calls, CoreStart(c) PROVE Quiet'
    BY <1>15 DEF CoreStart, Answer, Quiet, Active, Typed, TypeOK, Closing
  <1>16. ASSUME NEW c \in Calls, CoreBlocks(c) PROVE Quiet'
    BY <1>16 DEF CoreBlocks, Answer, Quiet, Active, Typed, TypeOK, Closing
  <1>17. ASSUME NEW c \in Calls, CoreAdvance(c) PROVE Quiet'
    BY <1>17, AdvanceKeeps DEF Open, Asking, Answers_OK, Quiet, Active, Typed, TypeOK
  <1>18. ASSUME NEW c \in Calls, CoreApprove(c) PROVE Quiet'
    BY <1>18 DEF CoreApprove, Answer, Quiet, Active, Typed, TypeOK, Closing
  <1>19. ASSUME NEW c \in Calls, CoreOutcome(c) PROVE Quiet'
    BY <1>19 DEF CoreOutcome, Answer, Open, Quiet, Active, Typed, TypeOK
  <1>20. ASSUME NEW c \in Calls, Lost(c) PROVE Quiet'
    BY <1>20 DEF Lost, Answer, Quiet, Active, Typed, TypeOK, Closing
  <1>21. ASSUME BeginShutdown PROVE Quiet'
    <2>1. sd = "off" /\ run = "running" /\ UNCHANGED <<run, releases, outcomes, pc, edits, faults>>
      BY <1>21 DEF BeginShutdown, Closing
    <2>2. ASSUME ~WasInterrupted PROVE \A c \in Calls : ~Active(c)
      BY <2>1, <2>2 DEF WasInterrupted, Own
    <2>3. ASSUME ~WasInterrupted, edits = 0, faults = 0 PROVE releases = outcomes
      BY <2>1, <2>2, <2>3
      DEF WasInterrupted, Carried, Carrier, Granted, InProgress, Asking, Active, Fresh
    <2>4. interrupted' = WasInterrupted /\ \A c \in Calls : Active(c)' <=> Active(c)
      BY <2>1, <1>21 DEF BeginShutdown, Active
    <2> HIDE DEF Active
    <2> QED BY <2>1, <2>2, <2>3, <2>4 DEF Quiet
  <1>22. ASSUME InterruptionAnswered PROVE Quiet'
    BY <1>22 DEF InterruptionAnswered, Sweep, Stuck, Quiet, Active, Typed, TypeOK, Closing
  <1>23. ASSUME ClosingFailed PROVE Quiet'
    BY <1>23 DEF ClosingFailed, Stuck, Quiet, Active, Typed, TypeOK, Closing
  <1>24. ASSUME CleanedUp PROVE Quiet'
    BY <1>24 DEF CleanedUp, Quiet, Active, Typed, TypeOK, Closing
  <1>25. ASSUME Closed PROVE Quiet'
    BY <1>25 DEF Closed, Quiet, Active, Typed, TypeOK, Closing
  <1>26. ASSUME CoreInterruption PROVE Quiet'
    BY <1>26 DEF CoreInterruption, Fresh, Quiet, Active, Typed, TypeOK
  <1>27. ASSUME CoreCleanup PROVE Quiet'
    BY <1>27 DEF CoreCleanup, Quiet, Active, Typed, TypeOK, Closing
  <1>28. ASSUME CoreClose PROVE Quiet'
    BY <1>28 DEF CoreClose, Quiet, Active, Typed, TypeOK, Closing
  <1>29. ASSUME LostInShutdown PROVE Quiet'
    BY <1>29 DEF LostInShutdown, Quiet, Active, Typed, TypeOK, Closing
  <1>30. ASSUME UserEdits PROVE Quiet'
    BY <1>30 DEF UserEdits, Quiet, Active, Typed, TypeOK, Closing
  <1>31. ASSUME UNCHANGED vars PROVE Quiet'
    BY <1>31 DEF Quiet, Active, Typed, TypeOK, vars
  <1> QED
    BY <1>1, <1>2, <1>3, <1>4, <1>5, <1>6, <1>7, <1>8, <1>9, <1>10, <1>11, <1>12, <1>13,
       <1>14, <1>15, <1>16, <1>17, <1>18, <1>19, <1>20, <1>21, <1>22, <1>23, <1>24,
       <1>25, <1>26, <1>27, <1>28, <1>29, <1>30, <1>31
    DEF Next, Handler, Core, Shutdown, Refused

-----------------------------------------------------------------------------
(* The invariant, and what follows                                          *)

IInv == /\ Typed /\ Leases /\ Closing /\ Own /\ Fresh /\ Consented
        /\ SamePolicy /\ Exclusive /\ Pairs /\ Evidence
        /\ Asked /\ Carried /\ Quiet

\* A session starts without calls and without evidence.
LEMMA InitInv == Init => IInv
  <1> SUFFICES ASSUME Init PROVE IInv
    OBVIOUS
  <1>1. \A c \in Calls : ~Active(c) /\ ~Asking(c) /\ ~Granted(c)
    BY DEF Init, Active, Asking, Granted, InProgress
  <1>2. Typed
    <2>1. /\ released \in [Ids -> Subject \cup {NoSubject}]
          /\ subject \in [Calls -> Subject \cup {NoSubject}]
      BY DEF Init
    <2>2. /\ pc = [c \in Calls |-> "idle"] /\ answer = [c \in Calls |-> "none"]
          /\ version \in 0..MaxVersion /\ edits \in 0..MaxTroubles /\ faults \in 0..MaxTroubles
      BY ConstantsAssumption DEF Init
    <2>3. TypeOK
      BY <2>1, <2>2 DEF Init, TypeOK
    <2> QED BY <2>3 DEF Init, Typed, Answers_OK, Asking
  <1>3. Leases /\ Closing /\ Own
    BY <1>1 DEF Init, Leases, LeasesReturn, Closing, Own
  <1>4. Fresh /\ Consented
    BY <1>1 DEF Init, Fresh, Consented
  <1>5. SamePolicy /\ Exclusive /\ Pairs /\ Evidence
    BY <1>1 DEF Init, SamePolicy, Exclusive, Pairs, Evidence
  <1>6. Asked /\ Carried /\ Quiet
    BY <1>1 DEF Init, Asked, Carried, Quiet
  <1> QED BY <1>2, <1>3, <1>4, <1>5, <1>6 DEF IInv

\* Every step keeps the invariant.
LEMMA NextInv == IInv /\ [Next]_vars => IInv'
  <1> SUFFICES ASSUME IInv, [Next]_vars PROVE IInv'
    OBVIOUS
  <1> USE DEF IInv
  <1>1. Typed' /\ Leases' /\ Closing'
    BY TypedStep, LeasesStep, ClosingStep
  <1>2. Own' /\ Fresh' /\ Consented'
    BY OwnStep, FreshStep, ConsentedStep
  <1>3. SamePolicy' /\ Exclusive'
    BY SamePolicyStep, ExclusiveStep
  <1>4. Pairs' /\ Evidence'
    BY <1>1, <1>3, PairsStep, EvidenceStep
  <1>5. Asked' /\ Carried' /\ Quiet'
    BY AskedStep, CarriedStep, QuietStep
  <1> QED BY <1>1, <1>2, <1>3, <1>4, <1>5

\* The invariant holds throughout a session.
LEMMA SpecInv == Spec => []IInv
  BY InitInv, NextInv, PTL DEF Spec

\* Every variable keeps its type in every session.
THEOREM TypeCorrect == Spec => []TypeOK
  <1>1. IInv => TypeOK
    BY DEF IInv, Typed
  <1> QED BY <1>1, SpecInv, PTL

\* A call that is over gives its lease back unless further calls are refused:
\* every early return of tool_call and every settled result.
THEOREM NobodyLockedOut == Spec => []LeasesReturn
  <1>1. IInv => LeasesReturn
    BY DEF IInv, Leases
  <1> QED BY <1>1, SpecInv, PTL

\* What runs after the user was asked has the user's yes for its very subject.
THEOREM ConsentFirst == Spec => []AskedIsConsented
  <1>1. IInv => AskedIsConsented
    BY DEF IInv, Consented, AskedIsConsented, Granted
  <1> QED BY <1>1, SpecInv, PTL

\* Every call let through has a release of its own, not settled before.
THEOREM OwnRelease == Spec => []OneReleasePerCall
  <1>1. IInv => OneReleasePerCall
    BY DEF IInv, Fresh, OneReleasePerCall, Granted
  <1> QED BY <1>1, SpecInv, PTL

\* Without outside edits, whatever must be alone runs alone.
THEOREM ExclusiveAlone == Spec => []ExclusiveRunsAlone
  <1>1. IInv => ExclusiveRunsAlone
    BY DEF IInv, Pairs, ExclusiveRunsAlone, Granted
  <1> QED BY <1>1, SpecInv, PTL

\* Without outside edits, a call runs on the workspace its gates were run on.
THEOREM EvidenceFresh == Spec => []EvidenceIsFresh
  <1>1. IInv => EvidenceIsFresh
    BY DEF IInv, Evidence, EvidenceIsFresh, Granted, InProgress
  <1> QED BY <1>1, SpecInv, PTL

\* A run closed as completed has an outcome for every release.
THEOREM CompletedSettled == Spec => []CompletedIsSettled
  <1>1. IInv => CompletedIsSettled
    BY DEF IInv, Quiet, Closing, CompletedIsSettled
  <1> QED BY <1>1, SpecInv, PTL

\* Poison is lifted only by the shutdown that has closed the run.
THEOREM PoisonKept == Spec => PoisonUntilClosed
  <1>1. ASSUME IInv, [Next]_vars PROVE [poisoned /\ ~poisoned' => run # "running"]_vars
    <2>1. ASSUME NEW c \in Calls, Handler(c) \/ ToolChanges(c) \/ Core(c) PROVE poisoned => poisoned'
      <3>2. ASSUME Refused(c) PROVE poisoned => poisoned'
        BY <3>2, RefusedBlocks DEF Block
      <3>3. ASSUME Handler(c), ~Refused(c) PROVE poisoned => poisoned'
        BY <3>3
        DEF Handler, Refused, Reject, Overlap, Lease, Planned, Ask, Select, Approved,
                    Release, Settled, UnknownResult, Result
      <3>4. ASSUME Core(c) PROVE poisoned => poisoned'
        BY <3>4
        DEF Core, CorePlan, CoreStart, CoreBlocks, CoreAdvance, CoreApprove, CoreOutcome,
            Lost
      <3>5. ASSUME ToolChanges(c) PROVE poisoned => poisoned'
        BY <3>5 DEF ToolChanges
      <3> QED BY <2>1, <3>2, <3>3, <3>4, <3>5
    <2>2. ASSUME Shutdown, ~Closed PROVE poisoned => poisoned'
      BY <2>2
      DEF Shutdown, BeginShutdown, InterruptionAnswered, Sweep, Stuck, ClosingFailed,
          CleanedUp,
                  CoreInterruption, CoreCleanup, CoreClose, LostInShutdown
    <2>3. ASSUME Closed PROVE run # "running"
      BY <1>1, <2>3 DEF Closed, IInv, Closing
    <2>4. ASSUME UserEdits PROVE poisoned => poisoned'
      BY <2>4 DEF UserEdits
    <2> QED BY <1>1, <2>1, <2>2, <2>3, <2>4 DEF Next
  <1> QED BY <1>1, SpecInv, PTL DEF Spec, PoisonUntilClosed
=============================================================================
