---------------------------- MODULE GateExecutorProofs ----------------------------
(***************************************************************************)
(* Proofs about GateExecutor: the two safety properties of a gate, for any  *)
(* tools, processes, limits and disturbances.                               *)
(*                                                                          *)
(* That an outcome is complete rests on three parts: nobody opens a stream  *)
(* again that nobody holds, so the end that a collector saw is the end      *)
(* (Collected); unless the limit was exceeded all that was read was kept;   *)
(* and a gate is called ended only after its leader and both collectors     *)
(* (Settled).  That a gate runs with bound tools rests on what is checked   *)
(* staying as it was, up to changes made after the check began (Checked).   *)
(***************************************************************************)
EXTENDS GateExecutor, TLAPS

\* What a launch has bound once it has begun to link.
Bound_OK ==
    pc \notin {"mkdir", "scan", "failed"} =>
        /\ bound = [tmp |-> bound.tmp, entries |-> bound.entries]
        /\ bound.tmp \in {0, Own, Other}
        /\ DOMAIN bound.entries \subseteq Desired
        /\ \A n \in DOMAIN bound.entries : bound.entries[n].path \in Paths

\* TypeOK with the types it leaves out.
Typed ==
    /\ TypeOK /\ Bound_OK
    /\ lookup \in [Desired \ System -> Paths \cup {Absent}]
    /\ content = [p \in Paths |-> content[p]]
    /\ alias \in [Desired -> Paths \cup {Absent}]
    /\ todo \subseteq Desired /\ DOMAIN found \subseteq Desired
    /\ pc = "link" => todo \subseteq DOMAIN found
    /\ pc = "entries" => gates < MaxGates
    /\ proc \in [Processes -> [live : BOOLEAN, grouped : BOOLEAN, holds : SUBSET Streams]]
    /\ written \in [Streams -> Nat] /\ read \in [Streams -> Nat] /\ kept \in [Streams -> Nat]
    /\ eof \subseteq Streams
    /\ exceeded \in BOOLEAN /\ late \in BOOLEAN /\ status \in BOOLEAN

\* A stream at its end has no writer and nothing unread; nothing that was read
\* is missing, unless the limit was exceeded.
Collected ==
    /\ \A s \in eof : read[s] = written[s] /\ \A p \in Processes : s \notin proc[p].holds
    /\ ~exceeded => kept = read /\ kept["stdout"] + kept["stderr"] <= Limit

\* An exit the supervisor knows of has happened; an outcome is that of a gate
\* whose leader and collectors have finished.
Settled ==
    /\ status => ~proc[Leader].live
    /\ pc \in {"join", "join_late"} => status
    /\ outcome # "none" => pc \notin Supervised /\ eof = Streams /\ status
    /\ outcome = "ok" => ~exceeded

\* What was checked is as it was bound, or was changed since the check began.
Checked ==
    /\ pc \in {"confirm_entries", "entries"} \cup Supervised =>
        /\ "tmp" \in touched \/ tmp = bound.tmp
        /\ \A n \in DOMAIN bound.entries \ todo :
              LET entry == bound.entries[n]
              IN  /\ entry.path \in touched \/ content[entry.path] = entry.integrity
                  /\ n \in touched \/ alias[n] = entry.path
    /\ pc \in Supervised => todo = {}

IInv == Typed /\ Collected /\ Settled /\ Checked

-----------------------------------------------------------------------------
USE DEF At, Own, Other, tools, output, OnlyTools, OnlyGate, OnlyProcesses

LEMMA InitInv == Init => IInv
  <1> SUFFICES ASSUME Init PROVE IInv
    OBVIOUS
  <1>1. TypeOK
    BY GateExecutorAssumption DEF Init, TypeOK, Gone, Nothing, Streams, Supervised
  <1>2. Bound_OK /\ alias \in [Desired -> Paths \cup {Absent}] /\ content = [p \in Paths |-> content[p]]
    BY DEF Init, Bound_OK
  <1>3. proc \in [Processes -> [live : BOOLEAN, grouped : BOOLEAN, holds : SUBSET Streams]]
    BY DEF Init, Gone
  <1>4. Typed
    BY <1>1, <1>2, <1>3 DEF Init, Typed, Nothing
  <1>5. Collected
    BY GateExecutorAssumption DEF Init, Collected, Nothing, Streams
  <1>6. Settled /\ Checked
    BY GateExecutorAssumption DEF Init, Settled, Checked, Gone, Processes, Supervised
  <1> QED BY <1>4, <1>5, <1>6 DEF IInv

\* Every step keeps the types.
LEMMA TypedStep ==
    ASSUME Typed, [Next]_vars
    PROVE  Typed'
  <1>1. ASSUME MakeScratch PROVE Typed'
    BY <1>1 DEF MakeScratch, Typed, TypeOK, Bound_OK, Supervised, Streams, Processes
  <1>2. ASSUME RefuseExecutable PROVE Typed'
    BY <1>2 DEF RefuseExecutable, PrepareFails, Typed, TypeOK, Bound_OK, Supervised,
       Streams, Processes
  <1>3. ASSUME JudgeEntryPoints PROVE Typed'
    BY <1>3 DEF JudgeEntryPoints, PrepareFails, Typed, TypeOK, Bound_OK, Supervised,
       Streams, Processes
  <1>4. ASSUME WriteManifest PROVE Typed'
    BY <1>4 DEF WriteManifest, Typed, TypeOK, Bound_OK, Supervised, Streams,
       Processes
  <1>5. ASSUME Confirm PROVE Typed'
    BY <1>5 DEF Confirm, CheckManifest, Rejected, Typed, TypeOK, Bound_OK,
       Supervised, Streams, Processes
  <1>6. ASSUME Keep PROVE Typed'
    BY <1>6 DEF Keep, Typed, TypeOK, Bound_OK, Supervised, Streams, Processes
  <1>7. ASSUME NEW n \in Desired, Resolve(n) PROVE Typed'
    BY <1>7 DEF Resolve, Typed, TypeOK, Bound_OK, Supervised, Streams, Processes
  <1>8. ASSUME NEW n \in Desired, LinkAlias(n) PROVE Typed'
    BY <1>8 DEF LinkAlias, Typed, TypeOK, Bound_OK, Supervised, Streams, Processes
  <1>9. ASSUME Validate PROVE Typed'
    BY <1>9 DEF Validate, CheckManifest, Rejected, Typed, TypeOK, Bound_OK,
       Supervised, Streams, Processes
  <1>10. ASSUME NEW n \in Desired, CheckEntry(n) PROVE Typed'
    BY <1>10 DEF CheckEntry, Unchanged, Rejected, Typed, TypeOK, Bound_OK,
       Supervised, Streams, Processes
  <1>11. ASSUME Spawn PROVE Typed'
    <2>1. proc' \in [Processes -> [live : BOOLEAN, grouped : BOOLEAN, holds : SUBSET Streams]]
      BY <1>11 DEF Spawn, Gone
    <2>2. \A q \in Processes : proc'[q].holds # {} => proc'[q].live
      BY <1>11 DEF Spawn, Gone
    <2>3. \A v \in {written', read', kept'} : v = Nothing
      BY <1>11 DEF Spawn
    <2>4. Nothing \in [Streams -> Nat] /\ \A s \in Streams : Nothing[s] <= Nothing[s]
      BY DEF Nothing
    <2>5. TypeOK'
      <3>1. \A s \in Streams : kept'[s] <= read'[s] /\ read'[s] <= written'[s]
        BY <2>3, <2>4
      <3>2. gates' \in 0 .. MaxGates
        BY <1>11, GateExecutorAssumption DEF Spawn, Typed, TypeOK
      <3> QED BY <2>2, <3>1, <3>2, <1>11 DEF Spawn, Typed, TypeOK, Supervised
    <2>6. Bound_OK'
      BY <1>11 DEF Spawn, Typed, Bound_OK
    <2> QED BY <2>1, <2>3, <2>4, <2>5, <2>6, <1>11, GateExecutorAssumption DEF Spawn, Typed
  <1>12. ASSUME WatchLimit PROVE Typed'
    BY <1>12 DEF WatchLimit, Typed, TypeOK, Bound_OK, Supervised, Streams, Processes
  <1>13. ASSUME WatchDeadline PROVE Typed'
    BY <1>13 DEF WatchDeadline, Typed, TypeOK, Bound_OK, Supervised, Streams,
       Processes
  <1>14. ASSUME PollLeader PROVE Typed'
    BY <1>14 DEF PollLeader, Typed, TypeOK, Bound_OK, Supervised, Streams, Processes
  <1>15. ASSUME WatchCollectors PROVE Typed'
    BY <1>15 DEF WatchCollectors, Typed, TypeOK, Bound_OK, Supervised, Streams,
       Processes
  <1>16. ASSUME KillGroup PROVE Typed'
    BY <1>16 DEF KillGroup, Gone, Typed, TypeOK, Bound_OK, Supervised, Streams,
       Processes
  <1>17. ASSUME WaitLeader PROVE Typed'
    BY <1>17 DEF WaitLeader, Typed, TypeOK, Bound_OK, Supervised, Streams, Processes
  <1>18. ASSUME Conclude PROVE Typed'
    BY <1>18 DEF Conclude, Typed, TypeOK, Bound_OK, Supervised, Streams, Processes
  <1>19. ASSUME BeginCleanup PROVE Typed'
    BY <1>19 DEF BeginCleanup, Typed, TypeOK, Bound_OK, Supervised, Streams,
       Processes
  <1>20. ASSUME RemoveScratch PROVE Typed'
    BY <1>20 DEF RemoveScratch, Typed, TypeOK, Bound_OK, Supervised, Streams,
       Processes
  <1>21. ASSUME DeadlinePasses PROVE Typed'
    BY <1>21 DEF DeadlinePasses, Typed, TypeOK, Bound_OK, Supervised, Streams,
       Processes
  <1>22. ASSUME NEW s \in Streams, Collect(s) PROVE Typed'
    <2>1. read'[s] <= written'[s] /\ kept'[s] <= read'[s] /\ UNCHANGED written
      BY <1>22 DEF Collect, Typed, TypeOK
    <2>2. read' \in [Streams -> Nat] /\ kept' \in [Streams -> Nat]
      BY <1>22 DEF Collect, Typed
    <2>4. exceeded' \in BOOLEAN
      BY <1>22 DEF Collect, Typed
    <2>3. \A t \in Streams \ {s} : read'[t] = read[t] /\ kept'[t] = kept[t]
      BY <1>22 DEF Collect, Typed
    <2> QED BY <2>1, <2>2, <2>3, <2>4, <1>22 DEF Collect, Typed, TypeOK, Bound_OK, Supervised, Streams, Processes
  <1>23. ASSUME NEW s \in Streams, EndOfStream(s) PROVE Typed'
    BY <1>23 DEF EndOfStream, Typed, TypeOK, Bound_OK, Supervised, Streams,
       Processes
  <1>24. ASSUME NEW p \in Processes, NEW s \in Streams, Write(p, s) PROVE Typed'
    BY <1>24 DEF Write, Typed, TypeOK, Bound_OK, Supervised, Streams, Processes
  <1>25. ASSUME NEW p \in Processes, NEW q \in Processes, Fork(p, q) PROVE Typed'
    BY <1>25 DEF Fork, Typed, TypeOK, Bound_OK, Supervised, Streams, Processes
  <1>26. ASSUME NEW p \in Processes, LeaveGroup(p) PROVE Typed'
    <2>1. proc' \in [Processes -> [live : BOOLEAN, grouped : BOOLEAN, holds : SUBSET Streams]]
      BY <1>26 DEF LeaveGroup, Typed
    <2>2. \A q \in Processes : proc'[q].holds = proc[q].holds /\ proc'[q].live = proc[q].live
      BY <1>26 DEF LeaveGroup, Typed
    <2> QED BY <2>1, <2>2, <1>26 DEF LeaveGroup, Typed, TypeOK, Bound_OK, Supervised, Streams, Processes
  <1>27. ASSUME NEW p \in Processes, Exit(p) PROVE Typed'
    BY <1>27 DEF Exit, Gone, Typed, TypeOK, Bound_OK, Supervised, Streams, Processes
  <1>28. ASSUME ReplaceScratch PROVE Typed'
    BY <1>28 DEF ReplaceScratch, Disturb, Typed, TypeOK, Bound_OK, Supervised,
       Streams, Processes
  <1>29. ASSUME Rewrite PROVE Typed'
    BY <1>29 DEF Rewrite, Disturb, Typed, TypeOK, Bound_OK, Supervised, Streams,
       Processes
  <1>30. ASSUME NEW p \in Paths, Upgrade(p) PROVE Typed'
    BY <1>30 DEF Upgrade, Disturb, Typed, TypeOK, Bound_OK, Supervised, Streams,
       Processes
  <1>31. ASSUME NEW n \in Desired \ System, ChangePath(n) PROVE Typed'
    BY <1>31 DEF ChangePath, Disturb, Typed, TypeOK, Bound_OK, Supervised, Streams,
       Processes
  <1>32. ASSUME NEW n \in Desired \ System, Relink(n) PROVE Typed'
    BY <1>32 DEF Relink, Disturb, Typed, TypeOK, Bound_OK, Supervised, Streams,
       Processes
  <1>33. ASSUME UNCHANGED vars PROVE Typed'
    BY <1>33 DEF vars, Typed, TypeOK, Bound_OK, Supervised, Streams, Processes
  <1> QED
    BY <1>1, <1>2, <1>3, <1>4, <1>5, <1>6, <1>7, <1>8, <1>9, <1>10, <1>11, <1>12,
       <1>13, <1>14, <1>15, <1>16, <1>17, <1>18, <1>19, <1>20, <1>21, <1>22, <1>23,
       <1>24, <1>25, <1>26, <1>27, <1>28, <1>29, <1>30, <1>31, <1>32, <1>33 DEF
       Next, Prepare, Execute, Supervise, Cleanup, Gate, Others

\* Every step keeps what the collectors have in line with what was written.
LEMMA CollectedStep ==
    ASSUME Typed, Collected, [Next]_vars
    PROVE  Collected'
  <1>1. ASSUME MakeScratch PROVE Collected'
    BY <1>1 DEF MakeScratch, Collected, Streams, Typed, Processes, Supervised
  <1>2. ASSUME RefuseExecutable PROVE Collected'
    BY <1>2 DEF RefuseExecutable, PrepareFails, Collected, Streams, Typed,
       Processes, Supervised
  <1>3. ASSUME JudgeEntryPoints PROVE Collected'
    BY <1>3 DEF JudgeEntryPoints, PrepareFails, Collected, Streams, Typed,
       Processes, Supervised
  <1>4. ASSUME WriteManifest PROVE Collected'
    BY <1>4 DEF WriteManifest, Collected, Streams, Typed, Processes, Supervised
  <1>5. ASSUME Confirm PROVE Collected'
    BY <1>5 DEF Confirm, CheckManifest, Rejected, Collected, Streams, Typed,
       Processes, Supervised
  <1>6. ASSUME Keep PROVE Collected'
    BY <1>6 DEF Keep, Collected, Streams, Typed, Processes, Supervised
  <1>7. ASSUME NEW n \in Desired, Resolve(n) PROVE Collected'
    BY <1>7 DEF Resolve, Collected, Streams, Typed, Processes, Supervised
  <1>8. ASSUME NEW n \in Desired, LinkAlias(n) PROVE Collected'
    BY <1>8 DEF LinkAlias, Collected, Streams, Typed, Processes, Supervised
  <1>9. ASSUME Validate PROVE Collected'
    BY <1>9 DEF Validate, CheckManifest, Rejected, Collected, Streams, Typed,
       Processes, Supervised
  <1>10. ASSUME NEW n \in Desired, CheckEntry(n) PROVE Collected'
    BY <1>10 DEF CheckEntry, Unchanged, Rejected, Collected, Streams, Typed,
       Processes, Supervised
  <1>11. ASSUME Spawn PROVE Collected'
    BY <1>11, GateExecutorAssumption DEF Spawn, Collected, Streams, Typed,
       Processes, Supervised, Gone, Nothing
  <1>12. ASSUME WatchLimit PROVE Collected'
    BY <1>12 DEF WatchLimit, Collected, Streams, Typed, Processes, Supervised
  <1>13. ASSUME WatchDeadline PROVE Collected'
    BY <1>13 DEF WatchDeadline, Collected, Streams, Typed, Processes, Supervised
  <1>14. ASSUME PollLeader PROVE Collected'
    BY <1>14 DEF PollLeader, Collected, Streams, Typed, Processes, Supervised
  <1>15. ASSUME WatchCollectors PROVE Collected'
    BY <1>15 DEF WatchCollectors, Collected, Streams, Typed, Processes, Supervised
  <1>16. ASSUME KillGroup PROVE Collected'
    BY <1>16 DEF KillGroup, Gone, Collected, Streams, Typed, Processes, Supervised
  <1>17. ASSUME WaitLeader PROVE Collected'
    BY <1>17 DEF WaitLeader, Collected, Streams, Typed, Processes, Supervised
  <1>18. ASSUME Conclude PROVE Collected'
    BY <1>18 DEF Conclude, Collected, Streams, Typed, Processes, Supervised
  <1>19. ASSUME BeginCleanup PROVE Collected'
    BY <1>19 DEF BeginCleanup, Collected, Streams, Typed, Processes, Supervised
  <1>20. ASSUME RemoveScratch PROVE Collected'
    BY <1>20 DEF RemoveScratch, Collected, Streams, Typed, Processes, Supervised
  <1>21. ASSUME DeadlinePasses PROVE Collected'
    BY <1>21 DEF DeadlinePasses, Collected, Streams, Typed, Processes, Supervised
  <1>22. ASSUME NEW s \in Streams, Collect(s) PROVE Collected'
    BY <1>22, GateExecutorAssumption DEF Collect, Total, Collected, Streams, Typed,
       Processes, Supervised
  <1>23. ASSUME NEW s \in Streams, EndOfStream(s) PROVE Collected'
    BY <1>23 DEF EndOfStream, Collected, Streams, Typed, Processes, Supervised
  <1>24. ASSUME NEW p \in Processes, NEW s \in Streams, Write(p, s) PROVE Collected'
    BY <1>24 DEF Write, Collected, Streams, Typed, Processes, Supervised
  <1>25. ASSUME NEW p \in Processes, NEW q \in Processes, Fork(p, q) PROVE Collected'
    BY <1>25 DEF Fork, Collected, Streams, Typed, Processes, Supervised
  <1>26. ASSUME NEW p \in Processes, LeaveGroup(p) PROVE Collected'
    BY <1>26 DEF LeaveGroup, Collected, Streams, Typed, Processes, Supervised
  <1>27. ASSUME NEW p \in Processes, Exit(p) PROVE Collected'
    BY <1>27 DEF Exit, Gone, Collected, Streams, Typed, Processes, Supervised
  <1>28. ASSUME ReplaceScratch PROVE Collected'
    BY <1>28 DEF ReplaceScratch, Disturb, Collected, Streams, Typed, Processes,
       Supervised
  <1>29. ASSUME Rewrite PROVE Collected'
    BY <1>29 DEF Rewrite, Disturb, Collected, Streams, Typed, Processes, Supervised
  <1>30. ASSUME NEW p \in Paths, Upgrade(p) PROVE Collected'
    BY <1>30 DEF Upgrade, Disturb, Collected, Streams, Typed, Processes, Supervised
  <1>31. ASSUME NEW n \in Desired \ System, ChangePath(n) PROVE Collected'
    BY <1>31 DEF ChangePath, Disturb, Collected, Streams, Typed, Processes,
       Supervised
  <1>32. ASSUME NEW n \in Desired \ System, Relink(n) PROVE Collected'
    BY <1>32 DEF Relink, Disturb, Collected, Streams, Typed, Processes, Supervised
  <1>33. ASSUME UNCHANGED vars PROVE Collected'
    BY <1>33 DEF vars, Collected, Streams, Typed
  <1> QED
    BY <1>1, <1>2, <1>3, <1>4, <1>5, <1>6, <1>7, <1>8, <1>9, <1>10, <1>11, <1>12,
       <1>13, <1>14, <1>15, <1>16, <1>17, <1>18, <1>19, <1>20, <1>21, <1>22, <1>23,
       <1>24, <1>25, <1>26, <1>27, <1>28, <1>29, <1>30, <1>31, <1>32, <1>33 DEF
       Next, Prepare, Execute, Supervise, Cleanup, Gate, Others

\* Every step keeps an outcome to gates that are over.
LEMMA SettledStep ==
    ASSUME Typed, Collected, Settled, [Next]_vars
    PROVE  Settled'
  <1>1. ASSUME MakeScratch PROVE Settled'
    BY <1>1 DEF MakeScratch, Settled, Supervised, Streams, Processes, Typed
  <1>2. ASSUME RefuseExecutable PROVE Settled'
    BY <1>2 DEF RefuseExecutable, PrepareFails, Settled, Supervised, Streams,
       Processes, Typed
  <1>3. ASSUME JudgeEntryPoints PROVE Settled'
    BY <1>3 DEF JudgeEntryPoints, PrepareFails, Settled, Supervised, Streams,
       Processes, Typed
  <1>4. ASSUME WriteManifest PROVE Settled'
    BY <1>4 DEF WriteManifest, Settled, Supervised, Streams, Processes, Typed
  <1>5. ASSUME Confirm PROVE Settled'
    BY <1>5 DEF Confirm, CheckManifest, Rejected, Settled, Supervised, Streams,
       Processes, Typed
  <1>6. ASSUME Keep PROVE Settled'
    BY <1>6 DEF Keep, Settled, Supervised, Streams, Processes, Typed
  <1>7. ASSUME NEW n \in Desired, Resolve(n) PROVE Settled'
    BY <1>7 DEF Resolve, Settled, Supervised, Streams, Processes, Typed
  <1>8. ASSUME NEW n \in Desired, LinkAlias(n) PROVE Settled'
    BY <1>8 DEF LinkAlias, Settled, Supervised, Streams, Processes, Typed
  <1>9. ASSUME Validate PROVE Settled'
    BY <1>9 DEF Validate, CheckManifest, Rejected, Settled, Supervised, Streams,
       Processes, Typed
  <1>10. ASSUME NEW n \in Desired, CheckEntry(n) PROVE Settled'
    BY <1>10 DEF CheckEntry, Unchanged, Rejected, Settled, Supervised, Streams,
       Processes, Typed
  <1>11. ASSUME Spawn PROVE Settled'
    BY <1>11 DEF Spawn, Settled, Supervised, Streams, Processes, Typed
  <1>12. ASSUME WatchLimit PROVE Settled'
    BY <1>12 DEF WatchLimit, Settled, Supervised, Streams, Processes, Typed
  <1>13. ASSUME WatchDeadline PROVE Settled'
    BY <1>13 DEF WatchDeadline, Settled, Supervised, Streams, Processes, Typed
  <1>14. ASSUME PollLeader PROVE Settled'
    BY <1>14 DEF PollLeader, Settled, Supervised, Streams, Processes, Typed
  <1>15. ASSUME WatchCollectors PROVE Settled'
    BY <1>15 DEF WatchCollectors, Settled, Supervised, Streams, Processes, Typed
  <1>16. ASSUME KillGroup PROVE Settled'
    BY <1>16 DEF KillGroup, Gone, Settled, Supervised, Streams, Processes, Typed
  <1>17. ASSUME WaitLeader PROVE Settled'
    BY <1>17 DEF WaitLeader, Settled, Supervised, Streams, Processes, Typed
  <1>18. ASSUME Conclude PROVE Settled'
    BY <1>18 DEF Conclude, Settled, Supervised, Streams, Processes, Typed
  <1>19. ASSUME BeginCleanup PROVE Settled'
    BY <1>19 DEF BeginCleanup, Settled, Supervised, Streams, Processes, Typed
  <1>20. ASSUME RemoveScratch PROVE Settled'
    BY <1>20 DEF RemoveScratch, Settled, Supervised, Streams, Processes, Typed
  <1>21. ASSUME DeadlinePasses PROVE Settled'
    BY <1>21 DEF DeadlinePasses, Settled, Supervised, Streams, Processes, Typed
  <1>22. ASSUME NEW s \in Streams, Collect(s) PROVE Settled'
    BY <1>22 DEF Collect, Total, Settled, Supervised, Streams, Processes, Typed
  <1>23. ASSUME NEW s \in Streams, EndOfStream(s) PROVE Settled'
    BY <1>23 DEF EndOfStream, Settled, Supervised, Streams, Processes, Typed
  <1>24. ASSUME NEW p \in Processes, NEW s \in Streams, Write(p, s) PROVE Settled'
    BY <1>24 DEF Write, Settled, Supervised, Streams, Processes, Typed
  <1>25. ASSUME NEW p \in Processes, NEW q \in Processes, Fork(p, q) PROVE Settled'
    BY <1>25 DEF Fork, Settled, Supervised, Streams, Processes, Typed
  <1>26. ASSUME NEW p \in Processes, LeaveGroup(p) PROVE Settled'
    BY <1>26 DEF LeaveGroup, Settled, Supervised, Streams, Processes, Typed
  <1>27. ASSUME NEW p \in Processes, Exit(p) PROVE Settled'
    BY <1>27 DEF Exit, Gone, Settled, Supervised, Streams, Processes, Typed
  <1>28. ASSUME ReplaceScratch PROVE Settled'
    BY <1>28 DEF ReplaceScratch, Disturb, Settled, Supervised, Streams, Processes,
       Typed
  <1>29. ASSUME Rewrite PROVE Settled'
    BY <1>29 DEF Rewrite, Disturb, Settled, Supervised, Streams, Processes, Typed
  <1>30. ASSUME NEW p \in Paths, Upgrade(p) PROVE Settled'
    BY <1>30 DEF Upgrade, Disturb, Settled, Supervised, Streams, Processes, Typed
  <1>31. ASSUME NEW n \in Desired \ System, ChangePath(n) PROVE Settled'
    BY <1>31 DEF ChangePath, Disturb, Settled, Supervised, Streams, Processes, Typed
  <1>32. ASSUME NEW n \in Desired \ System, Relink(n) PROVE Settled'
    BY <1>32 DEF Relink, Disturb, Settled, Supervised, Streams, Processes, Typed
  <1>33. ASSUME UNCHANGED vars PROVE Settled'
    BY <1>33 DEF vars, Settled, Supervised, Streams, Processes, Typed
  <1> QED
    BY <1>1, <1>2, <1>3, <1>4, <1>5, <1>6, <1>7, <1>8, <1>9, <1>10, <1>11, <1>12,
       <1>13, <1>14, <1>15, <1>16, <1>17, <1>18, <1>19, <1>20, <1>21, <1>22, <1>23,
       <1>24, <1>25, <1>26, <1>27, <1>28, <1>29, <1>30, <1>31, <1>32, <1>33 DEF
       Next, Prepare, Execute, Supervise, Cleanup, Gate, Others

\* Every step keeps what was checked as it was bound, or notes who changed it.
LEMMA CheckedStep ==
    ASSUME Typed, Checked, [Next]_vars
    PROVE  Checked'
  <1>1. ASSUME MakeScratch PROVE Checked'
    BY <1>1 DEF MakeScratch, Checked, Bound_OK, Supervised, Typed
  <1>2. ASSUME RefuseExecutable PROVE Checked'
    BY <1>2 DEF RefuseExecutable, PrepareFails, Checked, Bound_OK, Supervised, Typed
  <1>3. ASSUME JudgeEntryPoints PROVE Checked'
    BY <1>3 DEF JudgeEntryPoints, PrepareFails, Checked, Bound_OK, Supervised, Typed
  <1>4. ASSUME WriteManifest PROVE Checked'
    BY <1>4 DEF WriteManifest, Checked, Bound_OK, Supervised, Typed
  <1>5. ASSUME Confirm PROVE Checked'
    BY <1>5 DEF Confirm, CheckManifest, Rejected, Checked, Bound_OK, Supervised,
       Typed
  <1>6. ASSUME Keep PROVE Checked'
    BY <1>6 DEF Keep, Checked, Bound_OK, Supervised, Typed
  <1>7. ASSUME NEW n \in Desired, Resolve(n) PROVE Checked'
    BY <1>7 DEF Resolve, Checked, Bound_OK, Supervised, Typed
  <1>8. ASSUME NEW n \in Desired, LinkAlias(n) PROVE Checked'
    BY <1>8 DEF LinkAlias, Checked, Bound_OK, Supervised, Typed
  <1>9. ASSUME Validate PROVE Checked'
    BY <1>9 DEF Validate, CheckManifest, Rejected, Checked, Bound_OK, Supervised,
       Typed
  <1>10. ASSUME NEW n \in Desired, CheckEntry(n) PROVE Checked'
    BY <1>10 DEF CheckEntry, Unchanged, Rejected, Checked, Bound_OK, Supervised,
       Typed
  <1>11. ASSUME Spawn PROVE Checked'
    BY <1>11 DEF Spawn, Checked, Bound_OK, Supervised, Typed
  <1>12. ASSUME WatchLimit PROVE Checked'
    BY <1>12 DEF WatchLimit, Checked, Bound_OK, Supervised, Typed
  <1>13. ASSUME WatchDeadline PROVE Checked'
    BY <1>13 DEF WatchDeadline, Checked, Bound_OK, Supervised, Typed
  <1>14. ASSUME PollLeader PROVE Checked'
    BY <1>14 DEF PollLeader, Checked, Bound_OK, Supervised, Typed
  <1>15. ASSUME WatchCollectors PROVE Checked'
    BY <1>15 DEF WatchCollectors, Checked, Bound_OK, Supervised, Typed
  <1>16. ASSUME KillGroup PROVE Checked'
    BY <1>16 DEF KillGroup, Gone, Checked, Bound_OK, Supervised, Typed
  <1>17. ASSUME WaitLeader PROVE Checked'
    BY <1>17 DEF WaitLeader, Checked, Bound_OK, Supervised, Typed
  <1>18. ASSUME Conclude PROVE Checked'
    BY <1>18 DEF Conclude, Checked, Bound_OK, Supervised, Typed
  <1>19. ASSUME BeginCleanup PROVE Checked'
    BY <1>19 DEF BeginCleanup, Checked, Bound_OK, Supervised, Typed
  <1>20. ASSUME RemoveScratch PROVE Checked'
    BY <1>20 DEF RemoveScratch, Checked, Bound_OK, Supervised, Typed
  <1>21. ASSUME DeadlinePasses PROVE Checked'
    BY <1>21 DEF DeadlinePasses, Checked, Bound_OK, Supervised, Typed
  <1>22. ASSUME NEW s \in Streams, Collect(s) PROVE Checked'
    BY <1>22 DEF Collect, Total, Checked, Bound_OK, Supervised, Typed
  <1>23. ASSUME NEW s \in Streams, EndOfStream(s) PROVE Checked'
    BY <1>23 DEF EndOfStream, Checked, Bound_OK, Supervised, Typed
  <1>24. ASSUME NEW p \in Processes, NEW s \in Streams, Write(p, s) PROVE Checked'
    BY <1>24 DEF Write, Checked, Bound_OK, Supervised, Typed
  <1>25. ASSUME NEW p \in Processes, NEW q \in Processes, Fork(p, q) PROVE Checked'
    BY <1>25 DEF Fork, Checked, Bound_OK, Supervised, Typed
  <1>26. ASSUME NEW p \in Processes, LeaveGroup(p) PROVE Checked'
    BY <1>26 DEF LeaveGroup, Checked, Bound_OK, Supervised, Typed
  <1>27. ASSUME NEW p \in Processes, Exit(p) PROVE Checked'
    BY <1>27 DEF Exit, Gone, Checked, Bound_OK, Supervised, Typed
  <1>28. ASSUME ReplaceScratch PROVE Checked'
    BY <1>28 DEF ReplaceScratch, Disturb, Checked, Bound_OK, Supervised, Typed
  <1>29. ASSUME Rewrite PROVE Checked'
    BY <1>29 DEF Rewrite, Disturb, Checked, Bound_OK, Supervised, Typed
  <1>30. ASSUME NEW p \in Paths, Upgrade(p) PROVE Checked'
    BY <1>30 DEF Upgrade, Disturb, Checked, Bound_OK, Supervised, Typed
  <1>31. ASSUME NEW n \in Desired \ System, ChangePath(n) PROVE Checked'
    BY <1>31 DEF ChangePath, Disturb, Checked, Bound_OK, Supervised, Typed
  <1>32. ASSUME NEW n \in Desired \ System, Relink(n) PROVE Checked'
    BY <1>32 DEF Relink, Disturb, Checked, Bound_OK, Supervised, Typed
  <1>33. ASSUME UNCHANGED vars PROVE Checked'
    BY <1>33 DEF vars, Checked, Bound_OK, Supervised, Typed
  <1> QED
    BY <1>1, <1>2, <1>3, <1>4, <1>5, <1>6, <1>7, <1>8, <1>9, <1>10, <1>11, <1>12,
       <1>13, <1>14, <1>15, <1>16, <1>17, <1>18, <1>19, <1>20, <1>21, <1>22, <1>23,
       <1>24, <1>25, <1>26, <1>27, <1>28, <1>29, <1>30, <1>31, <1>32, <1>33 DEF
       Next, Prepare, Execute, Supervise, Cleanup, Gate, Others

LEMMA SpecInv == Spec => []IInv
  <1>1. IInv /\ [Next]_vars => IInv'
    BY TypedStep, CollectedStep, SettledStep, CheckedStep DEF IInv
  <1> QED BY InitInv, <1>1, PTL DEF Spec

\* Every variable keeps its type, and what was found is never refused.
THEOREM TypeCorrect == Spec => []TypeOK
  <1>1. IInv => TypeOK
    BY DEF IInv, Typed
  <1> QED BY SpecInv, <1>1, PTL

\* A gate that is reported to have ended left its whole output, within the
\* limit, and nobody who could add to it.
THEOREM CompleteOutcome == Spec => []OutcomeIsComplete
  <1>1. IInv => OutcomeIsComplete
    <2> SUFFICES ASSUME IInv, At("ready"), outcome = "ok"
                 PROVE  /\ ~proc[Leader].live /\ kept = written
                        /\ kept["stdout"] + kept["stderr"] <= Limit
                        /\ \A p \in Processes : proc[p].holds = {}
      BY DEF OutcomeIsComplete
    <2>1. eof = Streams /\ status /\ ~exceeded
      BY DEF IInv, Settled
    <2>2. read = written
      BY <2>1 DEF IInv, Collected, Typed
    <2> QED BY <2>1, <2>2 DEF IInv, Settled, Collected, Typed
  <1> QED BY SpecInv, <1>1, PTL

\* A gate runs with the executables, aliases and scratch directory its launch
\* bound, up to what changed after its own check began.
THEOREM BoundTools == Spec => []RunsBoundTools
  <1>1. IInv => RunsBoundTools
    BY DEF IInv, Checked, RunsBoundTools, Supervised
  <1> QED BY SpecInv, <1>1, PTL
=============================================================================
