------------------------- MODULE LedgerReportsProofs -------------------------
(***************************************************************************)
(* Proofs about LedgerReports, for any number of runs, processes and       *)
(* commands: what resume answers, and that the dashboard shows the gates   *)
(* its entries speak of, or has cut them for newer ones.                   *)
(*                                                                         *)
(* Readers take no lock, so both rest on what every single write leaves    *)
(* true: an envelope is on disk before the run.json that speaks of it, and *)
(* envelopes are never taken away (Projected, Seen).  For that the writers *)
(* need the lock: one that is between its transition and its projections   *)
(* is alone on its run (OneHolder).  For resume the scan is compared, run  *)
(* by run, with what is on disk now, except for the runs that were written *)
(* in the meantime (Looked).                                               *)
(***************************************************************************)
EXTENDS LedgerReports, FiniteSetTheorems, NaturalsInduction, TLAPS

Writing == {"envelope", "project"}

\* A process at work on a run has one, and writes what is in the journal.
Working ==
    \A p \in Procs :
        /\ proc[p].pc \in {"commit", "load", "entry"} \cup Writing => proc[p].run \in Runs
        /\ proc[p].pc = "commit" => proc[p].cmd \in Commands \cup {Prune}
        /\ proc[p].pc \in Writing => committed[proc[p].run] # Absent

\* The lock: no two processes write projections of one run.
OneHolder ==
    \A p, q \in Procs : proc[p].pc \in Writing /\ proc[q].pc \in Writing /\ p # q =>
        proc[p].run # proc[q].run

\* The disk never has a gate that the journal has not, nor does run.json speak
\* of one whose envelope is not there.
Projected ==
    /\ \A r \in Runs :
          /\ committed[r] = Absent => shown[r] = Absent /\ envelopes[r] = {}
          /\ committed[r] # Absent => /\ committed[r].checkpoint \in committed[r].attempts \cup {Absent}
                                      /\ envelopes[r] \subseteq committed[r].attempts
          /\ shown[r] # Absent => shown[r].checkpoint \in envelopes[r] \cup {Absent}
    /\ \A p \in Procs : At(p, "project") => envelopes[proc[p].run] = committed[proc[p].run].attempts

\* The gate that a report has read of has its envelope on disk now.
Seen ==
    \A p \in Procs, r \in Runs :
        proc[p].seen[r] # Absent => proc[p].seen[r].checkpoint \in envelopes[r] \cup {Absent}

\* Which command is at which of its steps.
Errands ==
    \A p \in Procs :
        /\ proc[p].pc \in {"commit"} \cup Writing => proc[p].kind \in {"command", "prune"}
        /\ At(p, "load") => proc[p].kind = "exact"
        /\ proc[p].pc \in {"gates", "entry"} => proc[p].kind = "dashboard"
        /\ At(p, "finalize") => proc[p].kind = "prune"

\* A gate is among those of an entry, or gave way in the cut.
ShownOrCut(p, r) ==
    LET latest == proc[p].seen[r].checkpoint
        listed == proc[p].gates[r]
    IN  latest # Absent =>
            \/ \E e \in listed : SameOrLater(e, latest)
            \/ /\ Cardinality(listed) = proc[p].limit
               /\ \E d \in envelopes[r] :
                     SameOrLater(d, latest) /\ \A e \in listed : d.stamp <= e.stamp

\* A gate that an entry is to show is looked for or found.
Sought(p) ==
    LET seen == proc[p].seen[proc[p].run]
    IN  seen # Absent /\ seen.checkpoint # Absent =>
            seen.checkpoint.gate \in proc[p].names \/ \E e \in proc[p].found : SameOrLater(e, seen.checkpoint)

\* What the dashboard has collected so far.
Gathered ==
    \A p \in Procs :
        /\ Reported(p, "dashboard") => proc[p].todo = {}
        /\ At(p, "gates") \/ At(p, "entry") \/ Reported(p, "dashboard") =>
              \A r \in Read(p) \ proc[p].todo : ShownOrCut(p, r)
        /\ At(p, "entry") => proc[p].found \subseteq envelopes[proc[p].run] /\ Sought(p)

\* A run that a scan has passed and nobody has written since was kept as it is
\* on disk, or was not for the scan to keep.
Looked ==
    \A p \in Procs : proc[p].kind = "resume" /\ proc[p].pc \in {"scan", "reported"} =>
        /\ proc[p].todo \subseteq Local /\ Read(p) \subseteq Local \ proc[p].todo
        /\ \A r \in Local \ (proc[p].todo \cup moved[p]) :
              proc[p].seen[r] = IF shown[r] # Absent /\ (proc[p].flag \/ Incomplete(shown[r]))
                                THEN shown[r] ELSE Absent

\* What resume answers is the most recent of the runs it kept and is asked for.
Chosen ==
    \A p \in Procs : Reported(p, "resume") =>
        /\ proc[p].todo = {}
        /\ proc[p].selected = LET candidates == Read(p) \cap proc[p].wanted
                              IN  IF candidates = {} THEN Absent ELSE Latest(proc[p].seen, candidates)

IInv == TypeOK /\ Working /\ OneHolder /\ Projected /\ Seen /\ Errands /\ Gathered /\ Looked /\ Chosen

-----------------------------------------------------------------------------
(* The least and the greatest of a set of runs. *)

LEMMA FirstIn ==
    ASSUME NEW S, S \subseteq Runs, S # {}
    PROVE  First(S) \in S
  <1> DEFINE T == {Rank[r] : r \in S}
  <1>1. T \subseteq Nat /\ T # {}
    BY FS_CardinalityType, ConstantsAssumption
  <1>2. PICK i \in T : \A j \in T : ~(<<j, i>> \in OpToRel(<, Nat))
    BY <1>1, NatLessThanWellFounded, WFMin, Zenon
  <1>3. PICK r \in S : i = Rank[r]
    OBVIOUS
  <1>4. ASSUME NEW s \in S \ {r} PROVE Rank[r] < Rank[s]
    <2>1. Rank[r] \in Nat /\ Rank[s] \in Nat
      BY <1>1
    <2>2. Rank[s] < Rank[r] => <<Rank[s], Rank[r]>> \in OpToRel(<, Nat)
      BY <2>1 DEF OpToRel
    <2>3. ~(<<Rank[s], Rank[r]>> \in OpToRel(<, Nat))
      BY <1>2, <1>3
    <2>4. ~(Rank[s] < Rank[r])
      BY <2>2, <2>3, Zenon
    <2>5. Rank[s] # Rank[r]
      BY <1>4, ConstantsAssumption
    <2> QED BY <2>1, <2>4, <2>5
  <1> QED BY <1>4 DEF First

\* A measure that is bounded has a greatest value.
LEMMA Greatest ==
    ASSUME NEW S, S # {}, NEW n \in Nat, NEW f, \A r \in S : f[r] \in 0 .. n
    PROVE  \E r \in S : \A s \in S : f[s] <= f[r]
  <1> DEFINE T == {n - f[r] : r \in S}
  <1>1. T \subseteq Nat /\ T # {}
    OBVIOUS
  <1>2. PICK i \in T : \A j \in T : ~(<<j, i>> \in OpToRel(<, Nat))
    BY <1>1, NatLessThanWellFounded, WFMin, Zenon
  <1>3. PICK r \in S : i = n - f[r]
    OBVIOUS
  <1>4. ASSUME NEW s \in S PROVE f[s] <= f[r]
    <2>1. n - f[s] \in Nat /\ i \in Nat /\ n - f[s] \in T
      BY <1>1
    <2>2. n - f[s] < i => <<n - f[s], i>> \in OpToRel(<, Nat)
      BY <2>1 DEF OpToRel
    <2>3. ~(<<n - f[s], i>> \in OpToRel(<, Nat))
      BY <1>2, <2>1
    <2>4. ~(n - f[s] < i)
      BY <2>2, <2>3, Zenon
    <2>5. f[s] \in 0 .. n /\ f[r] \in 0 .. n
      OBVIOUS
    <2> QED BY <2>4, <2>5, <1>3
  <1> QED BY <1>4

\* Of runs that were read there is a latest, and none is more recent.
LEMMA LatestIn ==
    ASSUME NEW seen \in [Runs -> Version \cup {Absent}],
           NEW S, S \subseteq Runs, S # {}, \A r \in S : seen[r] # Absent
    PROVE  Latest(seen, S) \in S /\ \A s \in S : seen[s].updated <= seen[Latest(seen, S)].updated
  <1> DEFINE f == [r \in S |-> seen[r].updated]
             T == {r \in S : \A s \in S : f[s] <= f[r]}
             g == [r \in T |-> Rank[r]]
  <1>1. \A r \in S : f[r] \in 0 .. MaxClock
    BY DEF Version
  <1>2. T # {}
    <2>1. MaxClock \in Nat
      BY ConstantsAssumption
    <2>2. \E r \in S : \A s \in S : f[s] <= f[r]
      <3> HIDE DEF f, T
      <3> QED BY <1>1, <2>1, Greatest
    <2> QED BY <2>2
  <1>3. PICK r \in T : \A s \in T : g[s] <= g[r]
    <2>1. Cardinality(Runs) \in Nat /\ \A x \in T : g[x] \in 0 .. Cardinality(Runs)
      BY FS_CardinalityType, ConstantsAssumption
    <2> HIDE DEF g
    <2> QED BY <1>2, <2>1, Greatest
  <1>4. ASSUME NEW s \in S \ {r}
        PROVE  \/ seen[s].updated < seen[r].updated
               \/ seen[s].updated = seen[r].updated /\ Rank[s] < Rank[r]
    <2>1. f[s] <= f[r] /\ f[s] \in 0 .. MaxClock /\ f[r] \in 0 .. MaxClock
      BY <1>1
    <2>2. CASE f[s] < f[r]
      BY <2>2
    <2>3. CASE f[s] = f[r]
      <3>1. s \in T
        BY <2>3
      <3>2. Rank[s] <= Rank[r]
        BY <1>3, <3>1
      <3>3. Rank[s] # Rank[r] /\ Rank[s] \in Nat /\ Rank[r] \in Nat
        BY <1>4, FS_CardinalityType, ConstantsAssumption
      <3> QED BY <2>3, <3>2, <3>3
    <2> QED BY <2>1, <2>2, <2>3, ConstantsAssumption
  <1>5. \E x \in S : \A s \in S \ {x} :
           \/ seen[s].updated < seen[x].updated
           \/ seen[s].updated = seen[x].updated /\ Rank[s] < Rank[x]
    BY <1>4
  <1> DEFINE l == Latest(seen, S)
  <1>6. l \in S /\ \A s \in S \ {l} :
           \/ seen[s].updated < seen[l].updated
           \/ seen[s].updated = seen[l].updated /\ Rank[s] < Rank[l]
    BY <1>5 DEF Latest
  <1>7. \A s \in S : seen[s].updated \in 0 .. MaxClock
    BY DEF Version
  <1> HIDE DEF l
  <1>8. \A s \in S : seen[s].updated <= seen[l].updated
    BY <1>6, <1>7, ConstantsAssumption
  <1> QED BY <1>6, <1>8 DEF l

-----------------------------------------------------------------------------
USE DEF At, Goto, Quit, disk

LEMMA InitInv == Init => IInv
  <1> SUFFICES ASSUME Init PROVE IInv
    OBVIOUS
  <1>1. TypeOK
    BY ConstantsAssumption DEF Init, TypeOK, Idle, Nothing, Empty, Process
  <1>2. Working /\ OneHolder /\ Projected
    BY DEF Init, Working, OneHolder, Projected, Writing, Idle, Empty
  <1>3. Seen /\ Errands /\ Gathered /\ Looked /\ Chosen
    BY DEF Init, Seen, Errands, Writing, Gathered, Looked, Chosen, Reported, Idle, Nothing
  <1> QED BY <1>1, <1>2, <1>3 DEF IInv

\* Every step of a process keeps its record one.
LEMMA IdleType == Idle \in Process
  BY ConstantsAssumption DEF Idle, Nothing, Empty, Process

LEMMA ProcessMoves ==
    ASSUME TypeOK, NEW p \in Procs, NEW x \in Process, proc' = [proc EXCEPT ![p] = x]
    PROVE  proc' \in [Procs -> Process]
  BY DEF TypeOK

LEMMA ProcessStep ==
    ASSUME TypeOK, Working, [Next]_vars
    PROVE  proc' \in [Procs -> Process]
  <1>0. proc \in [Procs -> Process] /\ clock \in 0 .. MaxClock
        /\ committed \in [Runs -> Version \cup {Absent}] /\ shown \in [Runs -> Version \cup {Absent}]
        /\ envelopes \in [Runs -> SUBSET Envelope] /\ Local \subseteq Runs /\ Questions \subseteq SUBSET Runs
    BY ConstantsAssumption DEF TypeOK
  <1>1. ASSUME Tick PROVE proc' \in [Procs -> Process]
    BY <1>0, <1>1 DEF Tick
  <1>2. ASSUME NEW p \in Procs, NEW r \in Runs, NEW c \in Commands, Begin(p, r, c) PROVE proc' \in [Procs -> Process]
    <2> DEFINE x == [Idle EXCEPT !.pc = "commit", !.kind = "command", !.run = r, !.cmd = c, !.now = clock]
    <2>1. proc[p] \in Process
      BY <1>0
    <2>3. clock \in 0 .. MaxClock /\ r \in Runs /\ c \in Commands
      BY <1>0
    <2>4. x \in Process
      BY ONLY <2>1, IdleType, <2>3 DEF Process
    <2>5. proc' = [proc EXCEPT ![p] = x]
      BY <1>0, <1>2 DEF Begin
    <2> HIDE DEF x
    <2> QED BY <2>4, <2>5, ProcessMoves
  <1>3. ASSUME NEW p \in Procs, Commit(p) PROVE proc' \in [Procs -> Process]
    <2> DEFINE x == [proc[p] EXCEPT !.pc = "envelope", !.prior = committed[proc[p].run]]
    <2>1. proc[p] \in Process
      BY <1>0
    <2>2. proc[p].run \in Runs
      BY <1>3 DEF Commit, Working, Writing
    <2>3. committed[proc[p].run] \in Version \cup {Absent}
      BY <1>0, <2>2
    <2>4. x \in Process
      BY ONLY <2>1, <2>2, <2>3 DEF Process
    <2>5. proc' = [proc EXCEPT ![p] = x]
      BY <1>0, <1>3 DEF Commit
    <2> HIDE DEF x
    <2> QED BY <2>4, <2>5, ProcessMoves
  <1>4. ASSUME NEW p \in Procs, ProjectEnvelope(p) PROVE proc' \in [Procs -> Process]
    <2> DEFINE x == [proc[p] EXCEPT !.pc = "project"]
    <2>1. proc[p] \in Process
      BY <1>0
    <2>2. proc[p].run \in Runs
      BY <1>4 DEF ProjectEnvelope, Working, Writing
    <2>4. x \in Process
      BY ONLY <2>1, <2>2 DEF Process
    <2>5. proc' = [proc EXCEPT ![p] = x]
      BY <1>0, <1>4 DEF ProjectEnvelope
    <2> HIDE DEF x
    <2> QED BY <2>4, <2>5, ProcessMoves
  <1>5. ASSUME NEW p \in Procs, ProjectRun(p) PROVE proc' \in [Procs -> Process]
    <2> DEFINE y == [proc[p] EXCEPT !.pc = "finalize", !.applied = @ \cup {proc[p].run},
                                    !.todo = @ \ {proc[p].run}, !.run = Absent,
                                    !.cmd = Absent, !.prior = Absent]
           x == IF proc[p].kind = "command" THEN Idle ELSE y
    <2>1. proc[p] \in Process
      BY <1>0
    <2>2. proc[p].run \in Runs
      BY <1>5 DEF ProjectRun, Working, Writing
    <2>4. x \in Process
      <3>1. y \in Process
        BY ONLY <2>1, <2>2 DEF Process
      <3> HIDE DEF y
      <3> QED BY <3>1, IdleType
    <2>5. proc' = [proc EXCEPT ![p] = x]
      <3>1. CASE proc[p].kind = "command"
        BY <1>0, <1>5, <3>1 DEF ProjectRun, Return
      <3>2. CASE proc[p].kind # "command"
        BY <1>0, <1>5, <3>2 DEF ProjectRun, Return
      <3> QED BY <3>1, <3>2
    <2> HIDE DEF x
    <2> QED BY <2>4, <2>5, ProcessMoves
  <1>6. ASSUME NEW p \in Procs, Refuse(p) PROVE proc' \in [Procs -> Process]
    <2> DEFINE y == [proc[p] EXCEPT !.pc = "finalize", !.applied = @ \cup {}, !.todo = @ \ {proc[p].run},
                                    !.run = Absent, !.cmd = Absent, !.prior = Absent]
           x == IF proc[p].kind = "command" THEN Idle ELSE y
    <2>1. proc[p] \in Process
      BY <1>0
    <2>2. proc[p].run \in Runs
      BY <1>6 DEF Refuse, Working, Writing
    <2>4. x \in Process
      <3>1. y \in Process
        BY ONLY <2>1, <2>2 DEF Process
      <3> HIDE DEF y
      <3> QED BY <3>1, IdleType
    <2>5. proc' = [proc EXCEPT ![p] = x]
      <3>1. CASE proc[p].kind = "command"
        BY <1>0, <1>6, <3>1 DEF Refuse, Return
      <3>2. CASE proc[p].kind # "command"
        BY <1>0, <1>6, <3>2 DEF Refuse, Return
      <3> QED BY <3>1, <3>2
    <2> HIDE DEF x
    <2> QED BY <2>4, <2>5, ProcessMoves
  <1>7. ASSUME NEW p \in Procs, TimeOut(p) PROVE proc' \in [Procs -> Process]
    <2> DEFINE x == Idle
    <2>1. proc[p] \in Process
      BY <1>0
    <2>4. x \in Process
      BY ONLY <2>1, IdleType DEF Process
    <2>5. proc' = [proc EXCEPT ![p] = x]
      BY <1>0, <1>7 DEF TimeOut
    <2> HIDE DEF x
    <2> QED BY <2>4, <2>5, ProcessMoves
  <1>8. ASSUME NEW p \in Procs, Crash(p) PROVE proc' \in [Procs -> Process]
    <2> DEFINE x == Idle
    <2>1. proc[p] \in Process
      BY <1>0
    <2>4. x \in Process
      BY ONLY <2>1, IdleType DEF Process
    <2>5. proc' = [proc EXCEPT ![p] = x]
      BY <1>0, <1>8 DEF Crash
    <2> HIDE DEF x
    <2> QED BY <2>4, <2>5, ProcessMoves
  <1>9. ASSUME NEW p \in Procs, NEW kind \in {"resume", "dashboard", "prune"}, NEW flag \in BOOLEAN,
               NEW wanted \in SUBSET Runs, NEW limit \in Limits \cup {0},
               BeginReport(p, kind, flag, wanted, limit) PROVE proc' \in [Procs -> Process]
    <2> DEFINE x == [Idle EXCEPT !.pc = "scan", !.kind = kind, !.flag = flag,
                                 !.wanted = wanted, !.limit = limit, !.todo = Scope(kind)]
    <2>3. Scope(kind) \in SUBSET Runs /\ wanted \in SUBSET Runs /\ flag \in BOOLEAN
          /\ kind \in {"resume", "dashboard", "prune"} /\ limit \in Limits \cup {0}
      BY <1>0 DEF Scope
    <2>4. x \in Process
      <3> DEFINE y == [Idle EXCEPT !.pc = "scan", !.kind = kind, !.flag = flag]
                 T == Scope(kind)
      <3>1. y \in Process
        BY ONLY IdleType, <2>3 DEF Process
      <3>2. x = [y EXCEPT !.wanted = wanted, !.limit = limit, !.todo = T]
        BY ONLY IdleType DEF Process
      <3>3. T \in SUBSET Runs
        BY <2>3
      <3> HIDE DEF y, T, x
      <3> QED BY ONLY <2>3, <3>1, <3>2, <3>3 DEF Process
    <2>5. proc' = [proc EXCEPT ![p] = x]
      BY <1>0, <1>9 DEF BeginReport
    <2> HIDE DEF x
    <2> QED BY <2>4, <2>5, ProcessMoves
  <1>10. ASSUME NEW p \in Procs, Scan(p) PROVE proc' \in [Procs -> Process]
    <2> DEFINE x == LET r == First(proc[p].todo)
                        v == shown[r]
                    IN  [proc[p] EXCEPT !.todo = @ \ {r},
                                        !.seen[r] = IF v = Absent THEN @ ELSE IF Keeps(p, v) THEN v ELSE @]
    <2>1. proc[p] \in Process
      BY <1>0
    <2>2. First(proc[p].todo) \in Runs
      BY <2>1, <1>10, FirstIn DEF Scan, Process
    <2>3. shown[First(proc[p].todo)] \in Version \cup {Absent}
      BY <1>0, <2>2
    <2>4. x \in Process
      BY ONLY <2>1, <2>2, <2>3 DEF Process
    <2>5. proc' = [proc EXCEPT ![p] = x]
      BY <1>0, <1>10 DEF Scan
    <2> HIDE DEF x
    <2> QED BY <2>4, <2>5, ProcessMoves
  <1>11. ASSUME NEW p \in Procs, SelectResume(p) PROVE proc' \in [Procs -> Process]
    <2> DEFINE choice == LET candidates == Read(p) \cap proc[p].wanted
                         IN  IF candidates = {} THEN Absent ELSE Latest(proc[p].seen, candidates)
               x == [proc[p] EXCEPT !.pc = "reported", !.selected = choice]
    <2>1. proc[p] \in Process
      BY <1>0
    <2>2. Read(p) \cap proc[p].wanted # {} => Latest(proc[p].seen, Read(p) \cap proc[p].wanted) \in Runs
      <3> SUFFICES ASSUME Read(p) \cap proc[p].wanted # {}
                   PROVE  Latest(proc[p].seen, Read(p) \cap proc[p].wanted) \in Read(p) \cap proc[p].wanted
        BY DEF Read
      <3>1. proc[p].seen \in [Runs -> Version \cup {Absent}]
        BY <2>1 DEF Process
      <3> QED BY <3>1, LatestIn DEF Read
    <2>3. choice \in Runs \cup {Absent}
      BY <2>2
    <2>4. x \in Process
      <3> HIDE DEF choice
      <3> QED BY ONLY <2>1, <2>3 DEF Process
    <2>5. proc' = [proc EXCEPT ![p] = x]
      BY <1>0, <1>11 DEF SelectResume
    <2> HIDE DEF x
    <2> QED BY <2>4, <2>5, ProcessMoves
  <1>12. ASSUME NEW p \in Procs, NEW r \in Runs, BeginExact(p, r) PROVE proc' \in [Procs -> Process]
    <2> DEFINE x == [Idle EXCEPT !.pc = "load", !.kind = "exact", !.run = r]
    <2>1. proc[p] \in Process
      BY <1>0
    <2>3. r \in Runs
      BY <1>0
    <2>4. x \in Process
      BY ONLY <2>1, IdleType, <2>3 DEF Process
    <2>5. proc' = [proc EXCEPT ![p] = x]
      BY <1>0, <1>12 DEF BeginExact
    <2> HIDE DEF x
    <2> QED BY <2>4, <2>5, ProcessMoves
  <1>13. ASSUME NEW p \in Procs, ReadExact(p) PROVE proc' \in [Procs -> Process]
    <2> DEFINE x == LET r == proc[p].run
                    IN  [proc[p] EXCEPT !.pc = "reported", !.selected = r, !.seen[r] = committed[r]]
    <2>1. proc[p] \in Process
      BY <1>0
    <2>2. proc[p].run \in Runs
      BY <1>13 DEF ReadExact, Working, Writing
    <2>3. committed[proc[p].run] \in Version \cup {Absent}
      BY <1>0, <2>2
    <2>4. x \in Process
      BY ONLY <2>1, <2>2, <2>3 DEF Process
    <2>5. proc' = [proc EXCEPT ![p] = x]
      BY <1>0, <1>13 DEF ReadExact
    <2> HIDE DEF x
    <2> QED BY <2>4, <2>5, ProcessMoves
  <1>14. ASSUME NEW p \in Procs, OpenDashboard(p) PROVE proc' \in [Procs -> Process]
    <2> DEFINE x == [proc[p] EXCEPT !.pc = "gates", !.todo = Read(p)]
    <2>1. proc[p] \in Process
      BY <1>0
    <2>3. Read(p) \in SUBSET Runs
      BY <1>0 DEF Read
    <2>4. x \in Process
      BY ONLY <2>1, <2>3 DEF Process
    <2>5. proc' = [proc EXCEPT ![p] = x]
      BY <1>0, <1>14 DEF OpenDashboard
    <2> HIDE DEF x
    <2> QED BY <2>4, <2>5, ProcessMoves
  <1>15. ASSUME NEW p \in Procs, CloseDashboard(p) PROVE proc' \in [Procs -> Process]
    <2> DEFINE x == [proc[p] EXCEPT !.pc = "reported"]
    <2>1. proc[p] \in Process
      BY <1>0
    <2>4. x \in Process
      BY ONLY <2>1 DEF Process
    <2>5. proc' = [proc EXCEPT ![p] = x]
      BY <1>0, <1>15 DEF CloseDashboard
    <2> HIDE DEF x
    <2> QED BY <2>4, <2>5, ProcessMoves
  <1>16. ASSUME NEW p \in Procs, JudgeStale(p) PROVE proc' \in [Procs -> Process]
    <2> DEFINE l == IF proc[p].flag THEN "finalize" ELSE "reported"
               S == {r \in Read(p) : Stale(proc[p].seen[r], clock)}
               x == [proc[p] EXCEPT !.pc = l, !.todo = S]
    <2>1. proc[p] \in Process
      BY <1>0
    <2>3. S \in SUBSET Runs /\ l \in {"finalize", "reported"}
      BY <1>0 DEF Read
    <2>4. x \in Process
      <3> HIDE DEF l, S
      <3> QED BY ONLY <2>1, <2>3 DEF Process
    <2>5. proc' = [proc EXCEPT ![p] = x]
      BY <1>0, <1>16 DEF JudgeStale
    <2> HIDE DEF x
    <2> QED BY <2>4, <2>5, ProcessMoves
  <1>17. ASSUME NEW p \in Procs, FinalizeNext(p) PROVE proc' \in [Procs -> Process]
    <2> DEFINE x == [proc[p] EXCEPT !.pc = "commit", !.run = First(proc[p].todo), !.cmd = Prune, !.now = clock]
    <2>1. proc[p] \in Process
      BY <1>0
    <2>2. First(proc[p].todo) \in Runs
      BY <2>1, <1>17, FirstIn DEF FinalizeNext, Process
    <2>3. clock \in 0 .. MaxClock
      BY <1>0, <2>2
    <2>4. x \in Process
      BY ONLY <2>1, <2>2, <2>3 DEF Process
    <2>5. proc' = [proc EXCEPT ![p] = x]
      BY <1>0, <1>17 DEF FinalizeNext
    <2> HIDE DEF x
    <2> QED BY <2>4, <2>5, ProcessMoves
  <1>18. ASSUME NEW p \in Procs, EndPrune(p) PROVE proc' \in [Procs -> Process]
    <2> DEFINE x == [proc[p] EXCEPT !.pc = "reported"]
    <2>1. proc[p] \in Process
      BY <1>0
    <2>4. x \in Process
      BY ONLY <2>1 DEF Process
    <2>5. proc' = [proc EXCEPT ![p] = x]
      BY <1>0, <1>18 DEF EndPrune
    <2> HIDE DEF x
    <2> QED BY <2>4, <2>5, ProcessMoves
  <1>19. ASSUME NEW p \in Procs, Answer(p) PROVE proc' \in [Procs -> Process]
    <2> DEFINE x == Idle
    <2>1. proc[p] \in Process
      BY <1>0
    <2>4. x \in Process
      BY ONLY <2>1, IdleType DEF Process
    <2>5. proc' = [proc EXCEPT ![p] = x]
      BY <1>0, <1>19 DEF Answer
    <2> HIDE DEF x
    <2> QED BY <2>4, <2>5, ProcessMoves
  <1>21. ASSUME NEW p \in Procs, NEW r \in Runs, OpenEntry(p, r) PROVE proc' \in [Procs -> Process]
    <2> DEFINE x == [proc[p] EXCEPT !.pc = "entry", !.run = r, !.names = Gates, !.found = {}]
    <2>1. proc[p] \in Process
      BY <1>0
    <2>4. x \in Process
      BY ONLY <2>1, r \in Runs DEF Process
    <2>5. proc' = [proc EXCEPT ![p] = x]
      BY <1>0, <1>21 DEF OpenEntry
    <2> HIDE DEF x
    <2> QED BY <2>4, <2>5, ProcessMoves
  <1>22. ASSUME NEW p \in Procs, NEW g \in Gates, ReadGate(p, g) PROVE proc' \in [Procs -> Process]
    <2>1. proc[p] \in Process /\ envelopes[proc[p].run] \subseteq Envelope
      BY <1>0, <1>22 DEF ReadGate, Working
    <2>2. PICK last \in SUBSET envelopes[proc[p].run] :
             proc' = [proc EXCEPT ![p].names = @ \ {g}, ![p].found = @ \cup last]
      BY <1>22 DEF ReadGate
    <2> DEFINE x == [proc[p] EXCEPT !.names = @ \ {g}, !.found = @ \cup last]
    <2>4. x \in Process
      <3>1. last \subseteq Envelope
        BY <2>1
      <3> QED BY ONLY <2>1, <3>1 DEF Process
    <2>5. proc' = [proc EXCEPT ![p] = x]
      BY <1>0, <2>2
    <2> HIDE DEF x
    <2> QED BY <2>4, <2>5, ProcessMoves
  <1>23. ASSUME NEW p \in Procs, NEW listed, ListGates(p, listed) PROVE proc' \in [Procs -> Process]
    <2> DEFINE x == [proc[p] EXCEPT !.pc = "gates", !.gates[proc[p].run] = listed, !.todo = @ \ {proc[p].run},
                                    !.run = Absent, !.found = {}]
    <2>1. proc[p] \in Process
      BY <1>0
    <2>2. proc[p].run \in Runs
      BY <1>23 DEF ListGates, Working
    <2>3. listed \in SUBSET Envelope
      BY <1>23, <2>1 DEF ListGates, IsCut, Process
    <2>4. x \in Process
      BY ONLY <2>1, <2>2, <2>3 DEF Process
    <2>5. proc' = [proc EXCEPT ![p] = x]
      BY <1>0, <1>23 DEF ListGates
    <2> HIDE DEF x
    <2> QED BY <2>4, <2>5, ProcessMoves
  <1>20. ASSUME UNCHANGED vars PROVE proc' \in [Procs -> Process]
    BY <1>0, <1>20 DEF vars
  <1> QED BY <1>0, <1>1, <1>2, <1>3, <1>4, <1>5, <1>6, <1>7, <1>8, <1>9, <1>10, <1>11, <1>12, <1>13, <1>14, <1>15, <1>16, <1>17, <1>18, <1>19, <1>20, <1>21, <1>22, <1>23 DEF Next

\* While a gate has a free number, it has a least.
LEMMA NextIsEnvelope ==
    ASSUME NEW v \in Version, NEW c \in Commands, c.kind = "gate", Free(v, c.gate) # {}
    PROVE  NextEnvelope(v, c) \in Envelope
  <1> DEFINE S == Free(v, c.gate)
             f == [n \in S |-> MaxAttempts - n]
  <1>1. MaxAttempts \in Nat /\ S \subseteq 1 .. MaxAttempts /\ c.gate \in Gates /\ c.stamp \in Stamps
    BY ConstantsAssumption DEF Free
  <1>2. \A n \in S : f[n] \in 0 .. MaxAttempts
    BY <1>1
  <1>3. \E n \in S : \A m \in S : f[m] <= f[n]
    <2> HIDE DEF f, S
    <2> QED BY <1>1, <1>2, Greatest DEF S
  <1>4. \E n \in S : \A m \in S : n <= m
    BY <1>1, <1>3
  <1>5. NextEnvelope(v, c).attempt \in S
    BY <1>4 DEF NextEnvelope
  <1> QED BY <1>1, <1>5 DEF NextEnvelope, Envelope

\* What an allowed command makes of a run is a run, with no fewer gates, and its
\* latest checkpoint is among them if it was before.
LEMMA AppliedIsVersion ==
    ASSUME NEW v \in Version \cup {Absent}, NEW c \in Commands \cup {Prune},
           NEW now \in 0 .. MaxClock, Allowed(v, c)
    PROVE  /\ Applied(v, c, now) \in Version
           /\ v # Absent => v.attempts \subseteq Applied(v, c, now).attempts
           /\ v = Absent => Applied(v, c, now) = Started(now)
           /\ v # Absent /\ v.checkpoint \in v.attempts \cup {Absent} =>
                 Applied(v, c, now).checkpoint \in Applied(v, c, now).attempts \cup {Absent}
  <1>1. c.kind \in Kinds /\ c.target \in Final \cup {"none"} /\ Legal(StatusOf(v), c)
    BY ConstantsAssumption DEF Prune, Command, Kinds, Final, Allowed
  <1>2. v # Absent => v \in Version
    OBVIOUS
  <1>3. CASE c.kind = "initialize"
    <2>1. v = Absent
      BY <1>1, <1>2, <1>3 DEF Legal, StatusOf, NoStatus, Version, Status, Ordinary
    <2>2. Started(now) \in Version
      BY ConstantsAssumption DEF Started, Version, Status
    <2> QED BY <1>3, <2>1, <2>2 DEF Applied
  <1>4. CASE c.kind # "initialize"
    <2>1. v # Absent /\ v \in Version
      BY <1>1, <1>4 DEF Legal, StatusOf, NoStatus, Terminal
    <2>2. c.kind = "finalize" => c.target \in Final
      BY <1>1, <2>1 DEF Legal, Ordinary, NoStatus, StatusOf, Version, Status
    <2>3. /\ v.status \in Status /\ v.updated \in 0 .. MaxClock
          /\ v.finalized \in (0 .. MaxClock) \cup {Absent} /\ v.attempts \subseteq Envelope
          /\ v.checkpoint \in Envelope \cup {Absent}
          /\ v = [status |-> v.status, updated |-> v.updated, finalized |-> v.finalized,
                  attempts |-> v.attempts, checkpoint |-> v.checkpoint]
      BY <2>1 DEF Version
    <2>4. CASE c.kind \in {"event", "evidence"}
      <3>1. Applied(v, c, now) = [status |-> v.status, updated |-> now, finalized |-> v.finalized,
                                   attempts |-> v.attempts, checkpoint |-> v.checkpoint]
        BY <2>4, <2>3 DEF Applied, Touched
      <3> QED BY <2>1, <2>3, <3>1 DEF Version
    <2>5. CASE c.kind = "checkpoint"
      <3>1. Applied(v, c, now) = [status |-> v.status, updated |-> now, finalized |-> v.finalized,
                                   attempts |-> v.attempts, checkpoint |-> Absent]
        BY <2>5, <2>3 DEF Applied, Touched, WithCheckpoint
      <3> QED BY <2>1, <2>3, <3>1 DEF Version
    <2>6. CASE c.kind = "gate"
      <3>1. NextEnvelope(v, c) \in Envelope
        BY <2>1, <2>6, NextIsEnvelope DEF Allowed, Prune
      <3> DEFINE next == NextEnvelope(v, c)
      <3>2. Applied(v, c, now) = [status |-> v.status, updated |-> now, finalized |-> v.finalized,
                                   attempts |-> v.attempts \cup {next}, checkpoint |-> next]
        BY <2>3, <2>6 DEF Applied, Touched, WithGate, Version
      <3> HIDE DEF next
      <3>3. next \in Envelope
        BY <3>1 DEF next
      <3> QED BY <2>1, <2>3, <3>2, <3>3 DEF Version
    <2>7. CASE c.kind = "interrupt"
      <3>1. Applied(v, c, now) = [status |-> "interrupted", updated |-> now, finalized |-> v.finalized,
                                   attempts |-> v.attempts, checkpoint |-> Absent]
        BY <2>7, <2>3 DEF Applied, Touched, Interrupted, WithCheckpoint
      <3> QED BY <2>1, <2>3, <3>1 DEF Version, Status
    <2>8. CASE c.kind = "resume"
      <3>1. Applied(v, c, now) = [status |-> "running", updated |-> now, finalized |-> v.finalized,
                                   attempts |-> v.attempts, checkpoint |-> v.checkpoint]
        BY <2>8, <2>3 DEF Applied, Touched, Resumed
      <3> QED BY <2>1, <2>3, <3>1 DEF Version, Status
    <2>9. CASE c.kind = "finalize"
      <3>1. Applied(v, c, now) = [status |-> c.target, updated |-> now, finalized |-> now,
                                   attempts |-> v.attempts, checkpoint |-> Absent]
        BY <2>9, <2>3 DEF Applied, Touched, Finalized, WithCheckpoint
      <3> QED BY <2>1, <2>2, <2>3, <2>9, <3>1 DEF Version, Status, Final
    <2> QED BY <1>1, <1>4, <2>4, <2>5, <2>6, <2>7, <2>8, <2>9 DEF Kinds
  <1> QED BY <1>3, <1>4

DiskOK == /\ shown \in [Runs -> Version \cup {Absent}] /\ envelopes \in [Runs -> SUBSET Envelope]
          /\ moved \in [Procs -> SUBSET Runs]

LEMMA ShowTypes ==
    ASSUME TypeOK, NEW r \in Runs, NEW v \in Version \cup {Absent}, NEW n \in SUBSET Envelope, Show(r, v, n)
    PROVE  DiskOK'
  BY DEF Show, TypeOK, DiskOK

LEMMA RepairTypes ==
    ASSUME TypeOK, NEW r \in Runs, Repair(r)
    PROVE  DiskOK'
  <1>1. CASE committed[r] = Absent
    BY <1>1 DEF Repair, TypeOK, DiskOK
  <1>2. CASE committed[r] # Absent
    <2>1. committed[r] \in Version /\ committed[r].attempts \in SUBSET Envelope
      BY <1>2 DEF TypeOK, Version
    <2> QED BY <1>2, <2>1, ShowTypes DEF Repair
  <1> QED BY <1>1, <1>2

\* What only looks, or is between two runs, changes nothing but its process.
LEMMA Quiet ==
    ASSUME NEW p \in Procs, NEW r, NEW g, NEW listed,
           \/ TimeOut(p) \/ Crash(p) \/ Scan(p) \/ SelectResume(p)
           \/ OpenDashboard(p) \/ CloseDashboard(p) \/ OpenEntry(p, r) \/ ReadGate(p, g) \/ ListGates(p, listed)
           \/ JudgeStale(p) \/ FinalizeNext(p) \/ EndPrune(p) \/ Answer(p)
    PROVE  UNCHANGED <<clock, claimed, committed, shown, envelopes, moved, commands>>
  <1>1. CASE TimeOut(p) \/ Crash(p) \/ Scan(p) \/ SelectResume(p) \/ OpenDashboard(p) \/ CloseDashboard(p)
    BY <1>1 DEF TimeOut, Crash, Scan, SelectResume, OpenDashboard, CloseDashboard
  <1>2. CASE OpenEntry(p, r) \/ ReadGate(p, g) \/ ListGates(p, listed)
    BY <1>2 DEF OpenEntry, ReadGate, ListGates
  <1>3. CASE JudgeStale(p) \/ FinalizeNext(p) \/ EndPrune(p) \/ Answer(p)
    BY <1>3 DEF JudgeStale, FinalizeNext, EndPrune, Answer
  <1> QED BY <1>1, <1>2, <1>3

\* Every step keeps the types.
LEMMA TypeStep ==
    ASSUME TypeOK, Working, [Next]_vars
    PROVE  TypeOK'
  <1>0. ASSUME NEW p \in Procs, proc[p].pc \in {"commit", "load"} \cup Writing
        PROVE  proc[p].run \in Runs
    BY <1>0 DEF Working
  <1>1. DiskOK'
    <2>1. ASSUME NEW p \in Procs, Commit(p) \/ Refuse(p) \/ ReadExact(p) PROVE DiskOK'
      BY <1>0, <2>1, RepairTypes DEF Commit, Refuse, ReadExact
    <2>2. ASSUME NEW p \in Procs, ProjectEnvelope(p) PROVE DiskOK'
      <3>1. proc[p].run \in Runs /\ committed[proc[p].run] \in Version
        BY <2>2 DEF ProjectEnvelope, Working, Writing, TypeOK
      <3>2. shown[proc[p].run] \in Version \cup {Absent} /\ committed[proc[p].run].attempts \in SUBSET Envelope
        BY <3>1 DEF TypeOK, Version
      <3> QED BY <2>2, <3>1, <3>2, ShowTypes DEF ProjectEnvelope
    <2>3. ASSUME NEW p \in Procs, ProjectRun(p) PROVE DiskOK'
      <3>1. proc[p].run \in Runs /\ committed[proc[p].run] \in Version \cup {Absent}
            /\ envelopes[proc[p].run] \in SUBSET Envelope
        BY <2>3 DEF ProjectRun, Working, Writing, TypeOK
      <3> QED BY <2>3, <3>1, ShowTypes DEF ProjectRun
    <2>4. ASSUME NEW p \in Procs, NEW kind, NEW flag, NEW wanted, NEW limit,
                 BeginReport(p, kind, flag, wanted, limit)
          PROVE  DiskOK'
      BY <2>4 DEF BeginReport, TypeOK, DiskOK
    <2>5. ASSUME UNCHANGED disk PROVE DiskOK'
      BY <2>5 DEF TypeOK, DiskOK
    <2> QED
      BY <2>1, <2>2, <2>3, <2>4, <2>5, Quiet DEF Next, Tick, BeginExact, Begin, vars
  <1>2. committed' \in [Runs -> Version \cup {Absent}]
    <2>1. ASSUME NEW p \in Procs, Commit(p) PROVE committed' \in [Runs -> Version \cup {Absent}]
      <3> DEFINE r == proc[p].run
      <3>1. /\ r \in Runs /\ committed[r] \in Version \cup {Absent} /\ proc[p].cmd \in Commands \cup {Prune}
            /\ proc[p].now \in 0 .. MaxClock
        BY <2>1 DEF Commit, Working, TypeOK, Process
      <3>2. Applied(committed[r], proc[p].cmd, proc[p].now) \in Version
        BY <2>1, <3>1, AppliedIsVersion DEF Commit
      <3> QED BY <2>1, <3>1, <3>2 DEF Commit, TypeOK
    <2>2. ASSUME UNCHANGED committed PROVE committed' \in [Runs -> Version \cup {Absent}]
      BY <2>2 DEF TypeOK
    <2> QED
      BY <2>1, <2>2, Quiet DEF Next, Tick, BeginExact, Begin, ProjectEnvelope, ProjectRun, Refuse,
         BeginReport, ReadExact, vars
  <1>3. clock' \in 0 .. MaxClock
    <2>1. MaxClock \in Nat
      BY ConstantsAssumption
    <2>2. ASSUME Tick PROVE clock' \in 0 .. MaxClock
      BY <2>1, <2>2 DEF Tick, TypeOK
    <2>3. ASSUME UNCHANGED clock PROVE clock' \in 0 .. MaxClock
      BY <2>3 DEF TypeOK
    <2> QED
      BY <2>2, <2>3, Quiet DEF Next, BeginExact, Begin, Commit, ProjectEnvelope, ProjectRun, Refuse,
         BeginReport, ReadExact, vars
  <1>4. commands' \in 0 .. MaxCommands
    <2>1. MaxCommands \in Nat
      BY ConstantsAssumption
    <2>2. ASSUME commands < MaxCommands, commands' = commands + 1 PROVE commands' \in 0 .. MaxCommands
      BY <2>1, <2>2 DEF TypeOK
    <2>3. ASSUME UNCHANGED commands PROVE commands' \in 0 .. MaxCommands
      BY <2>3 DEF TypeOK
    <2> QED
      BY <2>2, <2>3, Quiet DEF Next, Tick, BeginExact, Begin, Commit, ProjectEnvelope, ProjectRun, Refuse,
         BeginReport, ReadExact, vars
  <1>5. claimed' \subseteq Runs
    BY Quiet DEF TypeOK, Next, Tick, BeginExact, Begin, Commit, ProjectEnvelope, ProjectRun, Refuse,
       BeginReport, ReadExact, vars
  <1> QED BY <1>1, <1>2, <1>3, <1>4, <1>5, ProcessStep DEF TypeOK, DiskOK

\* A process that is done with a run is idle or looks for its next one.
LEMMA ReturnMoves ==
    ASSUME TypeOK, NEW p \in Procs, NEW done, Return(p, done)
    PROVE  /\ \A q \in Procs : q # p => proc'[q] = proc[q]
           /\ proc'[p].pc \in {"idle", "finalize"}
           /\ proc'[p].seen \in {proc[p].seen, Nothing}
           /\ proc'[p].pc = "finalize" => proc'[p].kind = proc[p].kind /\ proc[p].kind # "command"
  <1>0. proc \in [Procs -> Process]
    BY DEF TypeOK
  <1>1. CASE proc[p].kind = "command"
    BY <1>0, <1>1 DEF Return, Idle
  <1>2. CASE proc[p].kind # "command"
    BY <1>0, <1>2 DEF Return, Process
  <1> QED BY <1>1, <1>2

\* What reading one gate, and the cut at the end of an entry, leave as they are.
LEMMA ReadMoves ==
    ASSUME TypeOK, NEW p \in Procs, NEW g, ReadGate(p, g)
    PROVE  /\ \A q \in Procs : q # p => proc'[q] = proc[q]
           /\ proc'[p].pc = proc[p].pc /\ proc'[p].kind = proc[p].kind /\ proc'[p].run = proc[p].run
           /\ proc'[p].cmd = proc[p].cmd /\ proc'[p].todo = proc[p].todo /\ proc'[p].seen = proc[p].seen
           /\ proc'[p].gates = proc[p].gates /\ proc'[p].limit = proc[p].limit
           /\ proc'[p].names = proc[p].names \ {g}
           /\ proc'[p].found = proc[p].found \cup
                 LET there == {e \in envelopes[proc[p].run] : e.gate = g}
                 IN  {e \in there : \A d \in there : d.attempt <= e.attempt}
  <1> DEFINE there == {e \in envelopes[proc[p].run] : e.gate = g}
             last  == {e \in there : \A d \in there : d.attempt <= e.attempt}
  <1>1. proc \in [Procs -> Process] /\ proc[p] \in Process
    BY DEF TypeOK
  <1>2. proc' = [proc EXCEPT ![p].names = @ \ {g}, ![p].found = @ \cup last]
    BY DEF ReadGate
  <1> HIDE DEF last
  <1>3. /\ \A q \in Procs : q # p => proc'[q] = proc[q]
        /\ proc'[p] = [proc[p] EXCEPT !.names = @ \ {g}, !.found = @ \cup last]
    BY <1>1, <1>2
  <1>4. /\ proc'[p].pc = proc[p].pc /\ proc'[p].kind = proc[p].kind /\ proc'[p].run = proc[p].run
        /\ proc'[p].cmd = proc[p].cmd /\ proc'[p].todo = proc[p].todo /\ proc'[p].seen = proc[p].seen
        /\ proc'[p].gates = proc[p].gates /\ proc'[p].limit = proc[p].limit
        /\ proc'[p].names = proc[p].names \ {g} /\ proc'[p].found = proc[p].found \cup last
    BY <1>1, <1>3 DEF Process
  <1> QED BY <1>3, <1>4 DEF last

LEMMA ListMoves ==
    ASSUME TypeOK, NEW p \in Procs, NEW listed, ListGates(p, listed)
    PROVE  /\ \A q \in Procs : q # p => proc'[q] = proc[q]
           /\ proc'[p].pc = "gates" /\ proc'[p].kind = proc[p].kind /\ proc'[p].seen = proc[p].seen
           /\ proc'[p].limit = proc[p].limit
           /\ proc'[p].todo = proc[p].todo \ {proc[p].run}
           /\ proc'[p].gates = [proc[p].gates EXCEPT ![proc[p].run] = listed]
  <1>1. proc \in [Procs -> Process] /\ proc[p] \in Process
    BY DEF TypeOK
  <1>2. /\ \A q \in Procs : q # p => proc'[q] = proc[q]
        /\ proc'[p] = [proc[p] EXCEPT !.pc = "gates", !.gates[proc[p].run] = listed, !.todo = @ \ {proc[p].run},
                                      !.run = Absent, !.found = {}]
    BY <1>1 DEF ListGates
  <1> QED BY <1>1, <1>2 DEF Process

\* Who writes holds the lock, alone.
LEMMA OneHolderStep ==
    ASSUME TypeOK, OneHolder, [Next]_vars
    PROVE  OneHolder'
  <1>0. proc \in [Procs -> Process] /\ Questions \subseteq SUBSET Runs
    BY ConstantsAssumption DEF TypeOK
  <1>1. ASSUME Tick PROVE OneHolder'
    BY <1>0, <1>1 DEF Tick, Process, OneHolder, Writing
  <1>2. ASSUME NEW p \in Procs, NEW r \in Runs, NEW c \in Commands, Begin(p, r, c) PROVE OneHolder'
    BY <1>0, <1>2 DEF Begin, Idle, Process, OneHolder, Writing
  <1>3. ASSUME NEW p \in Procs, Commit(p) PROVE OneHolder'
    BY <1>0, <1>3 DEF Commit, Held, Process, OneHolder, Writing
  <1>4. ASSUME NEW p \in Procs, ProjectEnvelope(p) PROVE OneHolder'
    BY <1>0, <1>4 DEF ProjectEnvelope, Process, OneHolder, Writing
  <1>5. ASSUME NEW p \in Procs, ProjectRun(p) PROVE OneHolder'
    <2>1. /\ \A q \in Procs : q # p => proc'[q] = proc[q]
          /\ proc'[p].pc \in {"idle", "finalize"}
      BY <1>5, ReturnMoves DEF ProjectRun
    <2> QED BY <2>1 DEF OneHolder, Writing
  <1>6. ASSUME NEW p \in Procs, Refuse(p) PROVE OneHolder'
    <2>1. /\ \A q \in Procs : q # p => proc'[q] = proc[q]
          /\ proc'[p].pc \in {"idle", "finalize"}
      BY <1>6, ReturnMoves DEF Refuse
    <2> QED BY <2>1 DEF OneHolder, Writing
  <1>7. ASSUME NEW p \in Procs, TimeOut(p) PROVE OneHolder'
    BY <1>0, <1>7 DEF TimeOut, Idle, Process, OneHolder, Writing
  <1>8. ASSUME NEW p \in Procs, Crash(p) PROVE OneHolder'
    BY <1>0, <1>8 DEF Crash, Idle, Process, OneHolder, Writing
  <1>9. ASSUME NEW p \in Procs, NEW kind \in {"resume", "dashboard", "prune"}, NEW flag \in BOOLEAN,
               NEW wanted \in SUBSET Runs, NEW limit \in Limits \cup {0},
               BeginReport(p, kind, flag, wanted, limit) PROVE OneHolder'
    BY <1>0, <1>9 DEF BeginReport, Idle, Process, OneHolder, Writing
  <1>10. ASSUME NEW p \in Procs, Scan(p) PROVE OneHolder'
    BY <1>0, <1>10 DEF Scan, Process, OneHolder, Writing
  <1>11. ASSUME NEW p \in Procs, SelectResume(p) PROVE OneHolder'
    BY <1>0, <1>11 DEF SelectResume, Process, OneHolder, Writing
  <1>12. ASSUME NEW p \in Procs, NEW r \in Runs, BeginExact(p, r) PROVE OneHolder'
    BY <1>0, <1>12 DEF BeginExact, Idle, Process, OneHolder, Writing
  <1>13. ASSUME NEW p \in Procs, ReadExact(p) PROVE OneHolder'
    BY <1>0, <1>13 DEF ReadExact, Process, OneHolder, Writing
  <1>14. ASSUME NEW p \in Procs, OpenDashboard(p) PROVE OneHolder'
    BY <1>0, <1>14 DEF OpenDashboard, Process, OneHolder, Writing
  <1>15. ASSUME NEW p \in Procs, CloseDashboard(p) PROVE OneHolder'
    BY <1>0, <1>15 DEF CloseDashboard, Process, OneHolder, Writing
  <1>16. ASSUME NEW p \in Procs, JudgeStale(p) PROVE OneHolder'
    BY <1>0, <1>16 DEF JudgeStale, Process, OneHolder, Writing
  <1>17. ASSUME NEW p \in Procs, FinalizeNext(p) PROVE OneHolder'
    BY <1>0, <1>17 DEF FinalizeNext, Process, OneHolder, Writing
  <1>18. ASSUME NEW p \in Procs, EndPrune(p) PROVE OneHolder'
    BY <1>0, <1>18 DEF EndPrune, Process, OneHolder, Writing
  <1>19. ASSUME NEW p \in Procs, Answer(p) PROVE OneHolder'
    BY <1>0, <1>19 DEF Answer, Idle, Process, OneHolder, Writing
  <1>21. ASSUME NEW p \in Procs, NEW r \in Runs, OpenEntry(p, r) PROVE OneHolder'
    BY <1>0, <1>21 DEF OpenEntry, Process, OneHolder, Writing
  <1>22. ASSUME NEW p \in Procs, NEW g \in Gates, ReadGate(p, g) PROVE OneHolder'
    <2>1. (\A q \in Procs : q # p => proc'[q] = proc[q]) /\ proc'[p].pc = "entry"
      BY <1>22, ReadMoves DEF ReadGate
    <2> QED BY <2>1 DEF OneHolder, Writing
  <1>23. ASSUME NEW p \in Procs, NEW listed, ListGates(p, listed) PROVE OneHolder'
    <2>1. (\A q \in Procs : q # p => proc'[q] = proc[q]) /\ proc'[p].pc = "gates"
      BY <1>23, ListMoves
    <2> QED BY <2>1 DEF OneHolder, Writing
  <1>20. ASSUME UNCHANGED vars PROVE OneHolder'
    BY <1>0, <1>20 DEF vars, Process, OneHolder, Writing
  <1> QED BY <1>0, <1>1, <1>2, <1>3, <1>4, <1>5, <1>6, <1>7, <1>8, <1>9, <1>10, <1>11, <1>12, <1>13, <1>14, <1>15, <1>16, <1>17, <1>18, <1>19, <1>20, <1>21, <1>22, <1>23 DEF Next

\* Who is at work has a run, and who writes one that the journal knows.
LEMMA WorkingStep ==
    ASSUME TypeOK, Working, [Next]_vars
    PROVE  Working'
  <1>0. proc \in [Procs -> Process] /\ Questions \subseteq SUBSET Runs
    BY ConstantsAssumption DEF TypeOK
  <1>1. ASSUME Tick PROVE Working'
    BY <1>0, <1>1 DEF Tick, Process, Working, Writing
  <1>2. ASSUME NEW p \in Procs, NEW r \in Runs, NEW c \in Commands, Begin(p, r, c) PROVE Working'
    BY <1>0, <1>2 DEF Begin, Idle, Process, Working, Writing
  <1>3. ASSUME NEW p \in Procs, Commit(p) PROVE Working'
    <2> DEFINE r == proc[p].run
    <2>1. /\ r \in Runs /\ committed[r] \in Version \cup {Absent} /\ proc[p].cmd \in Commands \cup {Prune}
          /\ proc[p].now \in 0 .. MaxClock
      BY <1>3 DEF Commit, Working, TypeOK, Process
    <2>2. Applied(committed[r], proc[p].cmd, proc[p].now) # Absent
      BY <1>3, <2>1, AppliedIsVersion, ConstantsAssumption DEF Commit
    <2>3. committed' \in [Runs -> Version \cup {Absent}] /\ committed'[r] # Absent
          /\ \A s \in Runs : committed[s] # Absent => committed'[s] # Absent
      BY <1>3, <2>1, <2>2, TypeStep DEF Commit, TypeOK, Next
    <2>4. proc'[p].pc = "envelope" /\ proc'[p].run = r /\ \A q \in Procs : q # p => proc'[q] = proc[q]
      BY <1>0, <1>3 DEF Commit, Process
    <2> HIDE DEF r
    <2> QED BY <2>1, <2>3, <2>4 DEF Working, Writing
  <1>4. ASSUME NEW p \in Procs, ProjectEnvelope(p) PROVE Working'
    BY <1>0, <1>4 DEF ProjectEnvelope, Process, Working, Writing
  <1>5. ASSUME NEW p \in Procs, ProjectRun(p) PROVE Working'
    <2>1. /\ \A q \in Procs : q # p => proc'[q] = proc[q]
          /\ proc'[p].pc \in {"idle", "finalize"}
      BY <1>5, ReturnMoves DEF ProjectRun
    <2> QED BY <2>1, <1>5 DEF Working, Writing, ProjectRun
  <1>6. ASSUME NEW p \in Procs, Refuse(p) PROVE Working'
    <2>1. /\ \A q \in Procs : q # p => proc'[q] = proc[q]
          /\ proc'[p].pc \in {"idle", "finalize"}
      BY <1>6, ReturnMoves DEF Refuse
    <2> QED BY <2>1, <1>6 DEF Working, Writing, Refuse
  <1>7. ASSUME NEW p \in Procs, TimeOut(p) PROVE Working'
    BY <1>0, <1>7 DEF TimeOut, Idle, Process, Working, Writing
  <1>8. ASSUME NEW p \in Procs, Crash(p) PROVE Working'
    BY <1>0, <1>8 DEF Crash, Idle, Process, Working, Writing
  <1>9. ASSUME NEW p \in Procs, NEW kind \in {"resume", "dashboard", "prune"}, NEW flag \in BOOLEAN,
               NEW wanted \in SUBSET Runs, NEW limit \in Limits \cup {0},
               BeginReport(p, kind, flag, wanted, limit) PROVE Working'
    BY <1>0, <1>9 DEF BeginReport, Idle, Process, Working, Writing
  <1>10. ASSUME NEW p \in Procs, Scan(p) PROVE Working'
    BY <1>0, <1>10 DEF Scan, Process, Working, Writing
  <1>11. ASSUME NEW p \in Procs, SelectResume(p) PROVE Working'
    BY <1>0, <1>11 DEF SelectResume, Process, Working, Writing
  <1>12. ASSUME NEW p \in Procs, NEW r \in Runs, BeginExact(p, r) PROVE Working'
    BY <1>0, <1>12 DEF BeginExact, Idle, Process, Working, Writing
  <1>13. ASSUME NEW p \in Procs, ReadExact(p) PROVE Working'
    BY <1>0, <1>13 DEF ReadExact, Process, Working, Writing
  <1>14. ASSUME NEW p \in Procs, OpenDashboard(p) PROVE Working'
    BY <1>0, <1>14 DEF OpenDashboard, Process, Working, Writing
  <1>15. ASSUME NEW p \in Procs, CloseDashboard(p) PROVE Working'
    BY <1>0, <1>15 DEF CloseDashboard, Process, Working, Writing
  <1>16. ASSUME NEW p \in Procs, JudgeStale(p) PROVE Working'
    BY <1>0, <1>16 DEF JudgeStale, Process, Working, Writing
  <1>17. ASSUME NEW p \in Procs, FinalizeNext(p) PROVE Working'
    <2>1. First(proc[p].todo) \in Runs
      BY <1>0, <1>17, FirstIn DEF FinalizeNext, Process
    <2>2. /\ proc'[p].pc = "commit" /\ proc'[p].run = First(proc[p].todo) /\ proc'[p].cmd = Prune
          /\ \A q \in Procs : q # p => proc'[q] = proc[q]
      BY <1>0, <1>17 DEF FinalizeNext, Process
    <2> QED BY <1>17, <2>1, <2>2 DEF FinalizeNext, Working, Writing
  <1>18. ASSUME NEW p \in Procs, EndPrune(p) PROVE Working'
    BY <1>0, <1>18 DEF EndPrune, Process, Working, Writing
  <1>19. ASSUME NEW p \in Procs, Answer(p) PROVE Working'
    BY <1>0, <1>19 DEF Answer, Idle, Process, Working, Writing
  <1>21. ASSUME NEW p \in Procs, NEW r \in Runs, OpenEntry(p, r) PROVE Working'
    BY <1>0, <1>21 DEF OpenEntry, Process, Working, Writing
  <1>22. ASSUME NEW p \in Procs, NEW g \in Gates, ReadGate(p, g) PROVE Working'
    <2>1. /\ \A q \in Procs : q # p => proc'[q] = proc[q]
          /\ proc'[p].pc = "entry" /\ proc'[p].run = proc[p].run /\ proc[p].pc = "entry"
          /\ UNCHANGED committed
      BY <1>22, ReadMoves DEF ReadGate
    <2> QED BY <2>1 DEF Working, Writing
  <1>23. ASSUME NEW p \in Procs, NEW listed, ListGates(p, listed) PROVE Working'
    <2>1. /\ \A q \in Procs : q # p => proc'[q] = proc[q]
          /\ proc'[p].pc = "gates" /\ UNCHANGED committed
      BY <1>23, ListMoves DEF ListGates
    <2> QED BY <2>1 DEF Working, Writing
  <1>20. ASSUME UNCHANGED vars PROVE Working'
    BY <1>0, <1>20 DEF vars, Process, Working, Writing
  <1> QED BY <1>0, <1>1, <1>2, <1>3, <1>4, <1>5, <1>6, <1>7, <1>8, <1>9, <1>10, <1>11, <1>12, <1>13, <1>14, <1>15, <1>16, <1>17, <1>18, <1>19, <1>20, <1>21, <1>22, <1>23 DEF Next

-----------------------------------------------------------------------------
(* What the writers leave behind. *)

\* What holds of one run between steps.
InOrder(r) ==
    /\ committed[r] = Absent => shown[r] = Absent /\ envelopes[r] = {}
    /\ committed[r] # Absent => /\ committed[r].checkpoint \in committed[r].attempts \cup {Absent}
                                /\ envelopes[r] \subseteq committed[r].attempts
    /\ shown[r] # Absent => shown[r].checkpoint \in envelopes[r] \cup {Absent}

\* One run is written, so that its envelopes are still there.
Written(r) ==
    /\ \A s \in Runs : s # r => shown'[s] = shown[s] /\ envelopes'[s] = envelopes[s]
    /\ envelopes[r] \subseteq envelopes'[r]
    /\ shown'[r] # shown[r] => \A p \in Procs : r \in moved'[p]
    /\ \A p \in Procs : moved[p] \subseteq moved'[p]

LEMMA RepairWrites ==
    ASSUME TypeOK, Projected, NEW r \in Runs, Repair(r)
    PROVE  /\ Written(r) /\ shown'[r] = committed[r]
           /\ envelopes'[r] = IF committed[r] = Absent THEN {} ELSE committed[r].attempts
  <1>1. InOrder(r)
    BY DEF Projected, InOrder
  <1>2. CASE committed[r] = Absent
    BY <1>1, <1>2 DEF Repair, Written, InOrder
  <1>3. CASE committed[r] # Absent
    BY <1>1, <1>3 DEF Repair, Show, Written, InOrder, TypeOK
  <1> QED BY <1>2, <1>3

\* What a write leaves in order, and what it may not touch.
LEMMA WriteKeepsOrder ==
    ASSUME TypeOK, Working, OneHolder, Projected, NEW p \in Procs, NEW r \in Runs, r = proc[p].run,
           Written(r), InOrder(r)',
           \A s \in Runs : s # r => committed'[s] = committed[s],
           \A q \in Procs : q # p => proc'[q] = proc[q],
           proc'[p].pc = "project" => proc'[p].run = r /\ envelopes'[r] = committed'[r].attempts,
           (committed'[r] = committed[r] /\ envelopes'[r] = envelopes[r]) \/ ~Held(r) \/ proc[p].pc \in Writing
    PROVE  Projected'
  <1>1. ASSUME NEW s \in Runs PROVE InOrder(s)'
    BY <1>1 DEF InOrder, Projected, Written
  <1>2. ASSUME NEW q \in Procs, proc'[q].pc = "project"
        PROVE  envelopes'[proc'[q].run] = committed'[proc'[q].run].attempts
    <2>1. CASE q = p
      BY <1>2, <2>1
    <2>2. CASE q # p
      <3>1. proc'[q] = proc[q] /\ proc[q].run \in Runs
        BY <1>2, <2>2 DEF Working, Writing
      <3>2. envelopes[proc[q].run] = committed[proc[q].run].attempts
        BY <1>2, <3>1 DEF Projected
      <3>3. proc[q].run = r => committed'[r] = committed[r] /\ envelopes'[r] = envelopes[r]
        BY <1>2, <2>2, <3>1 DEF OneHolder, Held, Writing
      <3> QED BY <3>1, <3>2, <3>3 DEF Written
    <2> QED BY <2>1, <2>2
  <1> QED BY <1>1, <1>2 DEF Projected, InOrder

LEMMA WritesInOrder ==
    ASSUME TypeOK, Working, OneHolder, Projected, NEW p \in Procs,
           Commit(p) \/ ProjectEnvelope(p) \/ ProjectRun(p) \/ Refuse(p) \/ ReadExact(p)
    PROVE  Projected' /\ Written(proc[p].run)
  <1> SUFFICES ASSUME NEW r \in Runs, r = proc[p].run PROVE Projected' /\ Written(r)
    BY DEF Working, Writing, Commit, ProjectEnvelope, ProjectRun, Refuse, ReadExact
  <1>0. proc \in [Procs -> Process] /\ InOrder(r)
    BY DEF TypeOK, InOrder, Projected
  <1>1. CASE Commit(p)
    <2>1. Written(r) /\ shown'[r] = committed[r]
          /\ envelopes'[r] = IF committed[r] = Absent THEN {} ELSE committed[r].attempts
      BY <1>0, <1>1, RepairWrites DEF Commit
    <2>2. committed' = [committed EXCEPT ![r] = Applied(committed[r], proc[p].cmd, proc[p].now)]
      BY <1>1 DEF Commit, TypeOK
    <2>3. committed'[r] = Applied(committed[r], proc[p].cmd, proc[p].now)
          /\ \A s \in Runs : s # r => committed'[s] = committed[s]
      BY <1>0, <2>2 DEF TypeOK
    <2>4. committed[r] \in Version \cup {Absent} /\ proc[p].cmd \in Commands \cup {Prune}
          /\ proc[p].now \in 0 .. MaxClock /\ Allowed(committed[r], proc[p].cmd)
      BY <1>0, <1>1 DEF Commit, Working, TypeOK, Process
    <2>5. committed'[r] \in Version
      BY <2>3, <2>4, AppliedIsVersion
    <2>6. committed'[r] # Absent
      BY <2>5, ConstantsAssumption
    <2>7. /\ committed[r] # Absent => committed[r].attempts \subseteq committed'[r].attempts
          /\ committed'[r].checkpoint \in committed'[r].attempts \cup {Absent}
      <3>1. CASE committed[r] = Absent
        <4>1. committed'[r] = Started(proc[p].now)
          BY <2>3, <2>4, <3>1, AppliedIsVersion
        <4> QED BY <3>1, <4>1 DEF Started
      <3>2. CASE committed[r] # Absent
        BY <1>0, <2>3, <2>4, <3>2, AppliedIsVersion DEF InOrder
      <3> QED BY <3>1, <3>2
    <2>8. InOrder(r)'
      BY <1>0, <2>1, <2>6, <2>7 DEF InOrder
    <2>9. /\ \A q \in Procs : q # p => proc'[q] = proc[q]
          /\ proc'[p].pc # "project" /\ ~Held(r)
      BY <1>0, <1>1 DEF Commit, Process
    <2> QED BY <1>0, <2>1, <2>3, <2>8, <2>9, WriteKeepsOrder
  <1>2. CASE Refuse(p) \/ ReadExact(p)
    <2>1. Written(r) /\ shown'[r] = committed[r] /\ UNCHANGED committed /\ ~Held(r)
          /\ envelopes'[r] = IF committed[r] = Absent THEN {} ELSE committed[r].attempts
      BY <1>0, <1>2, RepairWrites DEF Refuse, ReadExact
    <2>2. InOrder(r)'
      BY <1>0, <2>1 DEF InOrder
    <2>3. (\A q \in Procs : q # p => proc'[q] = proc[q]) /\ proc'[p].pc # "project"
      <3>1. CASE Refuse(p)
        BY <3>1, ReturnMoves DEF Refuse
      <3>2. CASE ReadExact(p)
        BY <1>0, <3>2 DEF ReadExact, Process
      <3> QED BY <1>2, <3>1, <3>2
    <2> QED BY <1>0, <2>1, <2>2, <2>3, WriteKeepsOrder
  <1>3. CASE ProjectEnvelope(p)
    <2>1. committed[r] # Absent /\ UNCHANGED committed
      BY <1>3 DEF ProjectEnvelope, Working, Writing
    <2>2. Written(r) /\ shown'[r] = shown[r] /\ envelopes'[r] = committed[r].attempts
      BY <1>0, <1>3, <2>1 DEF ProjectEnvelope, Show, Written, TypeOK, InOrder
    <2>3. InOrder(r)'
      BY <1>0, <2>1, <2>2 DEF InOrder
    <2>4. /\ \A q \in Procs : q # p => proc'[q] = proc[q]
          /\ proc'[p].run = r
      BY <1>0, <1>3 DEF ProjectEnvelope, Process
    <2>5. proc[p].pc \in Writing
      BY <1>3 DEF ProjectEnvelope, Writing
    <2> QED BY <1>0, <2>1, <2>2, <2>3, <2>4, <2>5, WriteKeepsOrder
  <1>4. CASE ProjectRun(p)
    <2>1. committed[r] # Absent /\ UNCHANGED committed /\ envelopes[r] = committed[r].attempts
      BY <1>4 DEF ProjectRun, Working, Writing, Projected
    <2>2. Written(r) /\ shown'[r] = committed[r] /\ envelopes'[r] = envelopes[r]
      BY <1>0, <1>4, <2>1 DEF ProjectRun, Show, Written, TypeOK
    <2>3. InOrder(r)'
      BY <1>0, <2>1, <2>2 DEF InOrder
    <2>4. (\A q \in Procs : q # p => proc'[q] = proc[q]) /\ proc'[p].pc # "project"
      BY <1>4, ReturnMoves DEF ProjectRun
    <2> QED BY <1>0, <2>1, <2>2, <2>3, <2>4, WriteKeepsOrder
  <1> QED BY <1>1, <1>2, <1>3, <1>4

\* What every step does to the disk: envelopes are not taken away, and whoever
\* is in a report is told of the runs that change.
LEMMA DiskStep ==
    ASSUME TypeOK, Working, OneHolder, Projected, [Next]_vars
    PROVE  /\ Projected'
           /\ \A r \in Runs : envelopes[r] \subseteq envelopes'[r]
           /\ \A r \in Runs, p \in Procs : shown'[r] # shown[r] => r \in moved'[p]
  <1>0. Questions \subseteq SUBSET Runs /\ proc \in [Procs -> Process]
    BY ConstantsAssumption DEF TypeOK
  <1>1. ASSUME NEW p \in Procs, Commit(p) \/ ProjectEnvelope(p) \/ ProjectRun(p) \/ Refuse(p) \/ ReadExact(p)
        PROVE  /\ Projected'
               /\ \A r \in Runs : envelopes[r] \subseteq envelopes'[r]
               /\ \A r \in Runs, q \in Procs : shown'[r] # shown[r] => r \in moved'[q]
    <2>1. Projected' /\ Written(proc[p].run)
      BY <1>1, WritesInOrder
    <2> QED BY <1>0, <2>1 DEF Written
  <1>2. ASSUME UNCHANGED <<committed, shown, envelopes>>,
               \A p \in Procs : proc'[p].pc = "project" => proc'[p] = proc[p]
        PROVE  /\ Projected'
               /\ \A r \in Runs : envelopes[r] \subseteq envelopes'[r]
               /\ \A r \in Runs, q \in Procs : shown'[r] # shown[r] => r \in moved'[q]
    BY <1>0, <1>2 DEF Projected
  <1>3. ASSUME Tick
        PROVE  /\ UNCHANGED <<committed, shown, envelopes>>
               /\ \A q \in Procs : proc'[q].pc = "project" => proc'[q] = proc[q]
    BY <1>0, <1>3 DEF Tick, Process
  <1>4. ASSUME NEW p \in Procs, NEW r \in Runs, NEW c \in Commands, Begin(p, r, c)
        PROVE  /\ UNCHANGED <<committed, shown, envelopes>>
               /\ \A q \in Procs : proc'[q].pc = "project" => proc'[q] = proc[q]
    BY <1>0, <1>4 DEF Begin, Idle, Process
  <1>5. ASSUME NEW p \in Procs, TimeOut(p)
        PROVE  /\ UNCHANGED <<committed, shown, envelopes>>
               /\ \A q \in Procs : proc'[q].pc = "project" => proc'[q] = proc[q]
    BY <1>0, <1>5 DEF TimeOut, Idle, Process
  <1>6. ASSUME NEW p \in Procs, Crash(p)
        PROVE  /\ UNCHANGED <<committed, shown, envelopes>>
               /\ \A q \in Procs : proc'[q].pc = "project" => proc'[q] = proc[q]
    BY <1>0, <1>6 DEF Crash, Idle, Process
  <1>7. ASSUME NEW p \in Procs, NEW kind \in {"resume", "dashboard", "prune"}, NEW flag \in BOOLEAN,
               NEW wanted \in SUBSET Runs, NEW limit \in Limits \cup {0},
               BeginReport(p, kind, flag, wanted, limit)
        PROVE  /\ UNCHANGED <<committed, shown, envelopes>>
               /\ \A q \in Procs : proc'[q].pc = "project" => proc'[q] = proc[q]
    BY <1>0, <1>7 DEF BeginReport, Idle, Process
  <1>8. ASSUME NEW p \in Procs, Scan(p)
        PROVE  /\ UNCHANGED <<committed, shown, envelopes>>
               /\ \A q \in Procs : proc'[q].pc = "project" => proc'[q] = proc[q]
    BY <1>0, <1>8 DEF Scan, Process
  <1>9. ASSUME NEW p \in Procs, SelectResume(p)
        PROVE  /\ UNCHANGED <<committed, shown, envelopes>>
               /\ \A q \in Procs : proc'[q].pc = "project" => proc'[q] = proc[q]
    <2>1. PICK v : proc' = [proc EXCEPT ![p].pc = "reported", ![p].selected = v]
      BY <1>9 DEF SelectResume
    <2> QED BY <1>0, <2>1, <1>9 DEF SelectResume, Process
  <1>10. ASSUME NEW p \in Procs, NEW r \in Runs, BeginExact(p, r)
        PROVE  /\ UNCHANGED <<committed, shown, envelopes>>
               /\ \A q \in Procs : proc'[q].pc = "project" => proc'[q] = proc[q]
    BY <1>0, <1>10 DEF BeginExact, Idle, Process
  <1>11. ASSUME NEW p \in Procs, OpenDashboard(p)
        PROVE  /\ UNCHANGED <<committed, shown, envelopes>>
               /\ \A q \in Procs : proc'[q].pc = "project" => proc'[q] = proc[q]
    BY <1>0, <1>11 DEF OpenDashboard, Process
  <1>12. ASSUME NEW p \in Procs, CloseDashboard(p)
        PROVE  /\ UNCHANGED <<committed, shown, envelopes>>
               /\ \A q \in Procs : proc'[q].pc = "project" => proc'[q] = proc[q]
    BY <1>0, <1>12 DEF CloseDashboard, Process
  <1>13. ASSUME NEW p \in Procs, JudgeStale(p)
        PROVE  /\ UNCHANGED <<committed, shown, envelopes>>
               /\ \A q \in Procs : proc'[q].pc = "project" => proc'[q] = proc[q]
    <2>1. PICK l \in {"finalize", "reported"} : \E S : proc' = [proc EXCEPT ![p].pc = l, ![p].todo = S]
      BY <1>13 DEF JudgeStale
    <2> QED BY <1>0, <2>1, <1>13 DEF JudgeStale, Process
  <1>14. ASSUME NEW p \in Procs, FinalizeNext(p)
        PROVE  /\ UNCHANGED <<committed, shown, envelopes>>
               /\ \A q \in Procs : proc'[q].pc = "project" => proc'[q] = proc[q]
    BY <1>0, <1>14 DEF FinalizeNext, Process
  <1>15. ASSUME NEW p \in Procs, EndPrune(p)
        PROVE  /\ UNCHANGED <<committed, shown, envelopes>>
               /\ \A q \in Procs : proc'[q].pc = "project" => proc'[q] = proc[q]
    BY <1>0, <1>15 DEF EndPrune, Process
  <1>16. ASSUME NEW p \in Procs, Answer(p)
        PROVE  /\ UNCHANGED <<committed, shown, envelopes>>
               /\ \A q \in Procs : proc'[q].pc = "project" => proc'[q] = proc[q]
    BY <1>0, <1>16 DEF Answer, Idle, Process
  <1>18. ASSUME NEW p \in Procs, NEW r \in Runs, OpenEntry(p, r)
        PROVE  /\ UNCHANGED <<committed, shown, envelopes>>
               /\ \A q \in Procs : proc'[q].pc = "project" => proc'[q] = proc[q]
    BY <1>0, <1>18 DEF OpenEntry, Process
  <1>19. ASSUME NEW p \in Procs, NEW g \in Gates, ReadGate(p, g)
        PROVE  /\ UNCHANGED <<committed, shown, envelopes>>
               /\ \A q \in Procs : proc'[q].pc = "project" => proc'[q] = proc[q]
    BY <1>19, ReadMoves DEF ReadGate
  <1>20. ASSUME NEW p \in Procs, NEW listed, ListGates(p, listed)
        PROVE  /\ UNCHANGED <<committed, shown, envelopes>>
               /\ \A q \in Procs : proc'[q].pc = "project" => proc'[q] = proc[q]
    BY <1>20, ListMoves DEF ListGates
  <1>17. ASSUME UNCHANGED vars
        PROVE  /\ UNCHANGED <<committed, shown, envelopes>>
               /\ \A q \in Procs : proc'[q].pc = "project" => proc'[q] = proc[q]
    BY <1>0, <1>17 DEF vars, Process
  <1> QED BY <1>0, <1>1, <1>2, <1>3, <1>4, <1>5, <1>6, <1>7, <1>8, <1>9, <1>10, <1>11, <1>12, <1>13, <1>14, <1>15, <1>16, <1>17, <1>18, <1>19, <1>20 DEF Next

\* What a report knows of a run is what it knew, or what is or was on disk.
LEMMA SeenMoves ==
    ASSUME TypeOK, Working, Projected, [Next]_vars, NEW q \in Procs, NEW run \in Runs
    PROVE  proc'[q].seen[run] \in {proc[q].seen[run], Absent, shown[run], shown'[run]}
  <1> DEFINE P == proc'[q].seen[run] \in {proc[q].seen[run], Absent, shown[run], shown'[run]}
  <1>0. Questions \subseteq SUBSET Runs /\ proc \in [Procs -> Process]
    BY ConstantsAssumption DEF TypeOK
  <1>1. ASSUME Tick PROVE P
    BY <1>0, <1>1 DEF Tick, Process
  <1>2. ASSUME NEW p \in Procs, NEW r \in Runs, NEW c \in Commands, Begin(p, r, c) PROVE P
    BY <1>0, <1>2 DEF Begin, Idle, Nothing, Process
  <1>3. ASSUME NEW p \in Procs, Commit(p) PROVE P
    BY <1>0, <1>3 DEF Commit, Process
  <1>4. ASSUME NEW p \in Procs, ProjectEnvelope(p) PROVE P
    BY <1>0, <1>4 DEF ProjectEnvelope, Process
  <1>5. ASSUME NEW p \in Procs, ProjectRun(p) PROVE P
    BY <1>5, ReturnMoves DEF ProjectRun, Nothing
  <1>6. ASSUME NEW p \in Procs, Refuse(p) PROVE P
    BY <1>6, ReturnMoves DEF Refuse, Nothing
  <1>7. ASSUME NEW p \in Procs, TimeOut(p) PROVE P
    BY <1>0, <1>7 DEF TimeOut, Idle, Nothing, Process
  <1>8. ASSUME NEW p \in Procs, Crash(p) PROVE P
    BY <1>0, <1>8 DEF Crash, Idle, Nothing, Process
  <1>9. ASSUME NEW p \in Procs, NEW kind \in {"resume", "dashboard", "prune"}, NEW flag \in BOOLEAN,
               NEW wanted \in SUBSET Runs, NEW limit \in Limits \cup {0},
               BeginReport(p, kind, flag, wanted, limit) PROVE P
    BY <1>0, <1>9 DEF BeginReport, Idle, Nothing, Process
  <1>10. ASSUME NEW p \in Procs, Scan(p) PROVE P
    <2>1. First(proc[p].todo) \in Runs
      BY <1>0, <1>10, FirstIn DEF Scan, Process
    <2>2. proc[p].seen \in [Runs -> Version \cup {Absent}]
      BY <1>0 DEF Process
    <2>3. PICK v \in {shown[First(proc[p].todo)], proc[p].seen[First(proc[p].todo)]} :
             proc'[p].seen = [proc[p].seen EXCEPT ![First(proc[p].todo)] = v]
      BY <1>0, <1>10 DEF Scan, Process
    <2>4. \A p2 \in Procs : p2 # p => proc'[p2] = proc[p2]
      BY <1>0, <1>10 DEF Scan
    <2> QED BY <2>1, <2>2, <2>3, <2>4
  <1>11. ASSUME NEW p \in Procs, SelectResume(p) PROVE P
    BY <1>0, <1>11 DEF SelectResume, Process
  <1>12. ASSUME NEW p \in Procs, NEW r \in Runs, BeginExact(p, r) PROVE P
    BY <1>0, <1>12 DEF BeginExact, Idle, Nothing, Process
  <1>13. ASSUME NEW p \in Procs, ReadExact(p) PROVE P
    <2>1. proc[p].run \in Runs /\ shown'[proc[p].run] = committed[proc[p].run]
      BY <1>13, RepairWrites DEF ReadExact, Working
    <2>2. proc' = [proc EXCEPT ![p] = [proc[p] EXCEPT !.pc = "reported", !.selected = proc[p].run,
                                       !.seen[proc[p].run] = committed[proc[p].run]]]
      BY <1>0, <1>13 DEF ReadExact
    <2>3. proc[p].seen \in [Runs -> Version \cup {Absent}]
      BY <1>0 DEF Process
    <2>4. proc'[p].seen = [proc[p].seen EXCEPT ![proc[p].run] = committed[proc[p].run]]
      BY <1>0, <2>2 DEF Process
    <2>5. \A p2 \in Procs : p2 # p => proc'[p2] = proc[p2]
      BY <1>0, <2>2
    <2> QED BY <2>1, <2>3, <2>4, <2>5
  <1>14. ASSUME NEW p \in Procs, OpenDashboard(p) PROVE P
    BY <1>0, <1>14 DEF OpenDashboard, Process
  <1>15. ASSUME NEW p \in Procs, CloseDashboard(p) PROVE P
    BY <1>0, <1>15 DEF CloseDashboard, Process
  <1>16. ASSUME NEW p \in Procs, JudgeStale(p) PROVE P
    BY <1>0, <1>16 DEF JudgeStale, Process
  <1>17. ASSUME NEW p \in Procs, FinalizeNext(p) PROVE P
    BY <1>0, <1>17 DEF FinalizeNext, Process
  <1>18. ASSUME NEW p \in Procs, EndPrune(p) PROVE P
    BY <1>0, <1>18 DEF EndPrune, Process
  <1>19. ASSUME NEW p \in Procs, Answer(p) PROVE P
    BY <1>0, <1>19 DEF Answer, Idle, Nothing, Process
  <1>21. ASSUME NEW p \in Procs, NEW r \in Runs, OpenEntry(p, r) PROVE P
    BY <1>0, <1>21 DEF OpenEntry, Process
  <1>22. ASSUME NEW p \in Procs, NEW g \in Gates, ReadGate(p, g) PROVE P
    BY <1>22, ReadMoves
  <1>23. ASSUME NEW p \in Procs, NEW listed, ListGates(p, listed) PROVE P
    BY <1>23, ListMoves
  <1>20. ASSUME UNCHANGED vars PROVE P
    BY <1>0, <1>20 DEF vars, Process
  <1> QED BY <1>0, <1>1, <1>2, <1>3, <1>4, <1>5, <1>6, <1>7, <1>8, <1>9, <1>10, <1>11, <1>12, <1>13, <1>14, <1>15, <1>16, <1>17, <1>18, <1>19, <1>20, <1>21, <1>22, <1>23 DEF Next

\* Envelopes are not taken away from a report.
LEMMA SeenStep ==
    ASSUME TypeOK, TypeOK', Working, OneHolder, Projected, Seen, [Next]_vars
    PROVE  Seen'
  <1> SUFFICES ASSUME NEW p \in Procs, NEW r \in Runs, proc'[p].seen[r] # Absent
               PROVE  proc'[p].seen[r].checkpoint \in envelopes'[r] \cup {Absent}
    BY DEF Seen
  <1>1. Projected' /\ envelopes[r] \subseteq envelopes'[r]
    BY DiskStep
  <1>3. proc'[p].seen[r] \in {proc[p].seen[r], Absent, shown[r], shown'[r]}
    BY SeenMoves
  <1>4. CASE proc'[p].seen[r] = proc[p].seen[r]
    BY <1>1, <1>4 DEF Seen
  <1>5. CASE proc'[p].seen[r] = shown[r]
    BY <1>1, <1>5 DEF Projected
  <1>6. CASE proc'[p].seen[r] = shown'[r]
    BY <1>1, <1>6 DEF Projected
  <1> QED BY <1>3, <1>4, <1>5, <1>6

\* Every command keeps to its steps.
LEMMA ErrandsStep ==
    ASSUME TypeOK, Errands, [Next]_vars
    PROVE  Errands'
  <1>0. Questions \subseteq SUBSET Runs /\ proc \in [Procs -> Process]
    BY ConstantsAssumption DEF TypeOK
  <1>1. ASSUME Tick PROVE Errands'
    BY <1>0, <1>1 DEF Tick, Process, Errands, Writing
  <1>2. ASSUME NEW p \in Procs, NEW r \in Runs, NEW c \in Commands, Begin(p, r, c) PROVE Errands'
    BY <1>0, <1>2 DEF Begin, Idle, Process, Errands, Writing
  <1>3. ASSUME NEW p \in Procs, Commit(p) PROVE Errands'
    BY <1>0, <1>3 DEF Commit, Process, Errands, Writing
  <1>4. ASSUME NEW p \in Procs, ProjectEnvelope(p) PROVE Errands'
    BY <1>0, <1>4 DEF ProjectEnvelope, Process, Errands, Writing
  <1>5. ASSUME NEW p \in Procs, ProjectRun(p) PROVE Errands'
    BY <1>0, <1>5, ReturnMoves DEF ProjectRun, Errands, Writing
  <1>6. ASSUME NEW p \in Procs, Refuse(p) PROVE Errands'
    BY <1>0, <1>6, ReturnMoves DEF Refuse, Errands, Writing
  <1>7. ASSUME NEW p \in Procs, TimeOut(p) PROVE Errands'
    BY <1>0, <1>7 DEF TimeOut, Idle, Process, Errands, Writing
  <1>8. ASSUME NEW p \in Procs, Crash(p) PROVE Errands'
    BY <1>0, <1>8 DEF Crash, Idle, Process, Errands, Writing
  <1>9. ASSUME NEW p \in Procs, NEW kind \in {"resume", "dashboard", "prune"}, NEW flag \in BOOLEAN,
               NEW wanted \in SUBSET Runs, NEW limit \in Limits \cup {0},
               BeginReport(p, kind, flag, wanted, limit) PROVE Errands'
    BY <1>0, <1>9 DEF BeginReport, Idle, Process, Errands, Writing
  <1>10. ASSUME NEW p \in Procs, Scan(p) PROVE Errands'
    BY <1>0, <1>10 DEF Scan, Process, Errands, Writing
  <1>11. ASSUME NEW p \in Procs, SelectResume(p) PROVE Errands'
    <2>1. PICK v : proc' = [proc EXCEPT ![p].pc = "reported", ![p].selected = v]
      BY <1>11 DEF SelectResume
    <2> QED BY <1>0, <2>1, <1>11 DEF SelectResume, Scanned, Process, Errands, Writing
  <1>12. ASSUME NEW p \in Procs, NEW r \in Runs, BeginExact(p, r) PROVE Errands'
    BY <1>0, <1>12 DEF BeginExact, Idle, Process, Errands, Writing
  <1>13. ASSUME NEW p \in Procs, ReadExact(p) PROVE Errands'
    BY <1>0, <1>13 DEF ReadExact, Process, Errands, Writing
  <1>14. ASSUME NEW p \in Procs, OpenDashboard(p) PROVE Errands'
    BY <1>0, <1>14 DEF OpenDashboard, Scanned, Process, Errands, Writing
  <1>15. ASSUME NEW p \in Procs, CloseDashboard(p) PROVE Errands'
    BY <1>0, <1>15 DEF CloseDashboard, Process, Errands, Writing
  <1>16. ASSUME NEW p \in Procs, JudgeStale(p) PROVE Errands'
    <2>1. PICK l \in {"finalize", "reported"} : \E S : proc' = [proc EXCEPT ![p].pc = l, ![p].todo = S]
      BY <1>16 DEF JudgeStale
    <2> QED BY <1>0, <2>1, <1>16 DEF JudgeStale, Scanned, Process, Errands, Writing
  <1>17. ASSUME NEW p \in Procs, FinalizeNext(p) PROVE Errands'
    BY <1>0, <1>17 DEF FinalizeNext, Process, Errands, Writing
  <1>18. ASSUME NEW p \in Procs, EndPrune(p) PROVE Errands'
    BY <1>0, <1>18 DEF EndPrune, Process, Errands, Writing
  <1>19. ASSUME NEW p \in Procs, Answer(p) PROVE Errands'
    BY <1>0, <1>19 DEF Answer, Idle, Process, Errands, Writing
  <1>21. ASSUME NEW p \in Procs, NEW r \in Runs, OpenEntry(p, r) PROVE Errands'
    BY <1>0, <1>21 DEF OpenEntry, Process, Errands, Writing
  <1>22. ASSUME NEW p \in Procs, NEW g \in Gates, ReadGate(p, g) PROVE Errands'
    <2>1. /\ \A q \in Procs : q # p => proc'[q] = proc[q]
          /\ proc'[p].pc = "entry" /\ proc[p].pc = "entry" /\ proc'[p].kind = proc[p].kind
      BY <1>22, ReadMoves DEF ReadGate
    <2> QED BY <2>1 DEF Errands, Writing
  <1>23. ASSUME NEW p \in Procs, NEW listed, ListGates(p, listed) PROVE Errands'
    <2>1. /\ \A q \in Procs : q # p => proc'[q] = proc[q]
          /\ proc'[p].pc = "gates" /\ proc[p].pc = "entry" /\ proc'[p].kind = proc[p].kind
      BY <1>23, ListMoves DEF ListGates
    <2> QED BY <2>1 DEF Errands, Writing
  <1>20. ASSUME UNCHANGED vars PROVE Errands'
    BY <1>0, <1>20 DEF vars, Process, Errands, Writing
  <1> QED BY <1>0, <1>1, <1>2, <1>3, <1>4, <1>5, <1>6, <1>7, <1>8, <1>9, <1>10, <1>11, <1>12, <1>13, <1>14, <1>15, <1>16, <1>17, <1>18, <1>19, <1>20, <1>21, <1>22, <1>23 DEF Next

\* How a dashboard gets on with its entries: they are opened, gates are read, cut,
\* and the whole is closed; a step of others leaves it as it is.
LEMMA DashboardMoves ==
    ASSUME TypeOK, Errands, [Next]_vars, NEW q \in Procs,
           proc'[q].kind = "dashboard", proc'[q].pc \in {"gates", "entry", "reported"}
    PROVE  \/ proc'[q] = proc[q]
           \/ OpenDashboard(q) \/ CloseDashboard(q)
           \/ \E r \in Runs : OpenEntry(q, r)
           \/ \E g \in Gates : ReadGate(q, g)
           \/ \E listed : ListGates(q, listed)
  <1> DEFINE P == \/ proc'[q] = proc[q]
                  \/ OpenDashboard(q) \/ CloseDashboard(q)
                  \/ \E r \in Runs : OpenEntry(q, r)
                  \/ \E g \in Gates : ReadGate(q, g)
                  \/ \E listed : ListGates(q, listed)
  <1>0. Questions \subseteq SUBSET Runs /\ proc \in [Procs -> Process]
    BY ConstantsAssumption DEF TypeOK
  <1>1. ASSUME Tick PROVE P
    BY <1>1 DEF Tick
  <1>2. ASSUME NEW p \in Procs, NEW r \in Runs, NEW c \in Commands, Begin(p, r, c) PROVE P
    BY <1>0, <1>2 DEF Begin, Idle, Process, Errands, Writing
  <1>3. ASSUME NEW p \in Procs, Commit(p) PROVE P
    BY <1>0, <1>3 DEF Commit, Process, Errands, Writing
  <1>4. ASSUME NEW p \in Procs, ProjectEnvelope(p) PROVE P
    BY <1>0, <1>4 DEF ProjectEnvelope, Process, Errands, Writing
  <1>5. ASSUME NEW p \in Procs, ProjectRun(p) PROVE P
    BY <1>5, ReturnMoves DEF ProjectRun
  <1>6. ASSUME NEW p \in Procs, Refuse(p) PROVE P
    BY <1>6, ReturnMoves DEF Refuse
  <1>7. ASSUME NEW p \in Procs, TimeOut(p) PROVE P
    BY <1>0, <1>7 DEF TimeOut, Idle, Process, Errands, Writing
  <1>8. ASSUME NEW p \in Procs, Crash(p) PROVE P
    BY <1>0, <1>8 DEF Crash, Idle, Process, Errands, Writing
  <1>9. ASSUME NEW p \in Procs, NEW kind \in {"resume", "dashboard", "prune"}, NEW flag \in BOOLEAN,
               NEW wanted \in SUBSET Runs, NEW limit \in Limits \cup {0},
               BeginReport(p, kind, flag, wanted, limit) PROVE P
    BY <1>0, <1>9 DEF BeginReport, Idle, Process, Errands, Writing
  <1>10. ASSUME NEW p \in Procs, Scan(p) PROVE P
    BY <1>0, <1>10 DEF Scan, Process, Errands, Writing
  <1>11. ASSUME NEW p \in Procs, SelectResume(p) PROVE P
    <2>1. PICK v : proc' = [proc EXCEPT ![p].pc = "reported", ![p].selected = v]
      BY <1>11 DEF SelectResume
    <2> QED BY <1>0, <2>1, <1>11 DEF SelectResume, Scanned, Process
  <1>12. ASSUME NEW p \in Procs, NEW r \in Runs, BeginExact(p, r) PROVE P
    BY <1>0, <1>12 DEF BeginExact, Idle, Process, Errands, Writing
  <1>13. ASSUME NEW p \in Procs, ReadExact(p) PROVE P
    BY <1>0, <1>13 DEF ReadExact, Process, Errands, Writing
  <1>14. ASSUME NEW p \in Procs, OpenDashboard(p) PROVE P
    BY <1>0, <1>14 DEF OpenDashboard
  <1>15. ASSUME NEW p \in Procs, CloseDashboard(p) PROVE P
    BY <1>0, <1>15 DEF CloseDashboard
  <1>16. ASSUME NEW p \in Procs, JudgeStale(p) PROVE P
    <2>1. PICK l \in {"finalize", "reported"} : \E S : proc' = [proc EXCEPT ![p].pc = l, ![p].todo = S]
      BY <1>16 DEF JudgeStale
    <2> QED BY <1>0, <2>1, <1>16 DEF JudgeStale, Scanned, Process
  <1>17. ASSUME NEW p \in Procs, FinalizeNext(p) PROVE P
    BY <1>0, <1>17 DEF FinalizeNext, Process, Errands, Writing
  <1>18. ASSUME NEW p \in Procs, EndPrune(p) PROVE P
    BY <1>0, <1>18 DEF EndPrune, Process, Errands, Writing
  <1>19. ASSUME NEW p \in Procs, Answer(p) PROVE P
    BY <1>0, <1>19 DEF Answer, Idle, Process, Errands, Writing
  <1>21. ASSUME NEW p \in Procs, NEW r \in Runs, OpenEntry(p, r) PROVE P
    BY <1>0, <1>21 DEF OpenEntry
  <1>22. ASSUME NEW p \in Procs, NEW g \in Gates, ReadGate(p, g) PROVE P
    BY <1>22, ReadMoves
  <1>23. ASSUME NEW p \in Procs, NEW listed, ListGates(p, listed) PROVE P
    BY <1>23, ListMoves
  <1>20. ASSUME UNCHANGED vars PROVE P
    BY <1>20 DEF vars
  <1> QED BY <1>0, <1>1, <1>2, <1>3, <1>4, <1>5, <1>6, <1>7, <1>8, <1>9, <1>10, <1>11, <1>12, <1>13, <1>14, <1>15, <1>16, <1>17, <1>18, <1>19, <1>20, <1>21, <1>22, <1>23 DEF Next

\* The last attempts of a gate are as late as any of it that is there.
LEMMA LastAttempts ==
    ASSUME NEW S \in SUBSET Envelope, NEW e \in S
    PROVE  LET there == {d \in S : d.gate = e.gate}
           IN  \E l \in {d \in there : \A x \in there : x.attempt <= d.attempt} : SameOrLater(l, e)
  <1> DEFINE there == {d \in S : d.gate = e.gate}
             f == [d \in there |-> d.attempt]
  <1>1. \A d \in there : f[d] \in 0 .. MaxAttempts
    BY ConstantsAssumption DEF Envelope
  <1>2. PICK l \in there : \A d \in there : f[d] <= f[l]
    <2>1. MaxAttempts \in Nat /\ there # {}
      BY ConstantsAssumption
    <2> HIDE DEF f, there
    <2> QED BY <1>1, <2>1, Greatest
  <1>3. e \in there /\ \A d \in there : d.attempt <= l.attempt
    BY <1>2
  <1>4. e.attempt \in Nat /\ l.attempt \in Nat
    BY <1>3, ConstantsAssumption DEF Envelope
  <1> QED BY <1>2, <1>3, <1>4 DEF SameOrLater

\* An entry stays right while its envelopes stay.
LEMMA EntryStays ==
    ASSUME NEW q \in Procs, NEW r \in Runs, ShownOrCut(q, r), envelopes[r] \subseteq envelopes'[r],
           proc'[q].seen[r] = proc[q].seen[r], proc'[q].gates[r] = proc[q].gates[r],
           proc'[q].limit = proc[q].limit
    PROVE  ShownOrCut(q, r)'
  BY DEF ShownOrCut, SameOrLater

\* The dashboard goes on from what it has collected.
LEMMA GatheredStep ==
    ASSUME TypeOK, Working, Errands, Seen, Gathered, [Next]_vars,
           \A r \in Runs : envelopes[r] \subseteq envelopes'[r]
    PROVE  Gathered'
  <1> SUFFICES ASSUME NEW q \in Procs
               PROVE  /\ Reported(q, "dashboard")' => proc'[q].todo = {}
                      /\ At(q, "gates")' \/ At(q, "entry")' \/ Reported(q, "dashboard")' =>
                            \A r \in Read(q)' \ proc'[q].todo : ShownOrCut(q, r)'
                      /\ At(q, "entry")' => proc'[q].found \subseteq envelopes'[proc'[q].run] /\ Sought(q)'
    BY DEF Gathered
  <1>0. proc \in [Procs -> Process] /\ proc[q] \in Process /\ Errands'
    BY ErrandsStep DEF TypeOK
  <1>1. CASE ~(proc'[q].kind = "dashboard" /\ proc'[q].pc \in {"gates", "entry", "reported"})
    BY <1>0, <1>1 DEF Reported, Errands
  <1>2. CASE proc'[q] = proc[q]
    <2>1. Read(q)' = Read(q) /\ (Reported(q, "dashboard")' <=> Reported(q, "dashboard")) /\ Read(q) \subseteq Runs
      BY <1>2 DEF Read, Reported
    <2>2. ASSUME At(q, "gates")' \/ At(q, "entry")' \/ Reported(q, "dashboard")',
                 NEW r \in Read(q)' \ proc'[q].todo
          PROVE  ShownOrCut(q, r)'
      <3>1. ShownOrCut(q, r) /\ r \in Runs
        BY <1>2, <2>1, <2>2 DEF Gathered
      <3> QED BY <1>2, <3>1, EntryStays
    <2>3. ASSUME At(q, "entry")'
          PROVE  proc'[q].found \subseteq envelopes'[proc'[q].run] /\ Sought(q)'
      <3>1. proc[q].found \subseteq envelopes[proc[q].run] /\ Sought(q) /\ proc[q].run \in Runs
        BY <1>2, <2>3 DEF Gathered, Working
      <3> QED BY <1>2, <3>1 DEF Sought
    <2> QED BY <1>2, <2>1, <2>2, <2>3 DEF Gathered
  <1>3. CASE OpenDashboard(q)
    <2>1. proc'[q].pc = "gates" /\ proc'[q].todo = Read(q) /\ proc'[q].seen = proc[q].seen
      BY <1>0, <1>3 DEF OpenDashboard, Process
    <2> QED BY <2>1 DEF Reported, Read
  <1>4. CASE CloseDashboard(q)
    <2>1. /\ proc'[q] = [proc[q] EXCEPT !.pc = "reported"]
          /\ At(q, "gates") /\ proc[q].todo = {} /\ UNCHANGED envelopes
      BY <1>0, <1>4 DEF CloseDashboard
    <2>2. /\ proc'[q].pc = "reported" /\ proc'[q].todo = {} /\ proc'[q].seen = proc[q].seen
          /\ proc'[q].gates = proc[q].gates /\ proc'[q].limit = proc[q].limit
      BY <1>0, <2>1 DEF Process
    <2>3. ASSUME NEW r \in Read(q)' PROVE ShownOrCut(q, r)'
      <3>1. r \in Runs /\ ShownOrCut(q, r)
        BY <2>1, <2>2, <2>3 DEF Gathered, Read
      <3> QED BY <2>2, <3>1, EntryStays
    <2> QED BY <2>2, <2>3
  <1>5. ASSUME NEW run \in Runs, OpenEntry(q, run)
        PROVE  /\ proc'[q].pc = "entry"
               /\ \A r \in Read(q)' \ proc'[q].todo : ShownOrCut(q, r)'
               /\ proc'[q].found \subseteq envelopes'[proc'[q].run] /\ Sought(q)'
    <2>1. proc'[q] = [proc[q] EXCEPT !.pc = "entry", !.run = run, !.names = Gates, !.found = {}]
          /\ At(q, "gates")
      BY <1>0, <1>5 DEF OpenEntry
    <2>2. /\ proc'[q].pc = "entry" /\ proc'[q].todo = proc[q].todo /\ proc'[q].seen = proc[q].seen
          /\ proc'[q].gates = proc[q].gates /\ proc'[q].limit = proc[q].limit
          /\ proc'[q].run = run /\ proc'[q].names = Gates /\ proc'[q].found = {}
      BY <1>0, <2>1 DEF Process
    <2>3. ASSUME NEW r \in Read(q)' \ proc'[q].todo PROVE ShownOrCut(q, r)'
      <3>1. r \in Runs /\ ShownOrCut(q, r)
        BY <2>1, <2>2, <2>3 DEF Gathered, Read
      <3> QED BY <2>2, <3>1, EntryStays
    <2>4. Sought(q)'
      <3>1. proc[q].seen[run] \in Version \cup {Absent}
        BY <1>0 DEF Process
      <3> QED BY <2>2, <3>1 DEF Sought, Version, Envelope
    <2> QED BY <2>2, <2>3, <2>4
  <1>6. ASSUME NEW g \in Gates, ReadGate(q, g)
        PROVE  /\ proc'[q].pc = "entry"
               /\ \A r \in Read(q)' \ proc'[q].todo : ShownOrCut(q, r)'
               /\ proc'[q].found \subseteq envelopes'[proc'[q].run] /\ Sought(q)'
    <2> DEFINE run   == proc[q].run
               there == {e \in envelopes[run] : e.gate = g}
               last  == {e \in there : \A d \in there : d.attempt <= e.attempt}
    <2>1. /\ proc'[q].pc = "entry" /\ proc'[q].todo = proc[q].todo /\ proc'[q].seen = proc[q].seen
          /\ proc'[q].gates = proc[q].gates /\ proc'[q].limit = proc[q].limit /\ proc'[q].run = run
          /\ proc'[q].names = proc[q].names \ {g} /\ proc'[q].found = proc[q].found \cup last
          /\ At(q, "entry") /\ run \in Runs
      BY <1>6, ReadMoves DEF ReadGate, Working
    <2>2. ASSUME NEW r \in Read(q)' \ proc'[q].todo PROVE ShownOrCut(q, r)'
      <3>1. r \in Runs /\ ShownOrCut(q, r)
        BY <2>1, <2>2 DEF Gathered, Read
      <3> QED BY <2>1, <3>1, EntryStays
    <2>3. proc[q].found \subseteq envelopes[run] /\ last \subseteq envelopes[run] /\ Sought(q)
      BY <2>1 DEF Gathered
    <2>4. Sought(q)'
      <3> DEFINE seen == proc[q].seen[run]
      <3> SUFFICES ASSUME seen # Absent, seen.checkpoint # Absent, seen.checkpoint.gate \notin proc'[q].names
                   PROVE  \E e \in proc'[q].found : SameOrLater(e, seen.checkpoint)
        BY <2>1 DEF Sought
      <3>1. CASE seen.checkpoint.gate = g
        <4>1. seen.checkpoint \in envelopes[run] /\ envelopes[run] \in SUBSET Envelope
          BY <2>1 DEF Seen, TypeOK
        <4>2. \E e \in last : SameOrLater(e, seen.checkpoint)
          BY <3>1, <4>1, LastAttempts
        <4> QED BY <2>1, <4>2
      <3>2. CASE seen.checkpoint.gate # g
        BY <2>1, <2>3, <3>2 DEF Sought
      <3> QED BY <3>1, <3>2
    <2> HIDE DEF last, there
    <2> QED BY <2>1, <2>2, <2>3, <2>4
  <1>7. ASSUME NEW listed, ListGates(q, listed)
        PROVE  /\ proc'[q].pc = "gates"
               /\ \A r \in Read(q)' \ proc'[q].todo : ShownOrCut(q, r)'
    <2> DEFINE run == proc[q].run
    <2>1. /\ proc'[q].pc = "gates" /\ proc'[q].seen = proc[q].seen /\ proc'[q].limit = proc[q].limit
          /\ proc'[q].todo = proc[q].todo \ {run} /\ proc'[q].gates = [proc[q].gates EXCEPT ![run] = listed]
      BY <1>7, ListMoves
    <2>2. /\ At(q, "entry") /\ proc[q].names = {} /\ IsCut(listed, proc[q].found, proc[q].limit)
          /\ run \in Runs /\ proc[q].gates \in [Runs -> SUBSET Envelope]
      BY <1>0, <1>7 DEF ListGates, Working, Process
    <2>3. proc[q].found \subseteq envelopes[run] /\ Sought(q)
      BY <2>2 DEF Gathered
    <2>4. ASSUME NEW r \in Read(q)' \ proc'[q].todo PROVE ShownOrCut(q, r)'
      <3>1. r \in Read(q) /\ r \in Runs /\ proc[q].seen[r] # Absent
        BY <2>1, <2>4 DEF Read
      <3>2. CASE r # run
        <4>1. ShownOrCut(q, r) /\ proc'[q].gates[r] = proc[q].gates[r]
          BY <2>1, <2>2, <2>4, <3>1, <3>2 DEF Gathered
        <4> QED BY <2>1, <3>1, <4>1, EntryStays
      <3>3. CASE r = run
        <4> DEFINE latest == proc[q].seen[run].checkpoint
        <4>1. proc'[q].gates[run] = listed
          BY <2>1, <2>2
        <4>2. CASE latest = Absent
          BY <2>1, <3>3, <4>2 DEF ShownOrCut
        <4>3. CASE latest # Absent
          <5>1. PICK e \in proc[q].found : SameOrLater(e, latest)
            BY <2>2, <2>3, <3>1, <3>3, <4>3 DEF Sought
          <5>2. CASE e \in listed
            BY <2>1, <3>3, <4>1, <5>1, <5>2 DEF ShownOrCut, SameOrLater
          <5>3. CASE e \notin listed
            <6>1. Cardinality(listed) = proc[q].limit /\ \A d \in listed : e.stamp <= d.stamp
              BY <2>2, <5>3 DEF IsCut
            <6>2. e \in envelopes'[run]
              BY <2>2, <2>3
            <6> QED BY <2>1, <3>3, <4>1, <5>1, <6>1, <6>2 DEF ShownOrCut, SameOrLater
          <5> QED BY <5>2, <5>3
        <4> QED BY <4>2, <4>3
      <3> QED BY <3>2, <3>3
    <2> QED BY <2>1, <2>4
  <1>8. CASE proc'[q].kind = "dashboard" /\ proc'[q].pc \in {"gates", "entry", "reported"}
    BY <1>2, <1>3, <1>4, <1>5, <1>6, <1>7, <1>8, DashboardMoves DEF Reported
  <1> QED BY <1>1, <1>8

\* Writes only add to the runs that have changed during a report.
LEMMA WritesMove ==
    ASSUME TypeOK, Working, Projected, NEW p \in Procs, NEW q \in Procs,
           Commit(p) \/ ProjectEnvelope(p) \/ ProjectRun(p) \/ Refuse(p) \/ ReadExact(p)
    PROVE  moved[q] \subseteq moved'[q]
  BY DEF Commit, ProjectEnvelope, ProjectRun, Refuse, ReadExact, Repair, Show, TypeOK

\* How a resume gets on: somebody else moves, it begins, reads, or chooses.
LEMMA ResumeMoves ==
    ASSUME TypeOK, Working, Projected, Errands, [Next]_vars, NEW q \in Procs,
           proc'[q].kind = "resume", proc'[q].pc \in {"scan", "reported"}
    PROVE  \/ proc'[q] = proc[q] /\ moved[q] \subseteq moved'[q]
           \/ Scan(q) \/ SelectResume(q)
           \/ proc'[q].pc = "scan" /\ proc'[q].seen = Nothing /\ proc'[q].todo = Local
  <1> DEFINE P == \/ proc'[q] = proc[q] /\ moved[q] \subseteq moved'[q]
                  \/ Scan(q) \/ SelectResume(q)
                  \/ proc'[q].pc = "scan" /\ proc'[q].seen = Nothing /\ proc'[q].todo = Local
  <1>0. Questions \subseteq SUBSET Runs /\ proc \in [Procs -> Process]
    BY ConstantsAssumption DEF TypeOK
  <1>1. ASSUME Tick PROVE P
    BY <1>0, <1>1 DEF Tick, Process, Errands, Writing
  <1>2. ASSUME NEW p \in Procs, NEW r \in Runs, NEW c \in Commands, Begin(p, r, c) PROVE P
    BY <1>0, <1>2 DEF Begin, Idle, Process, Errands, Writing
  <1>3. ASSUME NEW p \in Procs, Commit(p) PROVE P
    <2>1. /\ \A s \in Procs : s # p => proc'[s] = proc[s]
          /\ proc'[p].kind # "resume" \/ proc'[p].pc \notin {"scan", "reported"}
      BY <1>0, <1>3 DEF Commit, Process, Errands
    <2>2. moved[q] \subseteq moved'[q]
      BY <1>3, WritesMove
    <2> QED BY <2>1, <2>2
  <1>4. ASSUME NEW p \in Procs, ProjectEnvelope(p) PROVE P
    <2>1. /\ \A s \in Procs : s # p => proc'[s] = proc[s]
          /\ proc'[p].kind # "resume" \/ proc'[p].pc \notin {"scan", "reported"}
      BY <1>0, <1>4 DEF ProjectEnvelope, Process, Errands
    <2>2. moved[q] \subseteq moved'[q]
      BY <1>4, WritesMove
    <2> QED BY <2>1, <2>2
  <1>5. ASSUME NEW p \in Procs, ProjectRun(p) PROVE P
    <2>1. \A s \in Procs : s # p => proc'[s] = proc[s]
      BY <1>5, ReturnMoves DEF ProjectRun
    <2>2. moved[q] \subseteq moved'[q]
      BY <1>5, WritesMove
    <2>3. q # p
      BY <1>5, ReturnMoves DEF ProjectRun
    <2> QED BY <2>1, <2>2, <2>3
  <1>6. ASSUME NEW p \in Procs, Refuse(p) PROVE P
    <2>1. \A s \in Procs : s # p => proc'[s] = proc[s]
      BY <1>6, ReturnMoves DEF Refuse
    <2>2. moved[q] \subseteq moved'[q]
      BY <1>6, WritesMove
    <2>3. q # p
      BY <1>6, ReturnMoves DEF Refuse
    <2> QED BY <2>1, <2>2, <2>3
  <1>7. ASSUME NEW p \in Procs, TimeOut(p) PROVE P
    BY <1>0, <1>7 DEF TimeOut, Idle, Process, Errands, Writing
  <1>8. ASSUME NEW p \in Procs, Crash(p) PROVE P
    BY <1>0, <1>8 DEF Crash, Idle, Process, Errands, Writing
  <1>9. ASSUME NEW p \in Procs, NEW kind \in {"resume", "dashboard", "prune"}, NEW flag \in BOOLEAN,
               NEW wanted \in SUBSET Runs, NEW limit \in Limits \cup {0},
               BeginReport(p, kind, flag, wanted, limit) PROVE P
    <2>1. CASE q = p
      BY <1>0, <1>9, <2>1 DEF BeginReport, Idle, Scope, Process
    <2>2. CASE q # p
      BY <1>0, <1>9, <2>2 DEF BeginReport, TypeOK
    <2> QED BY <2>1, <2>2
  <1>10. ASSUME NEW p \in Procs, Scan(p) PROVE P
    <2>1. \A s \in Procs : s # p => proc'[s] = proc[s]
      BY <1>0, <1>10 DEF Scan
    <2> QED BY <1>10, <2>1 DEF Scan
  <1>11. ASSUME NEW p \in Procs, SelectResume(p) PROVE P
    <2>1. \A s \in Procs : s # p => proc'[s] = proc[s]
      <3>1. PICK v : proc' = [proc EXCEPT ![p].pc = "reported", ![p].selected = v]
        BY <1>11 DEF SelectResume
      <3> QED BY <1>0, <3>1
    <2> QED BY <1>11, <2>1 DEF SelectResume
  <1>12. ASSUME NEW p \in Procs, NEW r \in Runs, BeginExact(p, r) PROVE P
    BY <1>0, <1>12 DEF BeginExact, Idle, Process, Errands, Writing
  <1>13. ASSUME NEW p \in Procs, ReadExact(p) PROVE P
    <2>1. /\ \A s \in Procs : s # p => proc'[s] = proc[s]
          /\ proc'[p].kind # "resume" \/ proc'[p].pc \notin {"scan", "reported"}
      BY <1>0, <1>13 DEF ReadExact, Process, Errands
    <2>2. moved[q] \subseteq moved'[q]
      BY <1>13, WritesMove
    <2> QED BY <2>1, <2>2
  <1>14. ASSUME NEW p \in Procs, OpenDashboard(p) PROVE P
    BY <1>0, <1>14 DEF OpenDashboard, Scanned, Process, Errands, Writing
  <1>15. ASSUME NEW p \in Procs, CloseDashboard(p) PROVE P
    BY <1>0, <1>15 DEF CloseDashboard, Process, Errands, Writing
  <1>16. ASSUME NEW p \in Procs, JudgeStale(p) PROVE P
    <2>1. PICK l \in {"finalize", "reported"} : \E S : proc' = [proc EXCEPT ![p].pc = l, ![p].todo = S]
      BY <1>16 DEF JudgeStale
    <2> QED BY <1>0, <2>1, <1>16 DEF JudgeStale, Scanned, Process
  <1>17. ASSUME NEW p \in Procs, FinalizeNext(p) PROVE P
    BY <1>0, <1>17 DEF FinalizeNext, Process, Errands, Writing
  <1>18. ASSUME NEW p \in Procs, EndPrune(p) PROVE P
    BY <1>0, <1>18 DEF EndPrune, Process, Errands, Writing
  <1>19. ASSUME NEW p \in Procs, Answer(p) PROVE P
    BY <1>0, <1>19 DEF Answer, Idle, Process, Errands, Writing
  <1>21. ASSUME NEW p \in Procs, NEW r \in Runs, OpenEntry(p, r) PROVE P
    BY <1>0, <1>21 DEF OpenEntry, Process, Errands, Writing
  <1>22. ASSUME NEW p \in Procs, NEW g \in Gates, ReadGate(p, g) PROVE P
    <2>1. (\A s \in Procs : s # p => proc'[s] = proc[s]) /\ proc'[p].pc = "entry" /\ UNCHANGED moved
      BY <1>22, ReadMoves DEF ReadGate
    <2> QED BY <2>1
  <1>23. ASSUME NEW p \in Procs, NEW listed, ListGates(p, listed) PROVE P
    <2>1. (\A s \in Procs : s # p => proc'[s] = proc[s]) /\ proc'[p].pc = "gates" /\ UNCHANGED moved
      BY <1>23, ListMoves DEF ListGates
    <2> QED BY <2>1
  <1>20. ASSUME UNCHANGED vars PROVE P
    BY <1>0, <1>20 DEF vars, Process, Errands, Writing
  <1> QED BY <1>0, <1>1, <1>2, <1>3, <1>4, <1>5, <1>6, <1>7, <1>8, <1>9, <1>10, <1>11, <1>12, <1>13, <1>14, <1>15, <1>16, <1>17, <1>18, <1>19, <1>20, <1>21, <1>22, <1>23 DEF Next

\* What one step of a scan, and the choice after it, leave as they are.
LEMMA ScanMoves ==
    ASSUME TypeOK, NEW p \in Procs, Scan(p)
    PROVE  LET first == First(proc[p].todo)
           IN  /\ first \in proc[p].todo /\ first \in Runs
               /\ proc'[p].pc = "scan" /\ proc'[p].kind = proc[p].kind /\ proc'[p].flag = proc[p].flag
               /\ proc'[p].todo = proc[p].todo \ {first}
               /\ proc'[p].seen = [proc[p].seen EXCEPT ![first] =
                                      IF shown[first] = Absent THEN @ ELSE IF Keeps(p, shown[first]) THEN shown[first] ELSE @]
  <1>1. proc \in [Procs -> Process] /\ proc[p] \in Process
    BY DEF TypeOK
  <1>2. First(proc[p].todo) \in proc[p].todo /\ First(proc[p].todo) \in Runs
    BY <1>1, FirstIn DEF Scan, Process
  <1> QED BY <1>1, <1>2 DEF Scan, Process

LEMMA SelectMoves ==
    ASSUME TypeOK, NEW p \in Procs, SelectResume(p)
    PROVE  /\ proc'[p].pc = "reported" /\ proc'[p].kind = proc[p].kind /\ proc'[p].flag = proc[p].flag
           /\ proc'[p].todo = proc[p].todo /\ proc'[p].seen = proc[p].seen /\ proc'[p].wanted = proc[p].wanted
           /\ proc'[p].selected = LET candidates == Read(p) \cap proc[p].wanted
                                  IN  IF candidates = {} THEN Absent ELSE Latest(proc[p].seen, candidates)
  <1> DEFINE choice == LET candidates == Read(p) \cap proc[p].wanted
                       IN  IF candidates = {} THEN Absent ELSE Latest(proc[p].seen, candidates)
  <1>1. proc \in [Procs -> Process]
    BY DEF TypeOK
  <1>2. proc' = [proc EXCEPT ![p].pc = "reported", ![p].selected = choice]
    BY DEF SelectResume
  <1> HIDE DEF choice
  <1>3. /\ proc'[p].pc = "reported" /\ proc'[p].kind = proc[p].kind /\ proc'[p].flag = proc[p].flag
        /\ proc'[p].todo = proc[p].todo /\ proc'[p].seen = proc[p].seen /\ proc'[p].wanted = proc[p].wanted
        /\ proc'[p].selected = choice
    BY <1>1, <1>2 DEF Process
  <1> QED BY <1>3 DEF choice

\* What a scan has passed stays true until somebody writes it.
LEMMA LookedStep ==
    ASSUME TypeOK, Working, OneHolder, Projected, Errands, Looked, [Next]_vars
    PROVE  Looked'
  <1> SUFFICES ASSUME NEW q \in Procs, proc'[q].kind = "resume", proc'[q].pc \in {"scan", "reported"}
               PROVE  /\ proc'[q].todo \subseteq Local /\ Read(q)' \subseteq Local \ proc'[q].todo
                      /\ \A r \in Local \ (proc'[q].todo \cup moved'[q]) :
                            proc'[q].seen[r] = IF shown'[r] # Absent /\ (proc'[q].flag \/ Incomplete(shown'[r]))
                                               THEN shown'[r] ELSE Absent
    BY DEF Looked
  <1>0. proc[q] \in Process /\ Local \subseteq Runs /\ \A r \in Runs : shown'[r] # shown[r] => r \in moved'[q]
    BY DiskStep, ConstantsAssumption DEF TypeOK
  <1>1. CASE proc'[q] = proc[q] /\ moved[q] \subseteq moved'[q]
    <2>1. proc[q].kind = "resume" /\ proc[q].pc \in {"scan", "reported"} /\ Read(q)' = Read(q)
      BY <1>1 DEF Read
    <2> QED BY <1>0, <1>1, <2>1 DEF Looked
  <1>2. CASE Scan(q)
    <2> DEFINE first == First(proc[q].todo)
    <2>1. /\ first \in proc[q].todo /\ first \in Runs
          /\ proc'[q].kind = proc[q].kind /\ proc'[q].flag = proc[q].flag
          /\ proc'[q].todo = proc[q].todo \ {first}
          /\ proc'[q].seen = [proc[q].seen EXCEPT ![first] =
                                 IF shown[first] = Absent THEN @ ELSE IF Keeps(q, shown[first]) THEN shown[first] ELSE @]
      BY <1>2, ScanMoves
    <2>2. proc[q].kind = "resume" /\ proc[q].pc = "scan" /\ UNCHANGED <<shown, moved>>
      BY <1>2, <2>1 DEF Scan
    <2>3. /\ proc[q].todo \subseteq Local /\ Read(q) \subseteq Local \ proc[q].todo
          /\ \A r \in Local \ (proc[q].todo \cup moved[q]) :
                proc[q].seen[r] = IF shown[r] # Absent /\ (proc[q].flag \/ Incomplete(shown[r]))
                                  THEN shown[r] ELSE Absent
      BY <2>2 DEF Looked
    <2>4. proc[q].seen \in [Runs -> Version \cup {Absent}]
      BY <1>0 DEF Process
    <2> HIDE DEF first
    <2>5. proc[q].seen[first] = Absent
      BY <2>1, <2>3 DEF Read
    <2>6. proc'[q].seen[first] = IF shown[first] # Absent /\ (proc[q].flag \/ Incomplete(shown[first]))
                                 THEN shown[first] ELSE Absent
      BY <2>1, <2>2, <2>4, <2>5 DEF Keeps
    <2>7. \A r \in Runs : r # first => proc'[q].seen[r] = proc[q].seen[r]
      BY <2>1, <2>4
    <2>8. Read(q)' \subseteq Local \ proc'[q].todo
      BY <2>1, <2>3, <2>7 DEF Read
    <2> QED BY <1>0, <2>1, <2>2, <2>3, <2>6, <2>7, <2>8
  <1>3. CASE SelectResume(q)
    <2>1. /\ proc'[q].kind = proc[q].kind /\ proc'[q].flag = proc[q].flag
          /\ proc'[q].todo = proc[q].todo /\ proc'[q].seen = proc[q].seen
      BY <1>3, SelectMoves
    <2>2. proc[q].kind = "resume" /\ proc[q].pc = "scan" /\ UNCHANGED <<shown, moved>>
      BY <1>3, <2>1 DEF SelectResume, Scanned
    <2>3. Read(q)' = Read(q)
      BY <2>1 DEF Read
    <2> QED BY <2>1, <2>2, <2>3 DEF Looked
  <1>4. CASE proc'[q].seen = Nothing /\ proc'[q].todo = Local
    BY <1>4 DEF Nothing, Read
  <1> QED BY <1>1, <1>2, <1>3, <1>4, ResumeMoves

\* The choice is made once, on what the scan has kept.
LEMMA ChosenStep ==
    ASSUME TypeOK, Working, OneHolder, Projected, Errands, Chosen, [Next]_vars
    PROVE  Chosen'
  <1> SUFFICES ASSUME NEW q \in Procs, Reported(q, "resume")'
               PROVE  /\ proc'[q].todo = {}
                      /\ proc'[q].selected = LET candidates == Read(q)' \cap proc'[q].wanted
                                             IN  IF candidates = {} THEN Absent ELSE Latest(proc'[q].seen, candidates)
    BY DEF Chosen
  <1>0. proc'[q].kind = "resume" /\ proc'[q].pc = "reported"
    BY DEF Reported
  <1>1. CASE proc'[q] = proc[q]
    <2>1. Reported(q, "resume") /\ Read(q)' = Read(q)
      BY <1>0, <1>1 DEF Reported, Read
    <2> QED BY <1>1, <2>1 DEF Chosen
  <1>2. CASE Scan(q)
    BY <1>0, <1>2, ScanMoves
  <1>3. CASE SelectResume(q)
    <2>1. Read(q)' = Read(q) /\ proc[q].todo = {}
      BY <1>3, SelectMoves DEF Read, SelectResume, Scanned
    <2> QED BY <1>3, <2>1, SelectMoves
  <1> QED BY <1>0, <1>1, <1>2, <1>3, ResumeMoves

-----------------------------------------------------------------------------
LEMMA Step == IInv /\ [Next]_vars => IInv'
  <1> SUFFICES ASSUME IInv, [Next]_vars PROVE IInv'
    OBVIOUS
  <1>1. TypeOK' /\ Working' /\ OneHolder'
    BY TypeStep, WorkingStep, OneHolderStep DEF IInv
  <1>2. Projected' /\ Seen'
    BY <1>1, DiskStep, SeenStep DEF IInv
  <1>3. Errands' /\ Gathered'
    BY DiskStep, ErrandsStep, GatheredStep DEF IInv
  <1>4. Looked' /\ Chosen'
    BY LookedStep, ChosenStep DEF IInv
  <1> QED BY <1>1, <1>2, <1>3, <1>4 DEF IInv

LEMMA Invariance == Spec => []IInv
  BY InitInv, Step, PTL DEF Spec

\* The types hold for any runs, processes and commands.
THEOREM TypeCorrect == Spec => []TypeOK
  BY Invariance, PTL DEF IInv

\* The lock of a run has one holder, and the disk is never ahead of the
\* journal, nor run.json of the envelopes.
THEOREM DiskFollowsJournal == Spec => [](OneHolder /\ Projected)
  BY Invariance, PTL DEF IInv

\* The gate that an entry of the dashboard calls its latest is listed with it, or
\* --limit is used up by others that are not older, whatever writers and crashes
\* interleave with the dashboard's reads.
THEOREM DashboardIsWhole == Spec => []DashboardShowsItsGates
  <1>1. IInv => DashboardShowsItsGates
    BY DEF IInv, Gathered, ShownOrCut, DashboardShowsItsGates, Read
  <1> QED BY <1>1, Invariance, PTL

\* Resume misses no run that stood still, and none that stood still is more
\* recent than its choice, whatever is written while it reads.
THEOREM ResumeJustified == Spec => []ResumeIsJustified
  <1>1. IInv => ResumeIsJustified
    <2> SUFFICES ASSUME IInv, NEW p \in Procs, Reported(p, "resume")
                 PROVE  LET s == proc[p].selected
                        IN  IF s = Absent THEN Standing(p) = {}
                            ELSE /\ s \in Standing(p) \cup (moved[p] \cap proc[p].wanted \cap Local)
                                 /\ \A r \in Standing(p) : shown[r].updated <= proc[p].seen[s].updated
      BY DEF ResumeIsJustified
    <2> DEFINE s == proc[p].selected
               candidates == Read(p) \cap proc[p].wanted
    <2>1. /\ proc[p].todo = {} /\ Read(p) \subseteq Local
          /\ \A r \in Local \ moved[p] :
                proc[p].seen[r] = IF shown[r] # Absent /\ (proc[p].flag \/ Incomplete(shown[r]))
                                  THEN shown[r] ELSE Absent
          /\ s = IF candidates = {} THEN Absent ELSE Latest(proc[p].seen, candidates)
      BY DEF IInv, Looked, Chosen, Reported
    <2>2. proc[p].seen \in [Runs -> Version \cup {Absent}] /\ Local \subseteq Runs /\ Absent \notin Runs
      BY ConstantsAssumption DEF IInv, TypeOK, Process
    <2>3. Standing(p) \subseteq candidates /\ \A r \in Standing(p) : proc[p].seen[r] = shown[r]
      BY <2>1, <2>2 DEF Standing, Read
    <2>4. CASE candidates = {}
      BY <2>1, <2>3, <2>4
    <2>5. CASE candidates # {}
      <3>1. s \in candidates /\ \A r \in candidates : proc[p].seen[r].updated <= proc[p].seen[s].updated
        BY <2>1, <2>2, <2>5, LatestIn DEF Read
      <3>2. s \in Runs /\ s \in Local /\ s \in proc[p].wanted /\ proc[p].seen[s] # Absent
        BY <2>1, <2>2, <3>1 DEF Read
      <3>3. s \in moved[p] \/ s \in Standing(p)
        BY <2>1, <3>2 DEF Standing
      <3>4. \A r \in Standing(p) : shown[r].updated <= proc[p].seen[s].updated
        BY <2>3, <3>1
      <3> HIDE DEF s, candidates
      <3>5. s # Absent
        BY <2>2, <3>2
      <3> QED BY <3>2, <3>3, <3>4, <3>5 DEF s
    <2> QED BY <2>4, <2>5
  <1> QED BY <1>1, Invariance, PTL

=============================================================================
