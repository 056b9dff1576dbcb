---------------------------- MODULE FirstRunProofs ----------------------------
(***************************************************************************)
(* Proofs about FirstRun: racing first launches have one author, and files *)
(* appear once and whole, for any launches, versions, evidence and bounds. *)
(*                                                                         *)
(* The invariant has three parts.  Typed: the types, and that a launch that*)
(* writes has opened both directories.  Whole: a half-written file has only*)
(* a temporary name, and what is about to be linked is complete.  Alone:   *)
(* unless the user disturbs, either .nopal is unclaimed and nobody has got *)
(* past its plan, or exactly one launch is the author, holds the very      *)
(* directories that the paths lead to (Holds), and these hold what it has  *)
(* linked so far and its temporary, and nothing else (Laid); directories   *)
(* not made yet are empty (Unused).                                        *)
(*                                                                         *)
(* Each action is first reduced to what it does to the launch (...Effect); *)
(* the step proofs cite these.                                             *)
(***************************************************************************)
EXTENDS FirstRun, TLAPS

Texts == [name : Names, from : Sources, by : Launches \cup {Outsider}]
Dirs  == 1 .. MaxDirs

\* The types; a launch that writes has directories.
Local == [pc : Locations, planned : Evidence \cup {Absent}, dirs : [Places -> Dirs \cup {Absent}],
          next : 1 .. 6, created : BOOLEAN, judged : {"nothing", "preview", "files"}, bundle : Sources]
Locals == launch \in [Launches -> Local]
OnDisk ==
    /\ legacy \in BOOLEAN /\ evidence \in Evidence
    /\ made \in 0 .. MaxDirs /\ disturbances \in 0 .. MaxDisturbances
    /\ at \in [Places -> Dirs \cup {Absent}] /\ stashed \in [Places -> Dirs \cup {Absent}]
    /\ entries \in [Dirs -> [Names \cup Launches -> Texts \cup {Absent, Partial}]]
Writing(c) == launch[c].pc \in {"create", "fill", "link", "unlink", "verify", "verify_files"}
Opened ==
    \A c \in Launches :
        /\ Writing(c) \/ launch[c].pc \in {"claim_beislid", "open_beislid", "recheck"} =>
              launch[c].dirs["nopal"] \in Dirs
        /\ Writing(c) \/ launch[c].pc = "recheck" => launch[c].dirs["beislid"] \in Dirs
Typed == Locals /\ OnDisk /\ Opened

\* A half-written file has only a temporary name, and is whole before it is linked.
Whole ==
    /\ \A d \in Dirs, n \in Names : entries[d][n] # Partial
    /\ \A c \in Launches : At(c, "link") => entries[Dir(c)][c] \in Texts

\* The launch that has claimed .nopal.
Author(c) ==
    \/ launch[c].created \/ Writing(c)
    \/ launch[c].pc \in {"open_nopal", "claim_beislid", "open_beislid", "recheck"}

\* Before a directory is claimed no launch has got further than its plan; whoever
\* stopped has found the evidence blocked.
Unclaimed ==
    at["nopal"] = Absent =>
        /\ made = 0 /\ at["beislid"] = Absent
        /\ \A c \in Launches :
              /\ launch[c].pc \in {"look", "preview", "reject", "claim_nopal", "stopped"} /\ ~launch[c].created
              /\ At(c, "stopped") => evidence \in Blocked

\* Afterwards there is one author, which made both directories and holds them.
Claimed ==
    at["nopal"] # Absent =>
        /\ made # 0
        /\ \E c \in Launches : Author(c)
        /\ \A c, d \in Launches : Author(c) /\ Author(d) => c = d
Holds(c) ==
    /\ at["nopal"] # Absent /\ at["nopal"] # at["beislid"]
    /\ at["nopal"] \in 1 .. made /\ at["beislid"] \in (1 .. made) \cup {Absent}
    /\ at["beislid"] = Absent <=> launch[c].pc \in {"open_nopal", "claim_beislid"}
    /\ launch[c].pc # "open_nopal" => launch[c].dirs["nopal"] = at["nopal"]
    /\ launch[c].pc \notin {"open_nopal", "claim_beislid", "open_beislid"} =>
          launch[c].dirs["beislid"] = at["beislid"]
    /\ launch[c].created => launch[c].pc \in {"look", "gates", "bundle", "lock", "preflight", "session", "stopped"}

\* How many of its files the author has linked, and what lies in its directories.
Linked(c) ==
    CASE launch[c].pc \in {"create", "fill", "link"} -> launch[c].next - 1
      [] launch[c].pc = "unlink" -> launch[c].next
      [] launch[c].created \/ launch[c].pc \in {"verify", "verify_files"} -> 6
      [] OTHER -> 0
Temporary(c) ==
    CASE launch[c].pc = "fill" -> Partial
      [] launch[c].pc \in {"link", "unlink"} -> Text(Name(c), Generated(c, Name(c)), c)
      [] OTHER -> Absent
Laid(c) ==
    \A p \in Places : at[p] # Absent =>
        /\ \A i \in 1 .. 6 : entries[at[p]][Files[i]] =
              IF PlaceOf(Files[i]) = p /\ i <= Linked(c) THEN Text(Files[i], Generated(c, Files[i]), c) ELSE Absent
        /\ \A l \in Launches : entries[at[p]][l] =
              IF l = c /\ PlaceOf(Name(c)) = p THEN Temporary(c) ELSE Absent
Unused == \A d \in made + 1 .. MaxDirs : \A n \in Names \cup Launches : entries[d][n] = Absent

\* Left alone by the user.
Alone ==
    disturbances = 0 =>
        /\ ~legacy /\ Unclaimed /\ Claimed /\ Unused
        /\ \A c \in Launches : Author(c) => Holds(c) /\ Laid(c)
        /\ \A c \in Launches : Writing(c) \/ launch[c].created \/ launch[c].next = 1

IInv == Typed /\ Whole /\ Alone

-----------------------------------------------------------------------------
USE DEF disk, At

\* The six files of the baseline: distinct, and each in one of the two places.
LEMMA FilesFacts ==
    /\ Len(Files) = 6 /\ DOMAIN Files = 1 .. 6
    /\ \A i \in 1 .. 6 : Files[i] \in Names /\ PlaceOf(Files[i]) \in Places
    /\ \A i, j \in 1 .. 6 : Files[i] = Files[j] => i = j
    /\ \A n \in Names : PlaceOf(n) \in Places /\ \E i \in 1 .. 6 : n = Files[i]
  <1>1. Len(Files) = 6 /\ DOMAIN Files = 1 .. 6
    BY DEF Files
  <1>2. \A i \in 1 .. 6 : i = 1 \/ i = 2 \/ i = 3 \/ i = 4 \/ i = 5 \/ i = 6
    OBVIOUS
  <1>3. \A i, j \in 1 .. 6 : Files[i] = Files[j] => i = j
    BY <1>2 DEF Files
  <1> QED BY <1>1, <1>3 DEF Names, PlaceOf, Places

\* Their names.
LEMMA NamesFacts ==
    Names = {"nopal.jsonc", "policy.jsonc", "gates.jsonc", "bundle.jsonc", "nopal.lock", "workflow.md"}
  <1>1. \A i \in 1 .. 6 : i = 1 \/ i = 2 \/ i = 3 \/ i = 4 \/ i = 5 \/ i = 6
    OBVIOUS
  <1> QED BY <1>1, FilesFacts DEF Names, Files

-----------------------------------------------------------------------------
(* What each action does, without the record of a launch.                   *)

\* The launch is at l then and remembers this; the others are as they were.
Becomes(c, l, planned, dirs, next, created) ==
    /\ Locals'
    /\ launch'[c].pc = l /\ launch'[c].planned = planned /\ launch'[c].dirs = dirs
    /\ launch'[c].next = next /\ launch'[c].created = created
    /\ \A d \in Launches \ {c} : launch'[d] = launch[d]
Moves(c, l) == Becomes(c, l, launch[c].planned, launch[c].dirs, launch[c].next, launch[c].created)
Nothing == UNCHANGED <<disk, disturbances>>

\* The locations of a launch.
LEMMA LocationsFacts ==
    \A l \in {"look", "preview", "gates", "bundle", "lock", "preflight", "reject", "claim_nopal", "open_nopal",
              "claim_beislid", "open_beislid", "recheck", "create", "fill", "link", "unlink", "verify",
              "verify_files", "stopped", "session"} : l \in Locations
  BY DEF Locations

\* A launch moves and remembers one more thing.
LEMMA Remembers ==
    ASSUME Locals, NEW c \in Launches, NEW l \in Locations
    PROVE  /\ \A e \in Evidence :
                 launch' = [launch EXCEPT ![c] = [launch[c] EXCEPT !.planned = e, !.pc = l]] => Locals'
           /\ \A s \in Sources : launch' = [launch EXCEPT ![c].bundle = s, ![c].pc = l] => Locals'
           /\ launch' = [launch EXCEPT ![c].judged = "files", ![c].pc = l] => Locals'
           /\ \A i \in 1 .. 6 : launch' = [launch EXCEPT ![c] = [launch[c] EXCEPT !.pc = l, !.next = i]] => Locals'
           /\ launch' = [launch EXCEPT ![c].created = TRUE, ![c].pc = l] => Locals'
  <1>1. launch[c] \in Local
    BY DEF Locals
  <1>2. \A r \in Local : launch' = [launch EXCEPT ![c] = r] => Locals'
    BY DEF Locals
  <1>3. \A e \in Evidence : [launch[c] EXCEPT !.planned = e, !.pc = l] \in Local
    BY <1>1 DEF Local
  <1>4. \A s \in Sources : [launch[c] EXCEPT !.bundle = s, !.pc = l] \in Local
    BY <1>1 DEF Local
  <1>5. [launch[c] EXCEPT !.judged = "files", !.pc = l] \in Local
    BY <1>1 DEF Local
  <1>6. \A i \in 1 .. 6 : [launch[c] EXCEPT !.pc = l, !.next = i] \in Local
    BY <1>1 DEF Local
  <1>7. [launch[c] EXCEPT !.created = TRUE, !.pc = l] \in Local
    BY <1>1 DEF Local
  <1>8. /\ \A s \in Sources : launch' = [launch EXCEPT ![c].bundle = s, ![c].pc = l]
                => launch' = [launch EXCEPT ![c] = [launch[c] EXCEPT !.bundle = s, !.pc = l]]
        /\ launch' = [launch EXCEPT ![c].judged = "files", ![c].pc = l]
                => launch' = [launch EXCEPT ![c] = [launch[c] EXCEPT !.judged = "files", !.pc = l]]
        /\ launch' = [launch EXCEPT ![c].created = TRUE, ![c].pc = l]
                => launch' = [launch EXCEPT ![c] = [launch[c] EXCEPT !.created = TRUE, !.pc = l]]
    BY DEF Locals
  <1> QED BY <1>2, <1>3, <1>4, <1>5, <1>6, <1>7, <1>8

\* A launch that only goes on keeps all it remembers.
LEMMA GotoMoves ==
    ASSUME Locals, NEW c \in Launches, NEW l \in Locations, Goto(c, l)
    PROVE  Moves(c, l)
  <1>1. Locals'
    BY DEF Locals, Local, Goto
  <1> QED BY <1>1 DEF Locals, Local, Goto, Moves, Becomes

\* Looking decides between the three planners.
LookIs(c) ==
    /\ At(c, "look") /\ Nothing
    /\ \/ Moves(c, "stopped") /\ (legacy \/ at["nopal"] # Absent \/ at["beislid"] # Absent)
       \/ Moves(c, "gates") /\ at["nopal"] # Absent
       \/ Moves(c, "preview") /\ at["nopal"] = Absent

\* What Look does.
LEMMA LookEffect == ASSUME Locals, NEW c \in Launches, Look(c) PROVE LookIs(c)
  <1>1. \A l \in {"stopped", "gates", "preview"} : Goto(c, l) => Moves(c, l)
    BY GotoMoves, LocationsFacts
  <1> QED BY <1>1 DEF Look, LookIs, Nothing

\* The first preview of a launch fixes its plan, a later one stands for its check.
PreviewIs(c) ==
    /\ At(c, "preview") /\ Nothing
    /\ \/ launch[c].created /\ (Moves(c, "stopped") \/ Moves(c, "preflight"))
       \/ /\ ~launch[c].created
          /\ \E l \in {"stopped", "reject"} :
                /\ Becomes(c, l, evidence, launch[c].dirs, launch[c].next, launch[c].created)
                /\ l = "stopped" => evidence \in Blocked

\* What Preview does.
LEMMA PreviewEffect == ASSUME Locals, OnDisk, NEW c \in Launches, Preview(c) PROVE PreviewIs(c)
  <1>1. CASE launch[c].created
    <2>1. PICK l \in {"stopped", "preflight"} :
              launch' = [launch EXCEPT ![c] = [launch[c] EXCEPT !.judged = "preview", !.pc = l]]
      BY <1>1 DEF Preview, Locals, Local
    <2>0. l \in Locations
      BY LocationsFacts
    <2>2. Locals'
      BY <2>0, <2>1 DEF Locals, Local
    <2>3. Moves(c, l)
      BY <2>1, <2>2 DEF Locals, Local, Moves, Becomes
    <2> QED BY <1>1, <2>1, <2>3 DEF Preview, PreviewIs, Nothing
  <1>2. CASE ~launch[c].created
    <2>1. PICK l \in {"stopped", "reject"} :
              /\ launch' = [launch EXCEPT ![c] = [launch[c] EXCEPT !.planned = evidence, !.pc = l]]
              /\ l = "stopped" => evidence \in Blocked
      BY <1>2 DEF Preview, Locals, Local
    <2>0. l \in Locations
      BY LocationsFacts
    <2>2. Locals'
      BY <2>0, <2>1, Remembers DEF OnDisk
    <2>3. Becomes(c, l, evidence, launch[c].dirs, launch[c].next, launch[c].created)
      BY <2>1, <2>2 DEF Locals, Local, Becomes
    <2> QED BY <1>2, <2>1, <2>3 DEF Preview, PreviewIs, Nothing
  <1> QED BY <1>1, <1>2

\* The checks of files that are there write nothing.
Judge(c) == JudgeGates(c) \/ ReadBundle(c) \/ JudgeLock(c) \/ Preflight(c)
JudgeIs(c) ==
    /\ launch[c].pc \in {"gates", "bundle", "lock", "preflight"} /\ Nothing
    /\ \E l \in {"stopped", "bundle", "lock", "preflight", "session"} : Moves(c, l)

\* What the three judgements and the preflight do.
LEMMA JudgeEffect == ASSUME Locals, OnDisk, NEW c \in Launches, Judge(c) PROVE JudgeIs(c)
  <1>1. \A l \in {"stopped", "bundle", "session"} : Goto(c, l) => Moves(c, l)
    BY GotoMoves, LocationsFacts
  <1>2. CASE JudgeGates(c) \/ Preflight(c)
    BY <1>1, <1>2 DEF JudgeGates, Preflight, StopOr, JudgeIs, Nothing
  <1>3. CASE ReadBundle(c)
    <2> DEFINE file == File("nopal", "bundle.jsonc")
    <2>1. file \in Texts \cup {Absent, Partial}
      BY FilesFacts, NamesFacts DEF File, OnDisk, Places
    <2>2. CASE file \in Texts /\ launch' = [launch EXCEPT ![c].bundle = file.from, ![c].pc = "lock"]
      <3>1. file.from \in Sources
        BY <2>2 DEF Texts
      <3>0. "lock" \in Locations
        BY LocationsFacts
      <3>2. Locals'
        BY <2>2, <3>0, <3>1, Remembers
      <3>3. Moves(c, "lock")
        BY <2>2, <3>2 DEF Locals, Local, Moves, Becomes
      <3> QED BY <1>3, <3>3 DEF ReadBundle, JudgeIs, Nothing
    <2>3. CASE Goto(c, "stopped")
      BY <1>1, <1>3, <2>3 DEF ReadBundle, JudgeIs, Nothing
    <2> HIDE DEF file
    <2> QED BY <1>3, <2>1, <2>2, <2>3 DEF ReadBundle, file
  <1>4. CASE JudgeLock(c)
    <2>1. CASE launch' = [launch EXCEPT ![c].judged = "files", ![c].pc = "preflight"]
      <3>0. "preflight" \in Locations
        BY LocationsFacts
      <3>1. Locals'
        BY <2>1, <3>0, Remembers
      <3>2. Moves(c, "preflight")
        BY <2>1, <3>1 DEF Locals, Local, Moves, Becomes
      <3> QED BY <1>4, <3>2 DEF JudgeLock, JudgeIs, Nothing
    <2>2. CASE Goto(c, "stopped")
      BY <1>1, <1>4, <2>2 DEF JudgeLock, JudgeIs, Nothing
    <2> QED BY <1>4, <2>1, <2>2 DEF JudgeLock
  <1> QED BY <1>2, <1>3, <1>4 DEF Judge

\* The three checks between the writes.
Check(c) == RejectExisting(c) \/ RejectLegacy(c) \/ VerifyPlaces(c)
CheckIs(c) ==
    /\ Nothing
    /\ \/ /\ At(c, "reject")
          /\ \/ Moves(c, "claim_nopal")
             \/ Moves(c, "stopped") /\ (legacy \/ at["nopal"] # Absent \/ at["beislid"] # Absent)
       \/ At(c, "recheck") /\ (Moves(c, "create") \/ (Moves(c, "stopped") /\ legacy))
       \/ /\ At(c, "verify")
          /\ \/ Moves(c, "verify_files")
             \/ Moves(c, "stopped") /\ (legacy \/ at # launch[c].dirs)

\* What the checks around the publication do.
LEMMA CheckEffect == ASSUME Locals, NEW c \in Launches, Check(c) PROVE CheckIs(c)
  <1>1. \A l \in {"stopped", "claim_nopal", "create", "verify_files"} : Goto(c, l) => Moves(c, l)
    BY GotoMoves, LocationsFacts
  <1>2. CASE RejectExisting(c)
    BY <1>1, <1>2 DEF RejectExisting, StopOr, CheckIs, Nothing, Places
  <1>3. CASE RejectLegacy(c)
    BY <1>1, <1>3 DEF RejectLegacy, StopOr, CheckIs, Nothing
  <1>4. CASE VerifyPlaces(c)
    BY <1>1, <1>4 DEF VerifyPlaces, StopOr, CheckIs, Nothing
  <1> QED BY <1>2, <1>3, <1>4 DEF Check

ClaimIs(c, place) ==
    /\ At(c, Claiming(place)) /\ disturbances' = disturbances
    /\ \/ at[place] # Absent /\ Moves(c, "stopped") /\ Nothing
       \/ /\ at[place] = Absent /\ Moves(c, Opening(place))
          /\ made < MaxDirs /\ made' = made + 1 /\ at' = [at EXCEPT ![place] = made + 1]
          /\ UNCHANGED <<stashed, entries, legacy, evidence>>

\* What Claim does.
LEMMA ClaimEffect ==
    ASSUME Locals, NEW c \in Launches, NEW place \in Places, Claim(c, place)
    PROVE  ClaimIs(c, place)
  <1>1. \A l \in {"stopped", Opening(place)} : Goto(c, l) => Moves(c, l)
    BY GotoMoves, LocationsFacts DEF Opening
  <1> QED BY <1>1 DEF Claim, ClaimIs, Nothing

OpenIs(c, place) ==
    /\ At(c, Opening(place)) /\ Nothing
    /\ Becomes(c, IF at[place] = Absent THEN "stopped" ELSE IF place = "nopal" THEN "claim_beislid" ELSE "recheck",
               launch[c].planned, [launch[c].dirs EXCEPT ![place] = at[place]], launch[c].next, launch[c].created)

\* What Open does.
LEMMA OpenEffect ==
    ASSUME Locals, OnDisk, NEW c \in Launches, NEW place \in Places, Open(c, place)
    PROVE  OpenIs(c, place)
  <1> DEFINE l == IF at[place] = Absent THEN "stopped" ELSE IF place = "nopal" THEN "claim_beislid" ELSE "recheck"
  <1>1. l \in Locations /\ launch' = [launch EXCEPT ![c].dirs[place] = at[place], ![c].pc = l]
    BY DEF Open, Locations
  <1> HIDE DEF l
  <1>2. at[place] \in Dirs \cup {Absent}
    BY DEF OnDisk
  <1>3. [launch[c] EXCEPT !.dirs[place] = at[place], !.pc = l] \in Local
    BY <1>1, <1>2 DEF Locals, Local
  <1>4. Locals'
    BY <1>1, <1>3 DEF Locals, Local
  <1>5. /\ launch'[c].pc = l /\ launch'[c].dirs = [launch[c].dirs EXCEPT ![place] = at[place]]
        /\ launch'[c].planned = launch[c].planned /\ launch'[c].next = launch[c].next
        /\ launch'[c].created = launch[c].created
        /\ \A d \in Launches \ {c} : launch'[d] = launch[d]
    BY <1>1 DEF Locals, Local
  <1> QED BY <1>4, <1>5 DEF Open, OpenIs, Becomes, Nothing, l

\* One file operation in a directory of the launch's.
Puts(c, name, file) ==
    /\ entries' = [entries EXCEPT ![Dir(c)][name] = file]
    /\ UNCHANGED <<at, stashed, legacy, evidence, made, disturbances>>
Write(c) == CreateTemporary(c) \/ FillTemporary(c) \/ LinkFile(c) \/ DropTemporary(c)
WriteIs(c) ==
    \/ At(c, "create") /\ Puts(c, c, Partial) /\ Moves(c, "fill")
    \/ At(c, "fill") /\ Puts(c, c, Text(Name(c), Generated(c, Name(c)), c)) /\ Moves(c, "link")
    \/ At(c, "link") /\ entries[Dir(c)][Name(c)] # Absent /\ Nothing /\ Moves(c, "stopped")
    \/ /\ At(c, "link") /\ entries[Dir(c)][Name(c)] = Absent
       /\ Puts(c, Name(c), entries[Dir(c)][c]) /\ Moves(c, "unlink")
    \/ /\ At(c, "unlink") /\ Puts(c, c, Absent)
       /\ \/ launch[c].next = 6 /\ Moves(c, "verify")
          \/ /\ launch[c].next < 6
             /\ Becomes(c, "create", launch[c].planned, launch[c].dirs, launch[c].next + 1, launch[c].created)

\* What the four file operations do.
LEMMA WriteEffect == ASSUME Locals, NEW c \in Launches, Write(c) PROVE WriteIs(c)
  <1>1. \A l \in {"stopped", "fill", "link", "unlink"} : Goto(c, l) => Moves(c, l)
    BY GotoMoves, LocationsFacts
  <1>2. CASE CreateTemporary(c) \/ FillTemporary(c)
    BY <1>1, <1>2 DEF CreateTemporary, FillTemporary, Put, Puts, OnlyEntries, WriteIs
  <1>3. CASE LinkFile(c)
    BY <1>1, <1>3 DEF LinkFile, Put, Puts, OnlyEntries, WriteIs, Nothing
  <1>4. CASE DropTemporary(c)
    <2>1. launch[c].next \in 1 .. 6
      BY DEF Locals, Local
    <2>2. CASE launch[c].next = 6
      <3>1. launch' = [launch EXCEPT ![c] = [launch[c] EXCEPT !.pc = "verify"]]
        BY <1>4, <2>2, FilesFacts DEF DropTemporary, Locals, Local
      <3>0. "verify" \in Locations
        BY LocationsFacts
      <3>2. Locals'
        BY <3>0, <3>1 DEF Locals, Local
      <3>3. Moves(c, "verify")
        BY <3>1, <3>2 DEF Locals, Local, Moves, Becomes
      <3> QED BY <1>4, <2>2, <3>3 DEF DropTemporary, Put, Puts, OnlyEntries, WriteIs
    <2>3. CASE launch[c].next < 6
      <3>1. launch' = [launch EXCEPT ![c] = [launch[c] EXCEPT !.pc = "create", !.next = launch[c].next + 1]]
        BY <1>4, <2>3, FilesFacts DEF DropTemporary, Locals, Local
      <3>0. "create" \in Locations
        BY LocationsFacts
      <3>4. launch[c].next + 1 \in 1 .. 6
        BY <2>1, <2>3
      <3>2. Locals'
        BY <3>0, <3>1, <3>4, Remembers
      <3>3. Becomes(c, "create", launch[c].planned, launch[c].dirs, launch[c].next + 1, launch[c].created)
        BY <3>1, <3>2 DEF Locals, Local, Becomes
      <3> QED BY <1>4, <2>3, <3>3 DEF DropTemporary, Put, Puts, OnlyEntries, WriteIs
    <2> QED BY <2>1, <2>2, <2>3
  <1> QED BY <1>2, <1>3, <1>4 DEF Write

VerifyIs(c) ==
    /\ At(c, "verify_files") /\ Nothing
    /\ \/ Becomes(c, "look", launch[c].planned, launch[c].dirs, launch[c].next, TRUE)
       \/ /\ Moves(c, "stopped")
          /\ ~\A p \in Places : \A n \in Names \cup Launches :
                 LET file == entries[launch[c].dirs[p]][n]
                 IN  IF n \in Names /\ PlaceOf(n) = p THEN SameText(file, n, Generated(c, n)) ELSE file = Absent

\* What VerifyFiles does.
LEMMA VerifyEffect == ASSUME Locals, NEW c \in Launches, VerifyFiles(c) PROVE VerifyIs(c)
  <1>1. CASE launch' = [launch EXCEPT ![c].created = TRUE, ![c].pc = "look"]
    <2>0. "look" \in Locations
      BY LocationsFacts
    <2>1. Locals'
      BY <1>1, <2>0, Remembers
    <2>2. Becomes(c, "look", launch[c].planned, launch[c].dirs, launch[c].next, TRUE)
      BY <1>1, <2>1 DEF Locals, Local, Becomes
    <2> QED BY <2>2 DEF VerifyFiles, VerifyIs, Nothing
  <1>2. CASE launch' # [launch EXCEPT ![c].created = TRUE, ![c].pc = "look"]
    <2>1. Goto(c, "stopped") => Moves(c, "stopped")
      BY GotoMoves, LocationsFacts
    <2> QED BY <1>2, <2>1 DEF VerifyFiles, VerifyIs, Nothing
  <1> QED BY <1>1, <1>2

CrashIs(c) == Disturbed /\ UNCHANGED disk /\ Moves(c, "stopped")

\* What Crash does.
LEMMA CrashEffect == ASSUME Locals, NEW c \in Launches, Crash(c) PROVE CrashIs(c)
  BY GotoMoves, LocationsFacts DEF Crash, CrashIs

\* Where a launch that writes writes.
LEMMA Here ==
    ASSUME Typed, NEW c \in Launches
    PROVE  /\ Name(c) \in Names /\ PlaceOf(Name(c)) \in Places /\ launch[c].next \in 1 .. 6
           /\ Writing(c) => Dir(c) \in Dirs
           /\ c \notin Names /\ \A n \in Names : n \notin Launches
  <1>1. launch[c].next \in 1 .. 6
    BY DEF Typed, Locals, Local
  <1>2. Name(c) \in Names /\ PlaceOf(Name(c)) \in Places
    BY <1>1, FilesFacts DEF Name
  <1>3. Writing(c) => Dir(c) \in Dirs
    BY <1>2 DEF Typed, Opened, Dir, Places
  <1> QED BY <1>1, <1>2, <1>3, FirstRunAssumption

\* Where and what it writes next is in what it remembers.
LEMMA Steady ==
    ASSUME NEW d \in Launches, launch'[d].dirs = launch[d].dirs, launch'[d].next = launch[d].next
    PROVE  /\ Dir(d)' = Dir(d) /\ Name(d)' = Name(d)
           /\ launch'[d].planned = launch[d].planned => \A n \in Names : Generated(d, n)' = Generated(d, n)
  BY DEF Dir, Name, Generated

\* Disturbances are counted.
LEMMA Counted == ASSUME OnDisk, Disturbed PROVE disturbances' \in 0 .. MaxDisturbances /\ disturbances' # 0
  BY FirstRunAssumption DEF OnDisk, Disturbed

\* Putting a file changes one entry of one directory.
LEMMA Putting ==
    ASSUME OnDisk, NEW d \in Dirs, NEW n \in Names \cup Launches, NEW file \in Texts \cup {Absent, Partial},
           entries' = [entries EXCEPT ![d][n] = file]
    PROVE  /\ entries' \in [Dirs -> [Names \cup Launches -> Texts \cup {Absent, Partial}]]
           /\ entries'[d][n] = file
           /\ \A e \in Dirs, m \in Names \cup Launches : e # d \/ m # n => entries'[e][m] = entries[e][m]
  BY DEF OnDisk

\* Every step keeps the type of what launches remember.
LEMMA LocalsStep ==
    ASSUME Typed, [Next]_vars
    PROVE  Locals'
  <1>1. ASSUME NEW c \in Launches, Look(c) PROVE Locals'
    BY <1>1, LookEffect DEF LookIs, Typed, Becomes, Moves, Locals
  <1>2. ASSUME NEW c \in Launches, Preview(c) PROVE Locals'
    BY <1>2, PreviewEffect DEF PreviewIs, Typed, Becomes, Moves, Locals
  <1>3. ASSUME NEW c \in Launches, Judge(c) PROVE Locals'
    BY <1>3, JudgeEffect DEF JudgeIs, Typed, Becomes, Moves, Locals
  <1>4. ASSUME NEW c \in Launches, Check(c) PROVE Locals'
    BY <1>4, CheckEffect DEF CheckIs, Typed, Becomes, Moves, Locals
  <1>5. ASSUME NEW c \in Launches, NEW place \in Places, Claim(c, place) PROVE Locals'
    BY <1>5, ClaimEffect DEF ClaimIs, Claiming, Opening, Typed, Becomes, Moves,
       Locals
  <1>6. ASSUME NEW c \in Launches, NEW place \in Places, Open(c, place) PROVE Locals'
    BY <1>6, OpenEffect DEF OpenIs, Opening, Typed, Becomes, Moves, Locals
  <1>7. ASSUME NEW c \in Launches, Write(c) PROVE Locals'
    BY <1>7, WriteEffect DEF WriteIs, Typed, Becomes, Moves, Locals
  <1>8. ASSUME NEW c \in Launches, VerifyFiles(c) PROVE Locals'
    BY <1>8, VerifyEffect DEF VerifyIs, Typed, Becomes, Moves, Locals
  <1>9. ASSUME NEW c \in Launches, Crash(c) PROVE Locals'
    BY <1>9, CrashEffect DEF CrashIs, Typed, Becomes, Moves, Locals
  <1>10. ASSUME PutAway PROVE Locals'
    BY <1>10 DEF PutAway, Disturbed, Typed, Becomes, Moves, Locals
  <1>11. ASSUME BringBack PROVE Locals'
    BY <1>11 DEF BringBack, Disturbed, Typed, Becomes, Moves, Locals
  <1>12. ASSUME OutsiderWrites PROVE Locals'
    BY <1>12 DEF OutsiderWrites, Disturbed, Typed, Becomes, Moves, Locals
  <1>13. ASSUME OutsiderMakesDirectory PROVE Locals'
    BY <1>13 DEF OutsiderMakesDirectory, Disturbed, Typed, Becomes, Moves, Locals
  <1>14. ASSUME LegacyAppears PROVE Locals'
    BY <1>14 DEF LegacyAppears, Disturbed, Typed, Becomes, Moves, Locals
  <1>15. ASSUME EvidenceChanges PROVE Locals'
    BY <1>15 DEF EvidenceChanges, Disturbed, Typed, Becomes, Moves, Locals
  <1>16. ASSUME UNCHANGED vars PROVE Locals'
    BY <1>16 DEF vars, Typed, Becomes, Moves, Locals
  <1> QED
    BY <1>1, <1>2, <1>3, <1>4, <1>5, <1>6, <1>7, <1>8, <1>9, <1>10, <1>11, <1>12,
       <1>13, <1>14, <1>15, <1>16 DEF Next, Plan, Publish, User, Judge, Check, Write

\* Every step keeps the types of what is on disk.
LEMMA OnDiskStep ==
    ASSUME Typed, [Next]_vars
    PROVE  OnDisk'
  <1>1. ASSUME NEW c \in Launches, Look(c) PROVE OnDisk'
    BY <1>1, LookEffect DEF LookIs, Typed, OnDisk, Nothing
  <1>2. ASSUME NEW c \in Launches, Preview(c) PROVE OnDisk'
    BY <1>2, PreviewEffect DEF PreviewIs, Typed, OnDisk, Nothing
  <1>3. ASSUME NEW c \in Launches, Judge(c) PROVE OnDisk'
    BY <1>3, JudgeEffect DEF JudgeIs, Typed, OnDisk, Nothing
  <1>4. ASSUME NEW c \in Launches, Check(c) PROVE OnDisk'
    BY <1>4, CheckEffect DEF CheckIs, Typed, OnDisk, Nothing
  <1>5. ASSUME NEW c \in Launches, NEW place \in Places, Claim(c, place) PROVE OnDisk'
    <2>1. ClaimIs(c, place)
      BY <1>5, ClaimEffect DEF Typed
    <2>2. CASE Nothing
      BY <2>2 DEF Nothing, Typed, OnDisk
    <2>3. CASE made < MaxDirs
      <3>1. made + 1 \in Dirs /\ made + 1 \in 0 .. MaxDirs
        BY <2>3, FirstRunAssumption DEF Typed, OnDisk, Dirs
      <3>2. CASE made' = made + 1 /\ at' = [at EXCEPT ![place] = made + 1]
        BY <2>1, <3>1, <3>2, <2>2 DEF ClaimIs, Typed, OnDisk
      <3> QED BY <2>1, <2>2, <3>2 DEF ClaimIs
    <2> QED BY <2>1, <2>2, <2>3 DEF ClaimIs
  <1>6. ASSUME NEW c \in Launches, NEW place \in Places, Open(c, place) PROVE OnDisk'
    BY <1>6, OpenEffect DEF OpenIs, Opening, Typed, OnDisk, Nothing
  <1>7. ASSUME NEW c \in Launches, Write(c) PROVE OnDisk'
    <2>1. WriteIs(c)
      BY <1>7, WriteEffect DEF Typed
    <2>2. Writing(c)
      BY <2>1 DEF WriteIs, Writing
    <2>3. Dir(c) \in Dirs /\ Name(c) \in Names /\ launch[c].planned \in Evidence \cup {Absent}
      BY <2>2, Here DEF Typed, Locals, Local
    <2>4. \A n \in Names \cup Launches, f \in Texts \cup {Absent, Partial} : Puts(c, n, f) => OnDisk'
      <3>1. SUFFICES ASSUME NEW n \in Names \cup Launches, NEW f \in Texts \cup {Absent, Partial}, Puts(c, n, f)
                     PROVE  OnDisk'
        OBVIOUS
      <3>2. entries' \in [Dirs -> [Names \cup Launches -> Texts \cup {Absent, Partial}]]
        BY <2>3, <3>1, Putting DEF Puts, Typed
      <3> QED BY <3>1, <3>2 DEF Puts, Typed, OnDisk
    <2>5. Text(Name(c), Generated(c, Name(c)), c) \in Texts
      BY <2>3 DEF Text, Texts, Generated, Sources
    <2>6. entries[Dir(c)][c] \in Texts \cup {Absent, Partial}
      BY <2>3 DEF Typed, OnDisk
    <2>7. Nothing => OnDisk'
      BY DEF Nothing, Typed, OnDisk
    <2> QED BY <2>1, <2>3, <2>4, <2>5, <2>6, <2>7 DEF WriteIs
  <1>8. ASSUME NEW c \in Launches, VerifyFiles(c) PROVE OnDisk'
    BY <1>8, VerifyEffect DEF VerifyIs, Typed, OnDisk, Nothing
  <1>9. ASSUME NEW c \in Launches, Crash(c) PROVE OnDisk'
    <2>1. CrashIs(c) /\ disturbances' \in 0 .. MaxDisturbances
      BY <1>9, CrashEffect, Counted DEF CrashIs, Typed
    <2> QED BY <2>1 DEF CrashIs, Typed, OnDisk
  <1>10. ASSUME PutAway PROVE OnDisk'
    <2>1. disturbances' \in 0 .. MaxDisturbances
      BY <1>10, Counted DEF PutAway, Typed
    <2> QED BY <2>1, <1>10 DEF PutAway, Typed, OnDisk
  <1>11. ASSUME BringBack PROVE OnDisk'
    <2>1. disturbances' \in 0 .. MaxDisturbances
      BY <1>11, Counted DEF BringBack, Typed
    <2> QED BY <2>1, <1>11 DEF BringBack, Typed, OnDisk
  <1>12. ASSUME OutsiderWrites PROVE OnDisk'
    <2>1. PICK n \in Names, from \in {"foreign", "explicit"} :
              /\ at[PlaceOf(n)] # Absent
              /\ entries' = [entries EXCEPT ![at[PlaceOf(n)]][n] = Text(n, from, Outsider)]
      BY <1>12 DEF OutsiderWrites
    <2>2. at[PlaceOf(n)] \in Dirs /\ Text(n, from, Outsider) \in Texts
      BY <2>1, FilesFacts DEF Typed, OnDisk, Text, Texts, Sources
    <2>3. entries' \in [Dirs -> [Names \cup Launches -> Texts \cup {Absent, Partial}]]
      BY <2>1, <2>2, Putting DEF Typed
    <2>4. disturbances' \in 0 .. MaxDisturbances
      BY <1>12, Counted DEF OutsiderWrites, Typed
    <2> QED BY <2>3, <2>4, <1>12 DEF OutsiderWrites, Typed, OnDisk
  <1>13. ASSUME OutsiderMakesDirectory PROVE OnDisk'
    <2>1. disturbances' \in 0 .. MaxDisturbances
      BY <1>13, Counted DEF OutsiderMakesDirectory, Typed
    <2>2. made + 1 \in Dirs /\ made' = made + 1 /\ made' \in 0 .. MaxDirs
      BY <1>13, FirstRunAssumption DEF OutsiderMakesDirectory, Typed, OnDisk, Dirs
    <2>3. PICK p \in Places : at' = [at EXCEPT ![p] = made + 1]
      BY <1>13 DEF OutsiderMakesDirectory
    <2>4. at' \in [Places -> Dirs \cup {Absent}]
      BY <2>2, <2>3 DEF Typed, OnDisk
    <2> QED BY <2>1, <2>2, <2>4, <1>13 DEF OutsiderMakesDirectory, Typed, OnDisk
  <1>14. ASSUME LegacyAppears PROVE OnDisk'
    <2>1. disturbances' \in 0 .. MaxDisturbances
      BY <1>14, Counted DEF LegacyAppears, Typed
    <2> QED BY <2>1, <1>14 DEF LegacyAppears, Typed, OnDisk
  <1>15. ASSUME EvidenceChanges PROVE OnDisk'
    <2>1. disturbances' \in 0 .. MaxDisturbances
      BY <1>15, Counted DEF EvidenceChanges, Typed
    <2> QED BY <2>1, <1>15 DEF EvidenceChanges, Typed, OnDisk
  <1>16. ASSUME UNCHANGED vars PROVE OnDisk'
    BY <1>16 DEF vars, Typed, OnDisk, Nothing
  <1> QED
    BY <1>1, <1>2, <1>3, <1>4, <1>5, <1>6, <1>7, <1>8, <1>9, <1>10, <1>11, <1>12,
       <1>13, <1>14, <1>15, <1>16 DEF Next, Plan, Publish, User, Judge, Check, Write

\* Every step keeps the directories of a launch open.
LEMMA OpenedStep ==
    ASSUME Typed, [Next]_vars
    PROVE  Opened'
  <1>1. ASSUME NEW c \in Launches, Look(c) PROVE Opened'
    BY <1>1, LookEffect DEF LookIs, Typed, Opened, Writing, OnDisk, Becomes, Moves,
       Nothing, Locals, Local, Places
  <1>2. ASSUME NEW c \in Launches, Preview(c) PROVE Opened'
    BY <1>2, PreviewEffect DEF PreviewIs, Typed, Opened, Writing, OnDisk, Becomes,
       Moves, Nothing, Locals, Local, Places
  <1>3. ASSUME NEW c \in Launches, Judge(c) PROVE Opened'
    BY <1>3, JudgeEffect DEF JudgeIs, Typed, Opened, Writing, OnDisk, Becomes,
       Moves, Nothing, Locals, Local, Places
  <1>4. ASSUME NEW c \in Launches, Check(c) PROVE Opened'
    BY <1>4, CheckEffect DEF CheckIs, Typed, Opened, Writing, OnDisk, Becomes,
       Moves, Nothing, Locals, Local, Places
  <1>5. ASSUME NEW c \in Launches, NEW place \in Places, Claim(c, place) PROVE Opened'
    <2>1. CASE place = "nopal"
      BY <2>1, <1>5, ClaimEffect DEF ClaimIs, Claiming, Opening, Typed, Opened, Writing, Becomes, Moves, Nothing
    <2>2. CASE place = "beislid"
      BY <2>2, <1>5, ClaimEffect DEF ClaimIs, Claiming, Opening, Typed, Opened, Writing, Becomes, Moves, Nothing
    <2> QED BY <2>1, <2>2 DEF Places
  <1>6. ASSUME NEW c \in Launches, NEW place \in Places, Open(c, place) PROVE Opened'
    <2>1. OpenIs(c, place) /\ at[place] \in Dirs \cup {Absent}
      BY <1>6, OpenEffect DEF Typed, OnDisk
    <2>2. \A d \in Launches \ {c} : launch'[d] = launch[d]
      BY <2>1 DEF OpenIs, Becomes
    <2>3. DOMAIN launch[c].dirs = Places
      BY DEF Typed, Locals, Local
    <2>4. CASE place = "nopal"
      BY <2>1, <2>2, <2>3, <2>4 DEF OpenIs, Opening, Typed, Opened, Writing, Becomes, Places
    <2>5. CASE place = "beislid"
      BY <2>1, <2>2, <2>3, <2>5 DEF OpenIs, Opening, Typed, Opened, Writing, Becomes, Places
    <2> QED BY <2>4, <2>5 DEF Places
  <1>7. ASSUME NEW c \in Launches, Write(c) PROVE Opened'
    BY <1>7, WriteEffect DEF WriteIs, Typed, Opened, Writing, OnDisk, Becomes,
       Moves, Nothing, Locals, Local, Places
  <1>8. ASSUME NEW c \in Launches, VerifyFiles(c) PROVE Opened'
    BY <1>8, VerifyEffect DEF VerifyIs, Typed, Opened, Writing, OnDisk, Becomes,
       Moves, Nothing, Locals, Local, Places
  <1>9. ASSUME NEW c \in Launches, Crash(c) PROVE Opened'
    BY <1>9, CrashEffect DEF CrashIs, Typed, Opened, Writing, OnDisk, Becomes,
       Moves, Nothing, Locals, Local, Places
  <1>10. ASSUME PutAway PROVE Opened'
    BY <1>10 DEF PutAway, Disturbed, Typed, Opened, Writing, OnDisk, Becomes, Moves,
       Nothing, Locals, Local, Places
  <1>11. ASSUME BringBack PROVE Opened'
    BY <1>11 DEF BringBack, Disturbed, Typed, Opened, Writing, OnDisk, Becomes,
       Moves, Nothing, Locals, Local, Places
  <1>12. ASSUME OutsiderWrites PROVE Opened'
    BY <1>12 DEF OutsiderWrites, Disturbed, Typed, Opened, Writing, OnDisk, Becomes,
       Moves, Nothing, Locals, Local, Places
  <1>13. ASSUME OutsiderMakesDirectory PROVE Opened'
    BY <1>13 DEF OutsiderMakesDirectory, Disturbed, Typed, Opened, Writing, OnDisk,
       Becomes, Moves, Nothing, Locals, Local, Places
  <1>14. ASSUME LegacyAppears PROVE Opened'
    BY <1>14 DEF LegacyAppears, Disturbed, Typed, Opened, Writing, OnDisk, Becomes,
       Moves, Nothing, Locals, Local, Places
  <1>15. ASSUME EvidenceChanges PROVE Opened'
    BY <1>15 DEF EvidenceChanges, Disturbed, Typed, Opened, Writing, OnDisk,
       Becomes, Moves, Nothing, Locals, Local, Places
  <1>16. ASSUME UNCHANGED vars PROVE Opened'
    BY <1>16 DEF vars, Typed, Opened, Writing, OnDisk, Becomes, Moves, Nothing,
       Locals, Local, Places
  <1> QED
    BY <1>1, <1>2, <1>3, <1>4, <1>5, <1>6, <1>7, <1>8, <1>9, <1>10, <1>11, <1>12,
       <1>13, <1>14, <1>15, <1>16 DEF Next, Plan, Publish, User, Judge, Check, Write

\* Every step keeps what is half written apart from the names of the baseline.
LEMMA WholeStep ==
    ASSUME Typed, Whole, [Next]_vars
    PROVE  Whole'
  <1>1. ASSUME NEW c \in Launches, Look(c) PROVE Whole'
    <2>1. entries' = entries
      BY <1>1, LookEffect DEF LookIs, Typed, Nothing
    <2>2. \A d \in Launches : launch'[d].pc = "link" =>
              At(d, "link") /\ launch'[d].dirs = launch[d].dirs /\ launch'[d].next = launch[d].next
      BY <1>1, LookEffect DEF LookIs, Typed, Becomes, Moves
    <2>3. \A d \in Launches : launch'[d].pc = "link" => entries'[Dir(d)'][d] \in Texts
      BY <2>1, <2>2, Steady DEF Whole
    <2> QED BY <2>1, <2>3 DEF Whole
  <1>2. ASSUME NEW c \in Launches, Preview(c) PROVE Whole'
    <2>1. entries' = entries
      BY <1>2, PreviewEffect DEF PreviewIs, Typed, Nothing
    <2>2. \A d \in Launches : launch'[d].pc = "link" =>
              At(d, "link") /\ launch'[d].dirs = launch[d].dirs /\ launch'[d].next = launch[d].next
      BY <1>2, PreviewEffect DEF PreviewIs, Typed, Becomes, Moves
    <2>3. \A d \in Launches : launch'[d].pc = "link" => entries'[Dir(d)'][d] \in Texts
      BY <2>1, <2>2, Steady DEF Whole
    <2> QED BY <2>1, <2>3 DEF Whole
  <1>3. ASSUME NEW c \in Launches, Judge(c) PROVE Whole'
    <2>1. entries' = entries
      BY <1>3, JudgeEffect DEF JudgeIs, Typed, Nothing
    <2>2. \A d \in Launches : launch'[d].pc = "link" =>
              At(d, "link") /\ launch'[d].dirs = launch[d].dirs /\ launch'[d].next = launch[d].next
      BY <1>3, JudgeEffect DEF JudgeIs, Typed, Becomes, Moves
    <2>3. \A d \in Launches : launch'[d].pc = "link" => entries'[Dir(d)'][d] \in Texts
      BY <2>1, <2>2, Steady DEF Whole
    <2> QED BY <2>1, <2>3 DEF Whole
  <1>4. ASSUME NEW c \in Launches, Check(c) PROVE Whole'
    <2>1. entries' = entries
      BY <1>4, CheckEffect DEF CheckIs, Typed, Nothing
    <2>2. \A d \in Launches : launch'[d].pc = "link" =>
              At(d, "link") /\ launch'[d].dirs = launch[d].dirs /\ launch'[d].next = launch[d].next
      BY <1>4, CheckEffect DEF CheckIs, Typed, Becomes, Moves
    <2>3. \A d \in Launches : launch'[d].pc = "link" => entries'[Dir(d)'][d] \in Texts
      BY <2>1, <2>2, Steady DEF Whole
    <2> QED BY <2>1, <2>3 DEF Whole
  <1>5. ASSUME NEW c \in Launches, NEW place \in Places, Claim(c, place) PROVE Whole'
    <2>1. entries' = entries
      BY <1>5, ClaimEffect DEF ClaimIs, Typed, Nothing
    <2>2. \A d \in Launches : launch'[d].pc = "link" =>
              At(d, "link") /\ launch'[d].dirs = launch[d].dirs /\ launch'[d].next = launch[d].next
      BY <1>5, ClaimEffect DEF ClaimIs, Typed, Becomes, Moves, Opening
    <2>3. \A d \in Launches : launch'[d].pc = "link" => entries'[Dir(d)'][d] \in Texts
      BY <2>1, <2>2, Steady DEF Whole
    <2> QED BY <2>1, <2>3 DEF Whole
  <1>6. ASSUME NEW c \in Launches, NEW place \in Places, Open(c, place) PROVE Whole'
    <2>1. entries' = entries
      BY <1>6, OpenEffect DEF OpenIs, Typed, Nothing
    <2>2. \A d \in Launches : launch'[d].pc = "link" =>
              At(d, "link") /\ launch'[d].dirs = launch[d].dirs /\ launch'[d].next = launch[d].next
      BY <1>6, OpenEffect DEF OpenIs, Typed, Becomes, Moves
    <2>3. \A d \in Launches : launch'[d].pc = "link" => entries'[Dir(d)'][d] \in Texts
      BY <2>1, <2>2, Steady DEF Whole
    <2> QED BY <2>1, <2>3 DEF Whole
  <1>7. ASSUME NEW c \in Launches, Write(c) PROVE Whole'
    <2>1. WriteIs(c) /\ Writing(c)
      BY <1>7, WriteEffect DEF Typed, WriteIs, Writing
    <2>2. Dir(c) \in Dirs /\ Name(c) \in Names /\ launch[c].planned \in Evidence \cup {Absent}
      BY <2>1, Here DEF Typed, Locals, Local
    <2>3. Text(Name(c), Generated(c, Name(c)), c) \in Texts
      BY <2>2 DEF Text, Texts, Generated, Sources
    <2>4. \A d \in Dirs, n \in Names : entries'[d][n] # Partial
      BY <2>1, <2>2, Here, FirstRunAssumption DEF WriteIs, Puts, Nothing, Whole, Typed, OnDisk, Texts
    <2>5. \A d \in Launches \ {c} : launch'[d] = launch[d]
      BY <2>1 DEF WriteIs, Becomes, Moves
    <2>6. \A d \in Launches \ {c} : At(d, "link") => entries'[Dir(d)][d] = entries[Dir(d)][d]
      <3>1. \A d \in Launches \ {c} : At(d, "link") => Dir(d) \in Dirs
        BY Here DEF Writing
      <3>2. \A n \in Names \cup Launches : (\E f : Puts(c, n, f)) => \A d \in Launches \ {c} :
                At(d, "link") /\ n # d => entries'[Dir(d)][d] = entries[Dir(d)][d]
        BY <2>2, <3>1 DEF Puts, Typed, OnDisk
      <3>3. c \in Names \cup Launches /\ Name(c) \in Names \cup Launches /\ \A d \in Launches : Name(c) # d
        BY <2>2, Here
      <3> QED BY <2>1, <3>2, <3>3 DEF WriteIs, Nothing
    <2>7. \A d \in Launches \ {c} : launch'[d].pc = "link" => entries'[Dir(d)'][d] \in Texts
      BY <2>5, <2>6, Steady DEF Whole
    <2>8. launch'[c].pc = "link" => entries'[Dir(c)'][c] \in Texts
      <3>1. SUFFICES ASSUME launch'[c].pc = "link" PROVE entries'[Dir(c)'][c] \in Texts
        OBVIOUS
      <3>2. /\ Puts(c, c, Text(Name(c), Generated(c, Name(c)), c))
            /\ launch'[c].dirs = launch[c].dirs /\ launch'[c].next = launch[c].next
        BY <2>1, <3>1 DEF WriteIs, Becomes, Moves
      <3>3. entries'[Dir(c)][c] = Text(Name(c), Generated(c, Name(c)), c)
        BY <2>2, <3>2 DEF Puts, Typed, OnDisk
      <3> QED BY <2>3, <3>2, <3>3, Steady
    <2> QED BY <2>4, <2>7, <2>8 DEF Whole
  <1>8. ASSUME NEW c \in Launches, VerifyFiles(c) PROVE Whole'
    <2>1. entries' = entries
      BY <1>8, VerifyEffect DEF VerifyIs, Typed, Nothing
    <2>2. \A d \in Launches : launch'[d].pc = "link" =>
              At(d, "link") /\ launch'[d].dirs = launch[d].dirs /\ launch'[d].next = launch[d].next
      BY <1>8, VerifyEffect DEF VerifyIs, Typed, Becomes, Moves
    <2>3. \A d \in Launches : launch'[d].pc = "link" => entries'[Dir(d)'][d] \in Texts
      BY <2>1, <2>2, Steady DEF Whole
    <2> QED BY <2>1, <2>3 DEF Whole
  <1>9. ASSUME NEW c \in Launches, Crash(c) PROVE Whole'
    <2>1. entries' = entries
      BY <1>9, CrashEffect DEF CrashIs, Typed, Nothing
    <2>2. \A d \in Launches : launch'[d].pc = "link" =>
              At(d, "link") /\ launch'[d].dirs = launch[d].dirs /\ launch'[d].next = launch[d].next
      BY <1>9, CrashEffect DEF CrashIs, Typed, Becomes, Moves
    <2>3. \A d \in Launches : launch'[d].pc = "link" => entries'[Dir(d)'][d] \in Texts
      BY <2>1, <2>2, Steady DEF Whole
    <2> QED BY <2>1, <2>3 DEF Whole
  <1>10. ASSUME PutAway PROVE Whole'
    BY <1>10 DEF PutAway, Disturbed, Whole, Typed, OnDisk, Dir, Name
  <1>11. ASSUME BringBack PROVE Whole'
    BY <1>11 DEF BringBack, Disturbed, Whole, Typed, OnDisk, Dir, Name
  <1>12. ASSUME OutsiderWrites PROVE Whole'
    <2>1. PICK n \in Names, from \in {"foreign", "explicit"} :
              /\ at[PlaceOf(n)] # Absent
              /\ entries' = [entries EXCEPT ![at[PlaceOf(n)]][n] = Text(n, from, Outsider)]
      BY <1>12 DEF OutsiderWrites
    <2>2. at[PlaceOf(n)] \in Dirs /\ Text(n, from, Outsider) \in Texts
      BY <2>1, FilesFacts DEF Typed, OnDisk, Text, Texts, Sources
    <2>3. \A d \in Dirs, m \in Names : entries'[d][m] # Partial
      BY <2>1, <2>2, FirstRunAssumption DEF Whole, Typed, OnDisk, Texts
    <2>4. \A d \in Dirs, c \in Launches : entries'[d][c] = entries[d][c]
      BY <2>1, <2>2, FirstRunAssumption DEF Typed, OnDisk
    <2>5. \A c \in Launches : At(c, "link") => Dir(c) \in Dirs
      BY Here DEF Writing
    <2> QED BY <2>3, <2>4, <2>5, <1>12 DEF OutsiderWrites, Whole, Dir, Name
  <1>13. ASSUME OutsiderMakesDirectory PROVE Whole'
    BY <1>13 DEF OutsiderMakesDirectory, Disturbed, Whole, Typed, OnDisk, Dir, Name
  <1>14. ASSUME LegacyAppears PROVE Whole'
    BY <1>14 DEF LegacyAppears, Disturbed, Whole, Typed, OnDisk, Dir, Name
  <1>15. ASSUME EvidenceChanges PROVE Whole'
    BY <1>15 DEF EvidenceChanges, Disturbed, Whole, Typed, OnDisk, Dir, Name
  <1>16. ASSUME UNCHANGED vars PROVE Whole'
    BY <1>16 DEF vars, Whole, Typed, OnDisk, Dir, Name
  <1> QED
    BY <1>1, <1>2, <1>3, <1>4, <1>5, <1>6, <1>7, <1>8, <1>9, <1>10, <1>11, <1>12,
       <1>13, <1>14, <1>15, <1>16 DEF Next, Plan, Publish, User, Judge, Check, Write

-----------------------------------------------------------------------------
(* A step of a launch while the user leaves it alone.                       *)

Acts(c) == \/ Look(c) \/ Preview(c) \/ Judge(c) \/ Check(c) \/ Write(c) \/ VerifyFiles(c)
           \/ \E p \in Places : Claim(c, p) \/ Open(c, p)

\* A step that is no disturbance is a step of some launch.
LEMMA NextActs ==
    ASSUME Typed, Next, disturbances' = disturbances
    PROVE  \E c \in Launches : Acts(c)
  <1>1. ~User /\ \A c \in Launches : ~Crash(c)
    <2>1. ~Disturbed
      BY DEF Disturbed, Typed, OnDisk
    <2> QED BY <2>1 DEF User, Crash, PutAway, BringBack, OutsiderWrites, OutsiderMakesDirectory,
                        LegacyAppears, EvidenceChanges
  <1> QED BY <1>1 DEF Next, Plan, Publish, Acts, Judge, Check, Write

\* Whoever has not claimed the directories changes nothing beside the author.
LEMMA Bystander ==
    ASSUME Typed, Alone, disturbances = 0, NEW c \in Launches, NEW d \in Launches, c # d, Author(d), Acts(c)
    PROVE  Nothing /\ launch'[d] = launch[d]
  <1>1. at["nopal"] # Absent /\ ~Author(c)
    BY DEF Alone, Holds, Claimed
  <1>2. CASE Look(c)
    BY <1>2, LookEffect DEF LookIs, Moves, Becomes, Typed
  <1>3. CASE Preview(c)
    BY <1>3, PreviewEffect DEF PreviewIs, Moves, Becomes, Typed
  <1>4. CASE Judge(c)
    BY <1>4, JudgeEffect DEF JudgeIs, Moves, Becomes, Typed
  <1>5. CASE Check(c)
    BY <1>5, CheckEffect DEF CheckIs, Moves, Becomes, Typed
  <1>6. CASE Write(c)
    BY <1>1, <1>6, WriteEffect DEF WriteIs, Author, Writing, Typed
  <1>7. CASE VerifyFiles(c)
    BY <1>1, <1>7, VerifyEffect DEF VerifyIs, Author, Writing, Typed
  <1>8. ASSUME NEW p \in Places, Claim(c, p) PROVE Nothing /\ launch'[d] = launch[d]
    BY <1>1, <1>8, ClaimEffect DEF ClaimIs, Claiming, Author, Moves, Becomes, Typed, Places
  <1>9. ASSUME NEW p \in Places, Open(c, p) PROVE Nothing /\ launch'[d] = launch[d]
    BY <1>1, <1>9, OpenEffect DEF OpenIs, Opening, Author, Typed, Places
  <1> QED BY <1>2, <1>3, <1>4, <1>5, <1>6, <1>7, <1>8, <1>9 DEF Acts

\* The author holds the directories it writes to.
LEMMA AuthorHolds ==
    ASSUME Typed, Alone, disturbances = 0, NEW c \in Launches, Writing(c)
    PROVE  /\ Author(c) /\ Holds(c) /\ Laid(c) /\ ~launch[c].created
           /\ launch[c].dirs = at /\ \A p \in Places : at[p] \in Dirs /\ at[p] # Absent
           /\ Dir(c) = at[PlaceOf(Name(c))]
  <1>1. Author(c) /\ Holds(c) /\ Laid(c)
    BY DEF Author, Alone
  <1>2. \A p \in Places : launch[c].dirs[p] = at[p] /\ at[p] # Absent
    BY <1>1 DEF Holds, Writing, Places
  <1>3. launch[c].dirs = at
    BY <1>2 DEF Typed, Locals, Local, OnDisk
  <1>4. \A p \in Places : at[p] \in Dirs
    BY <1>2 DEF Typed, OnDisk
  <1>5. ~launch[c].created
    BY <1>1 DEF Holds, Writing, Typed, Locals, Local
  <1> QED BY <1>1, <1>2, <1>3, <1>4, <1>5 DEF Dir

\* What lies in the directories does not depend on where a resting author is.
LEMMA LaidKept ==
    ASSUME NEW c \in Launches, Laid(c), UNCHANGED <<at, entries>>,
           launch'[c].dirs = launch[c].dirs, launch'[c].next = launch[c].next, launch'[c].planned = launch[c].planned,
           Linked(c)' = Linked(c), Temporary(c)' = Temporary(c)
    PROVE  Laid(c)'
  <1>1. Name(c)' = Name(c) /\ \A n \in Names : Generated(c, n)' = Generated(c, n)
    BY Steady
  <1>2. \A i \in 1 .. 6 : Generated(c, Files[i])' = Generated(c, Files[i])
    BY <1>1, FilesFacts
  <1> QED BY <1>1, <1>2 DEF Laid

\* What the author is after a step of its own.
Stands(c) == Author(c) /\ Holds(c) /\ Laid(c) /\ (Writing(c) \/ launch[c].created \/ launch[c].next = 1)

\* An author that is done.
LEMMA Resting ==
    ASSUME Typed, Alone, disturbances = 0, NEW c \in Launches, Author(c), launch[c].created, Nothing,
           NEW l \in {"gates", "bundle", "lock", "preflight", "session", "stopped"}, Moves(c, l)
    PROVE  Stands(c)'
  <1>1. Holds(c) /\ Laid(c)
    BY DEF Alone
  <1>2. /\ Linked(c) = 6 /\ Temporary(c) = Absent
        /\ Linked(c)' = 6 /\ Temporary(c)' = Absent
    BY <1>1 DEF Holds, Linked, Temporary, Moves, Becomes
  <1>3. Laid(c)'
    BY <1>1, <1>2, LaidKept DEF Moves, Becomes, Nothing
  <1>4. Holds(c)'
    BY <1>1 DEF Holds, Moves, Becomes, Nothing
  <1> QED BY <1>3, <1>4 DEF Stands, Author, Moves, Becomes

\* An author between two checks, with all of its files or none.
LEMMA Checked ==
    ASSUME Typed, Alone, disturbances = 0, NEW c \in Launches, Check(c), Author(c)
    PROVE  Stands(c)'
  <1>1. Holds(c) /\ Laid(c)
    BY DEF Alone
  <1>2. CheckIs(c) /\ ~legacy
    BY CheckEffect DEF Typed, Alone
  <1>3. ~At(c, "reject")
    BY <1>1 DEF Author, Writing, Holds
  <1>4. CASE At(c, "recheck")
    <2>1. Moves(c, "create") /\ Nothing
      BY <1>2, <1>4 DEF CheckIs
    <2>2. ~launch[c].created /\ launch[c].next = 1
      BY <1>1, <1>4 DEF Holds, Alone, Writing
    <2>3. Linked(c) = 0 /\ Linked(c)' = 0 /\ Temporary(c) = Absent /\ Temporary(c)' = Absent
      BY <1>4, <2>1, <2>2 DEF Linked, Temporary, Moves, Becomes
    <2>4. Laid(c)'
      BY <1>1, <2>1, <2>3, LaidKept DEF Moves, Becomes, Nothing
    <2>5. Holds(c)'
      BY <1>1, <1>4, <2>1, <2>2 DEF Holds, Moves, Becomes, Nothing
    <2> QED BY <2>1, <2>4, <2>5 DEF Stands, Author, Writing, Moves, Becomes
  <1>5. CASE At(c, "verify")
    <2>1. launch[c].dirs = at /\ ~launch[c].created
      BY <1>5, AuthorHolds DEF Writing
    <2>2. Moves(c, "verify_files") /\ Nothing
      BY <1>2, <1>5, <2>1 DEF CheckIs
    <2>3. Linked(c) = 6 /\ Linked(c)' = 6 /\ Temporary(c) = Absent /\ Temporary(c)' = Absent
      BY <1>5, <2>2 DEF Linked, Temporary, Moves, Becomes
    <2>4. Laid(c)'
      BY <1>1, <2>2, <2>3, LaidKept DEF Moves, Becomes, Nothing
    <2>5. Holds(c)'
      BY <1>1, <1>5, <2>1, <2>2 DEF Holds, Moves, Becomes, Nothing
    <2> QED BY <2>2, <2>4, <2>5 DEF Stands, Author, Writing, Moves, Becomes
  <1> QED BY <1>2, <1>3, <1>4, <1>5 DEF CheckIs

\* Whoever claims .nopal becomes the author, and finds the directory empty.
LEMMA ClaimsNopal ==
    ASSUME Typed, Alone, disturbances = 0, NEW c \in Launches, Claim(c, "nopal"), at["nopal"] = Absent
    PROVE  Stands(c)' /\ made' = made + 1 /\ Moves(c, "open_nopal")
  <1>1. /\ At(c, "claim_nopal") /\ Moves(c, "open_nopal") /\ made < MaxDirs /\ made' = made + 1
        /\ at' = [at EXCEPT !["nopal"] = made + 1] /\ entries' = entries
    BY ClaimEffect DEF ClaimIs, Claiming, Opening, Nothing, Typed, Places
  <1>2. made = 0 /\ at["beislid"] = Absent /\ ~launch[c].created
    BY DEF Alone, Unclaimed
  <1>3. at'["nopal"] = 1 /\ at'["beislid"] = Absent /\ made' = 1 /\ 1 \in Dirs /\ Absent # 1
    BY <1>1, <1>2, FirstRunAssumption DEF Typed, OnDisk, Places, Dirs
  <1>4. \A n \in Names \cup Launches : entries[1][n] = Absent
    BY <1>1, <1>2, FirstRunAssumption DEF Alone, Unused
  <1>5. Linked(c)' = 0 /\ Temporary(c)' = Absent
    BY <1>1, <1>2 DEF Linked, Temporary, Moves, Becomes
  <1>6. Laid(c)'
    <2>1. \A i \in 1 .. 6 : ~(i <= Linked(c)') /\ Files[i] \in Names
      BY <1>5, FilesFacts
    <2> QED BY <1>1, <1>3, <1>4, <1>5, <2>1 DEF Laid, Places
  <1>7. Holds(c)'
    BY <1>1, <1>2, <1>3 DEF Holds, Moves, Becomes
  <1>8. launch'[c].next = 1
    BY <1>1, <1>2 DEF Alone, Writing, Moves, Becomes
  <1> QED BY <1>1, <1>6, <1>7, <1>8 DEF Stands, Author, Moves, Becomes

\* The author that claims .beislid finds it empty as well.
LEMMA ClaimsBeislid ==
    ASSUME Typed, Alone, disturbances = 0, NEW c \in Launches, Claim(c, "beislid")
    PROVE  Stands(c)' /\ Author(c) /\ made' = made + 1 /\ at'["nopal"] = at["nopal"] /\ entries' = entries
  <1>1. At(c, "claim_beislid")
    BY ClaimEffect DEF ClaimIs, Claiming, Typed, Places
  <1>2. Author(c) /\ Holds(c) /\ Laid(c) /\ ~launch[c].created /\ launch[c].next = 1
    BY <1>1 DEF Author, Alone, Holds, Writing
  <1>3. at["beislid"] = Absent
    BY <1>1, <1>2 DEF Holds
  <1>4. /\ Moves(c, "open_beislid") /\ made < MaxDirs /\ made' = made + 1
        /\ at' = [at EXCEPT !["beislid"] = made + 1] /\ entries' = entries
    BY <1>3, ClaimEffect DEF ClaimIs, Claiming, Opening, Nothing, Typed, Places
  <1>5. /\ at'["beislid"] = made + 1 /\ at'["nopal"] = at["nopal"]
        /\ at["nopal"] \in 1 .. made /\ made + 1 \in 1 .. made' /\ made + 1 \in Dirs /\ made \in Nat
    BY <1>2, <1>4, FirstRunAssumption DEF Typed, OnDisk, Places, Dirs, Holds
  <1>6. \A n \in Names \cup Launches : entries[made + 1][n] = Absent
    BY <1>4, <1>5, FirstRunAssumption DEF Alone, Unused
  <1>7. Linked(c) = 0 /\ Linked(c)' = 0 /\ Temporary(c)' = Absent /\ Temporary(c) = Absent
    BY <1>1, <1>2, <1>4 DEF Linked, Temporary, Moves, Becomes
  <1>8. Laid(c)'
    <2>1. \A i \in 1 .. 6 : ~(i <= 0) /\ Files[i] \in Names
      BY FilesFacts
    <2>2. \A n \in Names \cup Launches :
              entries[at["nopal"]][n] = Absent \/ \A i \in 1 .. 6 : n # Files[i] /\ n \notin Launches
      BY <1>2, <1>7, <2>1 DEF Laid, Places, Holds
    <2> QED BY <1>4, <1>5, <1>6, <1>7, <2>1, <2>2 DEF Laid, Places
  <1>9. Holds(c)'
    <2>1. at'["nopal"] # at'["beislid"] /\ at'["beislid"] # Absent
      BY <1>5, FirstRunAssumption DEF Dirs
    <2>2. at'["nopal"] \in 1 .. made'
      BY <1>4, <1>5
    <2> QED BY <1>1, <1>2, <1>4, <1>5, <2>1, <2>2 DEF Holds, Moves, Becomes
  <1> QED BY <1>2, <1>4, <1>5, <1>8, <1>9 DEF Stands, Author, Moves, Becomes

\* The author opens the directory that it made.
LEMMA Opens ==
    ASSUME Typed, Alone, disturbances = 0, NEW c \in Launches, NEW p \in Places, Open(c, p)
    PROVE  Stands(c)' /\ Author(c) /\ Nothing
  <1>1. OpenIs(c, p)
    BY OpenEffect DEF Typed
  <1>2. Author(c) /\ Holds(c) /\ Laid(c) /\ ~launch[c].created /\ launch[c].next = 1
    BY <1>1 DEF OpenIs, Opening, Author, Alone, Holds, Writing
  <1>3. at[p] # Absent /\ DOMAIN launch[c].dirs = Places
    BY <1>1, <1>2 DEF OpenIs, Opening, Holds, Places, Typed, Locals, Local
  <1>4. /\ launch'[c].dirs[p] = at[p] /\ \A q \in Places \ {p} : launch'[c].dirs[q] = launch[c].dirs[q]
        /\ launch'[c].pc = IF p = "nopal" THEN "claim_beislid" ELSE "recheck"
        /\ launch'[c].next = 1 /\ ~launch'[c].created /\ launch'[c].planned = launch[c].planned
    BY <1>1, <1>2, <1>3 DEF OpenIs, Becomes
  <1>5. Linked(c) = 0 /\ Linked(c)' = 0 /\ Temporary(c)' = Absent /\ Temporary(c) = Absent
    BY <1>1, <1>2, <1>4 DEF OpenIs, Opening, Linked, Temporary
  <1>6. Laid(c)'
    <2>1. \A i \in 1 .. 6 : ~(i <= 0) /\ Files[i] \in Names
      BY FilesFacts
    <2> QED BY <1>1, <1>2, <1>5, <2>1 DEF Laid, OpenIs, Nothing
  <1>7. Holds(c)'
    <2>1. CASE p = "nopal"
      BY <1>1, <1>2, <1>4, <2>1 DEF Holds, OpenIs, Opening, Nothing
    <2>2. CASE p = "beislid"
      BY <1>1, <1>2, <1>3, <1>4, <2>2 DEF Holds, OpenIs, Opening, Nothing, Places
    <2> QED BY <2>1, <2>2 DEF Places
  <1> QED BY <1>1, <1>2, <1>4, <1>6, <1>7 DEF Stands, Author, OpenIs

\* A temporary file comes or goes, or a file gets its name.
Lays(c, n, file) ==
    \/ n = c /\ Temporary(c)' = file /\ Linked(c)' = Linked(c) /\ (file = Absent \/ Name(c)' = Name(c))
    \/ /\ n = Name(c) /\ file = Text(Name(c), Generated(c, Name(c)), c) /\ Name(c)' = Name(c)
       /\ Linked(c) = launch[c].next - 1 /\ Linked(c)' = launch[c].next /\ Temporary(c)' = Temporary(c)

\* One file operation after the other, in the order of the baseline.
LEMMA Writes ==
    ASSUME Typed, Alone, disturbances = 0, NEW c \in Launches, Write(c)
    PROVE  Stands(c)' /\ Author(c) /\ UNCHANGED <<at, legacy, made, disturbances>>
           /\ \A d \in Dirs \ {at["nopal"], at["beislid"]} : entries'[d] = entries[d]
  <1> DEFINE i == launch[c].next
             p == PlaceOf(Name(c))
             text == Text(Name(c), Generated(c, Name(c)), c)
  <1>1. WriteIs(c) /\ Writing(c)
    BY WriteEffect DEF Typed, WriteIs, Writing
  <1>2. /\ Author(c) /\ Holds(c) /\ Laid(c) /\ ~launch[c].created
        /\ launch[c].dirs = at /\ (\A q \in Places : at[q] \in Dirs /\ at[q] # Absent)
        /\ Dir(c) = at[p]
    BY <1>1, AuthorHolds
  <1>3. i \in 1 .. 6 /\ p \in Places /\ Name(c) = Files[i] /\ Name(c) \in Names /\ Dir(c) \in Dirs
    BY <1>1, <1>2, Here DEF Name
  <1>4. at["nopal"] # at["beislid"]
    BY <1>2 DEF Holds
  <1>5. text \in Texts
    <2>1. launch[c].planned \in Evidence \cup {Absent}
      BY DEF Typed, Locals, Local
    <2> QED BY <1>3, <2>1 DEF Text, Texts, Generated, Sources
  <1>6. ~At(c, "link") \/ entries[Dir(c)][Name(c)] = Absent
    <2>1. CASE At(c, "link")
      BY <2>1, <1>2, <1>3 DEF Laid, Linked
    <2> QED BY <2>1
  <1>7. At(c, "link") => entries[Dir(c)][c] = text
    BY <1>2, <1>3 DEF Laid, Temporary
  <1>8. \/ At(c, "create") /\ Puts(c, c, Partial) /\ Moves(c, "fill")
        \/ At(c, "fill") /\ Puts(c, c, text) /\ Moves(c, "link")
        \/ At(c, "link") /\ Puts(c, Name(c), text) /\ Moves(c, "unlink")
        \/ At(c, "unlink") /\ Puts(c, c, Absent) /\ i = 6 /\ Moves(c, "verify")
        \/ At(c, "unlink") /\ Puts(c, c, Absent) /\ i < 6
           /\ Becomes(c, "create", launch[c].planned, launch[c].dirs, i + 1, launch[c].created)
    BY <1>1, <1>6, <1>7 DEF WriteIs
  <1>9. \E n \in Names \cup Launches, file \in Texts \cup {Absent, Partial} : Puts(c, n, file)
    BY <1>3, <1>5, <1>8
  <1>10. \A e \in Dirs \ {Dir(c)} : entries'[e] = entries[e]
    BY <1>3, <1>9 DEF Puts, Typed, OnDisk
  <1>11. UNCHANGED <<at, legacy, made, disturbances>>
    BY <1>9 DEF Puts
  <1>12. /\ launch'[c].dirs = launch[c].dirs /\ launch'[c].planned = launch[c].planned
         /\ launch'[c].created = launch[c].created /\ Writing(c)'
         /\ launch'[c].next = (IF At(c, "unlink") /\ i < 6 THEN i + 1 ELSE i)
    BY <1>8, <1>3 DEF Moves, Becomes, Writing
  <1>13. Holds(c)'
    <2>1. launch'[c].pc \notin {"open_nopal", "claim_beislid", "open_beislid"}
      BY <1>12 DEF Writing
    <2> QED BY <1>1, <1>2, <1>11, <1>12, <2>1 DEF Holds, Writing
  <1>14. \A k \in 1 .. 6 : Generated(c, Files[k])' = Generated(c, Files[k])
    BY <1>12, FilesFacts DEF Generated
  <1>15. \E n \in Names \cup Launches, file \in Texts \cup {Absent, Partial} : Puts(c, n, file) /\ Lays(c, n, file)
    <2>1. CASE At(c, "create")
      <3>1. Puts(c, c, Partial) /\ Moves(c, "fill")
        BY <1>8, <2>1
      <3>2. Lays(c, c, Partial)
        BY <2>1, <3>1, <1>12 DEF Lays, Linked, Temporary, Name, Moves, Becomes
      <3> QED BY <3>1, <3>2
    <2>2. CASE At(c, "fill")
      <3>1. Puts(c, c, text) /\ Moves(c, "link")
        BY <1>8, <2>2
      <3>2. text' = text
        BY <1>3, <1>12, <1>14, <2>2 DEF Name
      <3>3. Lays(c, c, text)
        BY <2>2, <3>1, <3>2, <1>12 DEF Lays, Linked, Temporary, Name, Moves, Becomes
      <3> QED BY <1>5, <3>1, <3>3
    <2>3. CASE At(c, "link")
      <3>1. Puts(c, Name(c), text) /\ Moves(c, "unlink")
        BY <1>8, <2>3
      <3>2. text' = text /\ Name(c)' = Name(c)
        BY <1>3, <1>12, <1>14, <2>3 DEF Name
      <3>3. launch'[c].pc = "unlink" /\ launch'[c].next = i
        BY <2>3, <3>1, <1>12 DEF Moves, Becomes
      <3>4. Linked(c) = i - 1 /\ Linked(c)' = i
        BY <1>2, <1>12, <2>3, <3>3 DEF Linked
      <3>5. Temporary(c) = text /\ Temporary(c)' = text'
        BY <2>3, <3>3 DEF Temporary
      <3>6. Lays(c, Name(c), text)
        BY <3>2, <3>4, <3>5 DEF Lays
      <3> QED BY <1>3, <1>5, <3>1, <3>6
    <2>4. CASE At(c, "unlink")
      <3>1. /\ Puts(c, c, Absent)
            /\ \/ launch'[c].pc = "verify" /\ i = 6
               \/ launch'[c].pc = "create" /\ launch'[c].next = i + 1
        BY <1>8, <2>4 DEF Moves, Becomes
      <3>2. Lays(c, c, Absent)
        BY <1>2, <1>3, <2>4, <3>1, <1>12 DEF Lays, Linked, Temporary
      <3> QED BY <3>1, <3>2
    <2> QED BY <1>8, <2>1, <2>2, <2>3, <2>4
  <1>16. Laid(c)'
    <2>1. PICK n \in Names \cup Launches, file \in Texts \cup {Absent, Partial} : Puts(c, n, file) /\ Lays(c, n, file)
      BY <1>15
    <2> HIDE DEF i, p, text
    <2>2. \A q \in Places, m \in Names \cup Launches :
              (q # p \/ m # n) => entries'[at[q]][m] = entries[at[q]][m]
      BY <1>2, <1>3, <1>4, <2>1, Putting DEF Puts, Typed, Places
    <2>3. entries'[at[p]][n] = file
      BY <1>2, <1>3, <2>1, Putting DEF Puts, Typed
    <2>4. \A k \in 1 .. 6 : Files[k] \in Names /\ Files[k] # c /\ Files[k] \notin Launches
                            /\ (Files[k] = Name(c) => k = i) /\ Name(c) = Files[i] /\ i = launch[c].next
      BY <1>3, FilesFacts, Here DEF i
    <2>5. CASE n = c /\ Temporary(c)' = file /\ Linked(c)' = Linked(c) /\ (file = Absent \/ Name(c)' = Name(c))
      <3>1. \A q \in Places, k \in 1 .. 6 : entries'[at[q]][Files[k]] = entries[at[q]][Files[k]]
        BY <2>2, <2>4, <2>5
      <3>2. \A q \in Places, l \in Launches :
                entries'[at[q]][l] = IF l = c /\ PlaceOf(Name(c)') = q THEN Temporary(c)' ELSE Absent
        BY <1>2, <2>2, <2>3, <2>5 DEF Laid, p
      <3> QED BY <1>2, <1>11, <1>14, <2>5, <3>1, <3>2 DEF Laid
    <2>6. CASE /\ n = Name(c) /\ file = text /\ Name(c)' = Name(c) /\ Temporary(c)' = Temporary(c)
               /\ Linked(c) = i - 1 /\ Linked(c)' = i
      <3>1. \A q \in Places, l \in Launches : entries'[at[q]][l] = entries[at[q]][l]
        BY <2>2, <2>6, Here
      <3>2. \A q \in Places, k \in 1 .. 6 :
                entries'[at[q]][Files[k]] =
                    IF PlaceOf(Files[k]) = q /\ k <= i THEN Text(Files[k], Generated(c, Files[k]), c) ELSE Absent
        <4>1. \A q \in Places, k \in 1 .. 6 : k # i =>
                entries'[at[q]][Files[k]] =
                    IF PlaceOf(Files[k]) = q /\ k <= i - 1 THEN Text(Files[k], Generated(c, Files[k]), c) ELSE Absent
          BY <1>2, <2>2, <2>4, <2>6 DEF Laid
        <4>2. \A q \in Places : entries'[at[q]][Files[i]] = IF q = p THEN text ELSE Absent
          BY <1>2, <1>3, <2>2, <2>3, <2>4, <2>6 DEF Laid, p
        <4> QED BY <1>3, <4>1, <4>2, <2>4 DEF text, p
      <3> QED BY <1>2, <1>11, <1>14, <2>6, <3>1, <3>2 DEF Laid
    <2> QED BY <2>1, <2>5, <2>6 DEF Lays, i, text
  <1> QED BY <1>2, <1>3, <1>10, <1>11, <1>12, <1>13, <1>16 DEF Stands, Author, Places

\* A complete baseline in the claimed directories is verified.
LEMMA Verifies ==
    ASSUME Typed, Alone, disturbances = 0, NEW c \in Launches, VerifyFiles(c)
    PROVE  Stands(c)' /\ Author(c) /\ Nothing
  <1>1. VerifyIs(c) /\ At(c, "verify_files") /\ Writing(c) /\ Nothing
    BY VerifyEffect DEF Typed, VerifyIs, Writing
  <1>2. /\ Author(c) /\ Holds(c) /\ Laid(c) /\ ~launch[c].created
        /\ launch[c].dirs = at /\ \A q \in Places : at[q] \in Dirs /\ at[q] # Absent
    BY <1>1, AuthorHolds
  <1>3. Linked(c) = 6 /\ Temporary(c) = Absent
    BY <1>1, <1>2 DEF Linked, Temporary
  <1>4. ASSUME NEW p \in Places, NEW n \in Names \cup Launches
        PROVE  IF n \in Names /\ PlaceOf(n) = p THEN SameText(entries[at[p]][n], n, Generated(c, n))
                                                ELSE entries[at[p]][n] = Absent
    <2>1. CASE n \in Launches
      <3>1. n \notin Names
        BY <2>1, FirstRunAssumption
      <3> QED BY <1>2, <1>3, <2>1, <3>1 DEF Laid
    <2>2. CASE n \in Names
      <3>1. PICK i \in 1 .. 6 : n = Files[i]
        BY <2>2, FilesFacts
      <3>2. entries[at[p]][n] = IF PlaceOf(n) = p THEN Text(n, Generated(c, n), c) ELSE Absent
        BY <1>2, <1>3, <3>1 DEF Laid
      <3>3. PlaceOf(n) = p => entries[at[p]][n] \in Texts
        <4>1. launch[c].planned \in Evidence \cup {Absent}
          BY DEF Typed, Locals, Local
        <4> QED BY <2>2, <3>2, <4>1 DEF Text, Texts, Generated, Sources
      <3>4. PlaceOf(n) = p => entries[at[p]][n] # Absent /\ entries[at[p]][n] # Partial
        BY <3>3, FirstRunAssumption DEF Texts
      <3> QED BY <2>2, <3>2, <3>4 DEF SameText, Text
    <2> QED BY <2>1, <2>2
  <1>5. Becomes(c, "look", launch[c].planned, launch[c].dirs, launch[c].next, TRUE)
    BY <1>1, <1>2, <1>4 DEF VerifyIs
  <1>6. /\ launch'[c].pc = "look" /\ launch'[c].created /\ launch'[c].dirs = launch[c].dirs
        /\ launch'[c].next = launch[c].next /\ launch'[c].planned = launch[c].planned
    BY <1>5 DEF Becomes
  <1>7. Linked(c)' = 6 /\ Temporary(c)' = Absent
    BY <1>6 DEF Linked, Temporary
  <1>8. Laid(c)'
    BY <1>1, <1>2, <1>3, <1>6, <1>7, LaidKept DEF Nothing
  <1>9. Holds(c)'
    BY <1>1, <1>2, <1>6 DEF Holds, Nothing
  <1> QED BY <1>1, <1>2, <1>6, <1>8, <1>9 DEF Stands, Author

\* The author is still the author after a step of its own.
LEMMA OwnStep ==
    ASSUME Typed, Alone, disturbances = 0, NEW c \in Launches, Author(c), Acts(c)
    PROVE  /\ Stands(c)' /\ UNCHANGED <<legacy, disturbances>> /\ made' >= made
           /\ \A d \in made' + 1 .. MaxDirs : entries'[d] = entries[d]
  <1>1. Holds(c) /\ made \in Nat
    BY DEF Alone, Typed, OnDisk
  <1>2. Nothing => /\ UNCHANGED <<legacy, disturbances>> /\ made' >= made
                   /\ \A d \in made' + 1 .. MaxDirs : entries'[d] = entries[d]
    BY <1>1 DEF Nothing
  <1>3. CASE Look(c)
    <2>1. LookIs(c)
      BY <1>3, LookEffect DEF Typed
    <2>2. launch[c].created
      BY <2>1 DEF LookIs, Author, Writing
    <2>3. Nothing /\ (Moves(c, "stopped") \/ Moves(c, "gates"))
      BY <1>1, <2>1 DEF LookIs, Holds
    <2> QED BY <1>2, <2>2, <2>3, Resting
  <1>4. CASE Preview(c)
    <2>1. At(c, "preview")
      BY <1>4, PreviewEffect DEF Typed, PreviewIs
    <2> QED BY <1>1, <2>1 DEF Author, Writing, Holds
  <1>5. CASE Judge(c)
    <2>1. JudgeIs(c)
      BY <1>5, JudgeEffect DEF Typed
    <2>2. launch[c].created /\ Nothing
      BY <2>1 DEF JudgeIs, Author, Writing
    <2> QED BY <1>2, <2>1, <2>2, Resting DEF JudgeIs
  <1>6. CASE Check(c)
    <2>1. Nothing
      BY <1>6, CheckEffect DEF Typed, CheckIs
    <2> QED BY <1>2, <1>6, <2>1, Checked
  <1>7. CASE Write(c)
    <2>1. /\ Stands(c)' /\ UNCHANGED <<at, legacy, made, disturbances>>
          /\ \A d \in Dirs \ {at["nopal"], at["beislid"]} : entries'[d] = entries[d]
      BY <1>7, Writes
    <2>2. Writing(c)
      BY <1>7, WriteEffect DEF Typed, WriteIs, Writing
    <2>3. at["nopal"] \in 1 .. made /\ at["beislid"] \in 1 .. made
      BY <1>1, <2>2, AuthorHolds DEF Holds, Places
    <2> QED BY <1>1, <2>1, <2>3 DEF Dirs
  <1>8. CASE VerifyFiles(c)
    BY <1>2, <1>8, Verifies
  <1>9. ASSUME NEW p \in Places, Claim(c, p)
        PROVE  /\ Stands(c)' /\ UNCHANGED <<legacy, disturbances>> /\ made' >= made
               /\ \A d \in made' + 1 .. MaxDirs : entries'[d] = entries[d]
    <2>1. CASE p = "nopal"
      BY <1>1, <1>9, <2>1, ClaimEffect DEF ClaimIs, Claiming, Typed, Author, Writing, Holds
    <2>2. CASE p = "beislid"
      <3>1. Stands(c)' /\ made' = made + 1 /\ entries' = entries
        BY <1>9, <2>2, ClaimsBeislid
      <3>2. UNCHANGED <<legacy, disturbances>>
        BY <1>9, ClaimEffect DEF ClaimIs, Nothing, Typed
      <3> QED BY <1>1, <3>1, <3>2
    <2> QED BY <2>1, <2>2 DEF Places
  <1>10. ASSUME NEW p \in Places, Open(c, p)
         PROVE  /\ Stands(c)' /\ UNCHANGED <<legacy, disturbances>> /\ made' >= made
                /\ \A d \in made' + 1 .. MaxDirs : entries'[d] = entries[d]
    BY <1>2, <1>10, Opens
  <1> QED BY <1>3, <1>4, <1>5, <1>6, <1>7, <1>8, <1>9, <1>10 DEF Acts

\* A launch steps for itself.
LEMMA Others ==
    ASSUME Typed, NEW c \in Launches, Acts(c)
    PROVE  \A d \in Launches \ {c} : launch'[d] = launch[d]
  <1>1. \A p \in Places : Claim(c, p) => \A d \in Launches \ {c} : launch'[d] = launch[d]
    BY ClaimEffect DEF ClaimIs, Moves, Becomes, Typed
  <1>2. \A p \in Places : Open(c, p) => \A d \in Launches \ {c} : launch'[d] = launch[d]
    BY OpenEffect DEF OpenIs, Becomes, Typed
  <1>3. Look(c) \/ Preview(c) \/ Judge(c) \/ Check(c) => \A d \in Launches \ {c} : launch'[d] = launch[d]
    BY LookEffect, PreviewEffect, JudgeEffect, CheckEffect
       DEF LookIs, PreviewIs, JudgeIs, CheckIs, Moves, Becomes, Typed
  <1>4. Write(c) \/ VerifyFiles(c) => \A d \in Launches \ {c} : launch'[d] = launch[d]
    BY WriteEffect, VerifyEffect DEF WriteIs, VerifyIs, Moves, Becomes, Typed
  <1> QED BY <1>1, <1>2, <1>3, <1>4 DEF Acts

\* Nobody becomes the author of a baseline that has one.
LEMMA Stranger ==
    ASSUME Typed, Alone, disturbances = 0, NEW c \in Launches, Acts(c), ~Author(c), at["nopal"] # Absent
    PROVE  ~Author(c)' /\ launch'[c].next = launch[c].next
  <1>1. CASE Look(c)
    BY <1>1, LookEffect DEF LookIs, Moves, Becomes, Author, Writing, Typed
  <1>2. CASE Preview(c)
    BY <1>2, PreviewEffect DEF PreviewIs, Moves, Becomes, Author, Writing, Typed
  <1>3. CASE Judge(c)
    BY <1>3, JudgeEffect DEF JudgeIs, Moves, Becomes, Author, Writing, Typed
  <1>4. CASE Check(c)
    BY <1>4, CheckEffect DEF CheckIs, Moves, Becomes, Author, Writing, Typed
  <1>5. ~Write(c) /\ ~VerifyFiles(c)
    BY WriteEffect, VerifyEffect DEF WriteIs, VerifyIs, Author, Writing, Typed
  <1>6. ASSUME NEW p \in Places, Claim(c, p) PROVE ~Author(c)' /\ launch'[c].next = launch[c].next
    BY <1>6, ClaimEffect DEF ClaimIs, Claiming, Moves, Becomes, Author, Writing, Typed, Places
  <1>7. ASSUME NEW p \in Places PROVE ~Open(c, p)
    BY OpenEffect DEF OpenIs, Opening, Author, Typed, Places
  <1> QED BY <1>1, <1>2, <1>3, <1>4, <1>5, <1>6, <1>7 DEF Acts

\* Before the directory is claimed, a step is one towards the claim, or the claim.
LEMMA First ==
    ASSUME Typed, Alone, disturbances = 0, NEW c \in Launches, Acts(c), at["nopal"] = Absent
    PROVE  \/ Claim(c, "nopal")
           \/ /\ Nothing /\ ~Author(c)' /\ launch'[c].next = launch[c].next
              /\ launch'[c].pc \in {"look", "preview", "reject", "claim_nopal", "stopped"} /\ ~launch'[c].created
              /\ launch'[c].pc = "stopped" => evidence \in Blocked
  <1>1. /\ launch[c].pc \in {"look", "preview", "reject", "claim_nopal", "stopped"} /\ ~launch[c].created
        /\ ~legacy /\ at["beislid"] = Absent
    BY DEF Alone, Unclaimed
  <1>2. CASE Look(c)
    BY <1>1, <1>2, LookEffect DEF LookIs, Moves, Becomes, Author, Writing, Typed
  <1>3. CASE Preview(c)
    BY <1>1, <1>3, PreviewEffect DEF PreviewIs, Moves, Becomes, Author, Writing, Typed
  <1>4. CASE Check(c)
    BY <1>1, <1>4, CheckEffect DEF CheckIs, Moves, Becomes, Author, Writing, Typed
  <1>5. ~Judge(c) /\ ~Write(c) /\ ~VerifyFiles(c)
    BY <1>1, JudgeEffect, WriteEffect, VerifyEffect DEF JudgeIs, WriteIs, VerifyIs, Typed
  <1>6. ASSUME NEW p \in Places, Claim(c, p) PROVE p = "nopal"
    BY <1>1, <1>6, ClaimEffect DEF ClaimIs, Claiming, Typed, Places
  <1>7. ASSUME NEW p \in Places PROVE ~Open(c, p)
    BY <1>1, OpenEffect DEF OpenIs, Opening, Typed, Places
  <1> QED BY <1>2, <1>3, <1>4, <1>5, <1>6, <1>7 DEF Acts

\* An author alone: the rest of the invariant follows from how it stands.
LEMMA OneAuthor ==
    ASSUME NEW c \in Launches, Stands(c)', \A d \in Launches \ {c} : ~Author(d)' /\ launch'[d].next = 1,
           ~legacy', made' # 0, Unused'
    PROVE  Alone'
  BY DEF Alone, Unclaimed, Claimed, Stands, Holds, Author

\* More directories made leave fewer unused.
LEMMA Fewer ==
    ASSUME NEW m \in Nat, NEW n \in Nat, NEW k \in Nat, n >= m
    PROVE  \A d \in n + 1 .. k : d \in m + 1 .. k
  OBVIOUS

\* Left alone by the user, one launch at most writes the baseline.
LEMMA AloneStep ==
    ASSUME Typed, Alone, [Next]_vars
    PROVE  Alone'
  <1> SUFFICES ASSUME disturbances' = 0 PROVE Alone'
    BY DEF Alone
  <1>1. CASE UNCHANGED vars
    BY <1>1 DEF vars, Alone, Unclaimed, Claimed, Unused, Author, Holds, Laid, Linked, Temporary, Writing,
                Generated, Name
  <1>2. CASE Next
    <2>1. disturbances = 0 /\ \E c \in Launches : Acts(c)
      <3>1. ~Disturbed
        BY Counted DEF Typed
      <3>2. \E c \in Launches : Acts(c)
        BY <1>2, <3>1 DEF Next, Plan, Publish, Acts, Judge, Check, Write, User, Crash, PutAway, BringBack,
                         OutsiderWrites, OutsiderMakesDirectory, LegacyAppears, EvidenceChanges
      <3>3. \A c \in Launches : Acts(c) => disturbances' = disturbances
        BY DEF Acts, Look, Preview, Judge, JudgeGates, ReadBundle, JudgeLock, Preflight, Check, RejectExisting,
               RejectLegacy, VerifyPlaces, Write, CreateTemporary, FillTemporary, LinkFile, DropTemporary,
               OnlyEntries, VerifyFiles, Claim, Open
      <3> QED BY <3>2, <3>3
    <2>2. PICK c \in Launches : Acts(c)
      BY <2>1
    <2>3. \A d \in Launches \ {c} : launch'[d] = launch[d] /\ (Author(d)' <=> Author(d))
      BY <2>2, Others DEF Author, Writing
    <2>4. CASE at["nopal"] = Absent
      <3>1. \A d \in Launches : ~Author(d) /\ launch[d].next = 1
        BY <2>1, <2>4 DEF Alone, Holds, Author
      <3>2. CASE Claim(c, "nopal")
        <4>1. Stands(c)' /\ made' = made + 1
          BY <2>1, <2>4, <3>2, ClaimsNopal
        <4>2. entries' = entries /\ ~legacy' /\ made \in Nat
          BY <2>1, <3>2, ClaimEffect DEF ClaimIs, Nothing, Typed, OnDisk, Alone, Places
        <4>3. Unused'
          BY <2>1, <4>1, <4>2 DEF Unused, Alone
        <4> QED BY <2>3, <3>1, <4>1, <4>2, <4>3, OneAuthor
      <3>3. CASE ~Claim(c, "nopal")
        <4>1. /\ Nothing /\ ~Author(c)' /\ launch'[c].next = launch[c].next
              /\ launch'[c].pc \in {"look", "preview", "reject", "claim_nopal", "stopped"} /\ ~launch'[c].created
              /\ launch'[c].pc = "stopped" => evidence \in Blocked
          BY <2>1, <2>2, <2>4, <3>3, First
        <4> QED BY <2>1, <2>3, <2>4, <3>1, <4>1 DEF Nothing, Alone, Unclaimed, Claimed, Unused
      <3> QED BY <3>2, <3>3
    <2>5. CASE at["nopal"] # Absent
      <3>1. PICK a \in Launches : Author(a)
        BY <2>1, <2>5 DEF Alone, Claimed
      <3>2. \A d \in Launches \ {a} : ~Author(d) /\ launch[d].next = 1
        BY <2>1, <2>5, <3>1 DEF Alone, Claimed, Author
      <3>3. made # 0 /\ made \in Nat /\ Unused /\ ~legacy
        BY <2>1, <2>5 DEF Alone, Claimed, Typed, OnDisk
      <3>4. CASE c = a
        <4>1. /\ Stands(c)' /\ UNCHANGED <<legacy, disturbances>> /\ made' >= made
              /\ \A d \in made' + 1 .. MaxDirs : entries'[d] = entries[d]
          BY <2>1, <2>2, <3>1, <3>4, OwnStep
        <4>2. made' \in Nat
          BY OnDiskStep DEF OnDisk
        <4>3. Unused'
          <5>0. made' >= made /\ made \in Nat /\ made' \in Nat /\ MaxDirs \in Nat
            BY <3>3, <4>1, <4>2, FirstRunAssumption
          <5>1. \A d \in made' + 1 .. MaxDirs : d \in made + 1 .. MaxDirs
            BY <5>0, Fewer
          <5> QED BY <3>3, <4>1, <5>1 DEF Unused
        <4>4. made' # 0
          BY <3>3, <4>1, <4>2
        <4> QED BY <2>3, <3>2, <3>3, <3>4, <4>1, <4>3, <4>4, OneAuthor
      <3>5. CASE c # a
        <4>1. Nothing /\ launch'[a] = launch[a]
          BY <2>1, <2>2, <3>1, <3>5, Bystander
        <4>2. \A d \in Launches \ {a} : ~Author(d)' /\ launch'[d].next = 1
          BY <2>1, <2>2, <2>3, <2>5, <3>2, <3>5, Stranger
        <4>3. Stands(a)
          BY <2>1, <3>1 DEF Stands, Alone
        <4>4. Stands(a)'
          <5>1. UNCHANGED <<at, entries>> /\ Linked(a)' = Linked(a) /\ Temporary(a)' = Temporary(a)
            BY <4>1 DEF Nothing, Linked, Temporary, Generated, Name
          <5>2. Laid(a)'
            BY <4>1, <4>3, <5>1, LaidKept DEF Stands
          <5> QED BY <4>1, <4>3, <5>2 DEF Nothing, Stands, Author, Holds, Writing
        <4> QED BY <3>3, <4>1, <4>2, <4>4, OneAuthor DEF Nothing, Unused
      <3> QED BY <3>4, <3>5
    <2> QED BY <2>4, <2>5
  <1> QED BY <1>1, <1>2

-----------------------------------------------------------------------------
(* The theorems.                                                            *)

\* The invariant holds initially.
LEMMA InitInv == Init => IInv
  <1> SUFFICES ASSUME Init PROVE IInv
    OBVIOUS
  <1>1. /\ \A p \in Places : at[p] = Absent /\ stashed[p] = Absent
        /\ "look" \in Locations /\ "nopal" \in Places /\ "beislid" \in Places /\ Absent \in Sources
    BY DEF Init, Locations, Places, Sources
  <1>2. Locals
    BY <1>1 DEF Init, Locals, Local
  <1>3. OnDisk
    <2>1. legacy \in BOOLEAN /\ evidence \in Evidence /\ made \in 0 .. MaxDirs
          /\ disturbances \in 0 .. MaxDisturbances
      <3>1. MaxDirs \in Nat /\ MaxDisturbances \in Nat /\ \A m \in Nat : 0 \in 0 .. m
        BY FirstRunAssumption
      <3> QED BY <3>1 DEF Init
    <2>2. at \in [Places -> Dirs \cup {Absent}] /\ stashed \in [Places -> Dirs \cup {Absent}]
      BY DEF Init
    <2>3. entries \in [Dirs -> [Names \cup Launches -> Texts \cup {Absent, Partial}]]
      BY DEF Init, Dirs
    <2> QED BY <2>1, <2>2, <2>3 DEF OnDisk
  <1>4. \A c \in Launches : launch[c].pc = "look" /\ launch[c].next = 1 /\ ~launch[c].created
    BY DEF Init
  <1>5. Opened
    BY <1>4 DEF Opened, Writing
  <1>6. Whole
    BY <1>4, FirstRunAssumption DEF Init, Whole, Dirs
  <1>7. Alone
    <2>1. \A c \in Launches : ~Author(c)
      BY <1>4 DEF Author, Writing
    <2>2. Unclaimed /\ Claimed /\ Unused
      BY <1>1, <1>4 DEF Init, Unclaimed, Claimed, Unused
    <2> QED BY <1>4, <2>1, <2>2 DEF Init, Alone
  <1> QED BY <1>2, <1>3, <1>5, <1>6, <1>7 DEF IInv, Typed

\* Every step keeps the invariant.
LEMMA StepInv == IInv /\ [Next]_vars => IInv'
  BY LocalsStep, OnDiskStep, OpenedStep, WholeStep, AloneStep DEF IInv, Typed

\* The invariant holds always.
LEMMA SpecInv == Spec => []IInv
  BY InitInv, StepInv, PTL DEF Spec

\* Racing first launches that the user leaves alone end with one author of all six files,
\* unless detection stopped every launch before the first write.
THEOREM WinnerIsAlone == Spec => []WinnerTakesAll
  <1>1. IInv => WinnerTakesAll
    <2> SUFFICES ASSUME IInv, disturbances = 0,
                        \A c \in Launches : launch[c].created \/ At(c, "stopped") \/ At(c, "session")
                 PROVE  IF made = 0 THEN evidence \in Blocked
                        ELSE \E c \in Launches :
                                /\ launch[c].created /\ \A other \in Launches \ {c} : ~launch[other].created
                                /\ \A n \in Names : File(PlaceOf(n), n).by = c
      BY DEF WinnerTakesAll
    <2>1. CASE at["nopal"] = Absent
      <3>1. made = 0 /\ \A c \in Launches : ~launch[c].created /\ ~At(c, "session")
        BY <2>1 DEF IInv, Alone, Unclaimed
      <3>2. \A c \in Launches : At(c, "stopped") => evidence \in Blocked
        BY <2>1 DEF IInv, Alone, Unclaimed
      <3> QED BY <3>1, <3>2, FirstRunAssumption
    <2>2. CASE at["nopal"] # Absent
      <3>1. PICK c \in Launches : Author(c)
        BY <2>2 DEF IInv, Alone, Claimed
      <3>2. made # 0 /\ \A d \in Launches \ {c} : ~launch[d].created
        BY <2>2, <3>1 DEF IInv, Alone, Claimed, Author
      <3>3. Holds(c) /\ Laid(c)
        BY <3>1 DEF IInv, Alone
      <3>4. launch[c].created
        BY <3>1 DEF Author, Writing
      <3>5. Linked(c) = 6 /\ \A p \in Places : at[p] # Absent
        BY <3>3, <3>4 DEF Holds, Linked, Places
      <3>6. ASSUME NEW n \in Names PROVE File(PlaceOf(n), n).by = c
        <4>1. PICK i \in 1 .. 6 : n = Files[i] /\ PlaceOf(n) \in Places
          BY FilesFacts
        <4>2. entries[at[PlaceOf(n)]][n] = Text(n, Generated(c, n), c)
          BY <3>3, <3>5, <4>1 DEF Laid
        <4> QED BY <3>5, <4>1, <4>2 DEF File, Text
      <3> QED BY <3>2, <3>4, <3>6
    <2> QED BY <2>1, <2>2
  <1> QED BY <1>1, SpecInv, PTL

\* No step of a launch changes or removes a file under its real name, and what a step
\* publishes is whole: write_planned_baseline and the hard link of AuthorityOwnership.
THEOREM FilesOnce == Spec => FilesAppearOnce
  <1> DEFINE Step == disturbances' = disturbances =>
                       \A d \in 1 .. MaxDirs, n \in Names :
                           /\ entries[d][n] # Absent => entries'[d][n] = entries[d][n]
                           /\ entries'[d][n] # Partial
  <1>1. IInv /\ IInv' /\ [Next]_vars => [Step]_vars
    <2> SUFFICES ASSUME IInv, IInv', Next, disturbances' = disturbances, NEW d \in Dirs, NEW n \in Names
                 PROVE  /\ entries[d][n] # Absent => entries'[d][n] = entries[d][n]
                        /\ entries'[d][n] # Partial
      BY DEF Dirs
    <2>1. PICK c \in Launches : Acts(c)
      BY NextActs DEF IInv
    <2>2. CASE Write(c)
      <3>1. WriteIs(c) /\ Writing(c)
        BY <2>2, WriteEffect DEF IInv, Typed, WriteIs, Writing
      <3>2. Dir(c) \in Dirs /\ Name(c) \in Names /\ n # c
        BY <3>1, Here DEF IInv
      <3>3. \A m \in Names \cup Launches : (\E file : Puts(c, m, file)) /\ (m = n => entries[Dir(c)][n] = Absent) =>
                (entries[d][n] # Absent => entries'[d][n] = entries[d][n])
        BY <3>2 DEF Puts, IInv, Typed, OnDisk
      <3> QED BY <3>1, <3>2, <3>3 DEF WriteIs, Nothing, IInv, Whole
    <2>3. CASE ~Write(c)
      BY <2>1, <2>3 DEF Acts, Look, Preview, Judge, JudgeGates, ReadBundle, JudgeLock, Preflight, Check,
            RejectExisting, RejectLegacy, VerifyPlaces, VerifyFiles, Claim, Open, IInv, Whole
    <2> QED BY <2>2, <2>3
  <1> QED BY <1>1, SpecInv, PTL DEF Spec, FilesAppearOnce

=============================================================================
