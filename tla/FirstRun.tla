------------------------------ MODULE FirstRun ------------------------------
(***************************************************************************)
(* A launch in a repository without Nopal: it plans a six-file baseline,   *)
(* publishes it file by file, and plans again on what is then on disk      *)
(* (nopal-core/scaffold.rs, nopal-cli/launch.rs, dispatch_launch of        *)
(* main.rs).  Launches of several Nopal versions race with each other and  *)
(* with the user, who may stash the control directories away and bring     *)
(* them back, write files, make directories and change the project.        *)
(*                                                                         *)
(* A file is a record of what it is, what it was generated from and who    *)
(* wrote it.  A temporary file has a random name that nobody else uses:    *)
(* the launch's own name stands for it.                                    *)
(***************************************************************************)
EXTENDS Naturals, Sequences, FiniteSets

CONSTANTS Launches, VersionOf, \* launch -> version of the executing distribution
          Evidence,            \* build evidence the repository may show
          Ready, Blocked,      \* evidence that yields gates, evidence that blocks detection
          Absent, Partial, Outsider, MaxDirs, MaxDisturbances

Places == {"nopal", "beislid"}

\* The baseline in the order it is published.
Files == <<"nopal.jsonc", "policy.jsonc", "gates.jsonc", "bundle.jsonc", "nopal.lock", "workflow.md">>
Names == {Files[i] : i \in DOMAIN Files}
PlaceOf(name) == IF name = "workflow.md" THEN "beislid" ELSE "nopal"

VARIABLES at,       \* place -> directory at that path, or Absent
          stashed,  \* place -> directory the user has put away, or Absent
          entries,  \* directory -> name -> file or Absent
          legacy,   \* a .crust directory of the older tool exists
          evidence, \* what gate detection finds in the repository now
          launch,   \* launch -> its local state
          made,     \* directories made so far
          disturbances

disk == <<at, stashed, entries, legacy, evidence, made>>
vars == <<at, stashed, entries, legacy, evidence, launch, made, disturbances>>

Text(name, from, by) == [name |-> name, from |-> from, by |-> by]
SameText(file, name, from) == file # Absent /\ file # Partial /\ file.name = name /\ file.from = from

\* What a file may have been generated from.
Sources == Evidence \cup {VersionOf[c] : c \in Launches} \cup {"fixed", "foreign", "explicit", Absent}

ASSUME FirstRunAssumption ==
    /\ Ready \subseteq Evidence /\ Blocked \subseteq Evidence /\ Ready \cap Blocked = {}
    /\ Outsider \notin Launches /\ Launches # {} /\ Launches \cap Names = {}
    /\ MaxDirs \in Nat /\ MaxDisturbances \in Nat
    /\ Absent # Partial /\ Absent \notin 1 .. MaxDirs
    /\ {Absent, Partial} \cap [name : Names, from : Sources, by : Launches \cup {Outsider}] = {}

\* What build_baseline generates: gates from the evidence, contract and lock
\* from the executing distribution, the rest is fixed.
Generated(c, name) ==
    CASE name = "gates.jsonc" -> launch[c].planned
      [] name \in {"bundle.jsonc", "nopal.lock"} -> VersionOf[c]
      [] OTHER -> "fixed"

File(place, name) == IF at[place] = Absent THEN Absent ELSE entries[at[place]][name]

Init ==
    /\ at = [p \in Places |-> Absent] /\ stashed = [p \in Places |-> Absent]
    /\ entries = [d \in 1 .. MaxDirs |-> [n \in Names \cup Launches |-> Absent]]
    /\ legacy = FALSE
    /\ evidence \in Evidence
    /\ launch = [c \in Launches |->
           [pc |-> "look", planned |-> Absent, dirs |-> at, next |-> 1,
            created |-> FALSE, judged |-> "nothing", bundle |-> Absent]]
    /\ made = 0 /\ disturbances = 0

At(c, pc) == launch[c].pc = pc
Goto(c, pc) == launch' = [launch EXCEPT ![c].pc = pc]
Claiming(place) == IF place = "nopal" THEN "claim_nopal" ELSE "claim_beislid"
Opening(place)  == IF place = "nopal" THEN "open_nopal" ELSE "open_beislid"
StopOr(c, condition, pc) == Goto(c, IF condition THEN pc ELSE "stopped")

(***************************************************************************)
(* launch::plan                                                            *)
(***************************************************************************)

\* Which of the three planners runs; the second plan comes back here.
Look(c) ==
    /\ At(c, "look")
    /\ Goto(c, IF legacy THEN "stopped"
               ELSE IF at["nopal"] # Absent
                    THEN IF \A name \in Names : File(PlaceOf(name), name) # Absent THEN "gates" ELSE "stopped"
               ELSE IF at["beislid"] # Absent THEN "stopped"
               ELSE "preview")
    /\ UNCHANGED <<disk, disturbances>>

\* plan_without_nopal.  A launch that has already published comes here when
\* the directories are gone again, and a preview in order is then enough.
Preview(c) ==
    /\ At(c, "preview")
    /\ launch' = [launch EXCEPT
           ![c].planned = IF launch[c].created THEN @ ELSE evidence,
           ![c].judged = IF launch[c].created THEN "preview" ELSE @,
           ![c].pc = IF launch[c].created
                     THEN IF evidence \in Ready THEN "preflight" ELSE "stopped"
                     ELSE IF evidence \in Blocked THEN "stopped" ELSE "reject"]
    /\ UNCHANGED <<disk, disturbances>>

\* plan_configured: validation, and gates that are explicit or the generated
\* ones of today's evidence ...
JudgeGates(c) ==
    LET gates == File("nopal", "gates.jsonc")
    IN  /\ At(c, "gates")
        /\ StopOr(c, /\ \A name \in {"nopal.jsonc", "policy.jsonc"} : SameText(File("nopal", name), name, "fixed")
                     /\ \/ SameText(gates, "gates.jsonc", "explicit")
                        \/ evidence \in Ready /\ SameText(gates, "gates.jsonc", evidence),
                  "bundle")
        /\ UNCHANGED <<disk, disturbances>>

\* ... then the contract and the lock, each with its single link.
Links(dir, name) == Cardinality({n \in DOMAIN entries[dir] : entries[dir][n] = entries[dir][name]})

ReadBundle(c) ==
    LET file == File("nopal", "bundle.jsonc")
    IN  /\ At(c, "bundle")
        /\ IF file # Absent /\ file # Partial /\ Links(at["nopal"], "bundle.jsonc") = 1
           THEN launch' = [launch EXCEPT ![c].bundle = file.from, ![c].pc = "lock"]
           ELSE Goto(c, "stopped")
        /\ UNCHANGED <<disk, disturbances>>

JudgeLock(c) ==
    LET file == File("nopal", "nopal.lock")
    IN  /\ At(c, "lock")
        /\ IF /\ SameText(file, "nopal.lock", VersionOf[c]) /\ launch[c].bundle = VersionOf[c]
              /\ Links(at["nopal"], "nopal.lock") = 1
           THEN launch' = [launch EXCEPT ![c].judged = "files", ![c].pc = "preflight"]
           ELSE Goto(c, "stopped")
        /\ UNCHANGED <<disk, disturbances>>

\* plan_for_intent reads policy and gates once more before the run is opened.
Preflight(c) ==
    /\ At(c, "preflight")
    /\ StopOr(c, /\ SameText(File("nopal", "policy.jsonc"), "policy.jsonc", "fixed")
                 /\ File("nopal", "gates.jsonc") \notin {Absent, Partial}
                 /\ File("nopal", "gates.jsonc").from # "foreign",
              "session")
    /\ UNCHANGED <<disk, disturbances>>

(***************************************************************************)
(* scaffold::write_planned_baseline                                        *)
(***************************************************************************)

RejectExisting(c) ==
    /\ At(c, "reject")
    /\ StopOr(c, ~legacy /\ \A p \in Places : at[p] = Absent, "claim_nopal")
    /\ UNCHANGED <<disk, disturbances>>

\* Mutant: a directory that exists will do.
Claim_Joins(c, place) ==
    /\ At(c, Claiming(place))
    /\ IF at[place] # Absent
       THEN UNCHANGED disk
       ELSE /\ made < MaxDirs
            /\ made' = made + 1
            /\ at' = [at EXCEPT ![place] = made + 1]
            /\ UNCHANGED <<stashed, entries, legacy, evidence>>
    /\ Goto(c, Opening(place))
    /\ UNCHANGED disturbances

\* create_dir is exclusive ...
Claim(c, place) ==
    /\ At(c, Claiming(place))
    /\ IF at[place] # Absent
       THEN Goto(c, "stopped") /\ UNCHANGED disk
       ELSE /\ made < MaxDirs
            /\ made' = made + 1
            /\ at' = [at EXCEPT ![place] = made + 1]
            /\ Goto(c, Opening(place))
            /\ UNCHANGED <<stashed, entries, legacy, evidence>>
    /\ UNCHANGED disturbances

\* ... the handle is opened by path afterwards.
Open(c, place) ==
    /\ At(c, Opening(place))
    /\ launch' = [launch EXCEPT
           ![c].dirs[place] = at[place],
           ![c].pc = IF at[place] = Absent THEN "stopped"
                     ELSE IF place = "nopal" THEN "claim_beislid" ELSE "recheck"]
    /\ UNCHANGED <<disk, disturbances>>

RejectLegacy(c) ==
    /\ At(c, "recheck")
    /\ StopOr(c, ~legacy, "create")
    /\ UNCHANGED <<disk, disturbances>>

Name(c) == Files[launch[c].next]
Dir(c) == launch[c].dirs[PlaceOf(Name(c))]
Put(c, name, file) == entries' = [entries EXCEPT ![Dir(c)][name] = file]
OnlyEntries(c) == UNCHANGED <<at, stashed, legacy, evidence, made, disturbances>>

CreateTemporary(c) ==
    /\ At(c, "create")
    /\ Put(c, c, Partial) /\ Goto(c, "fill") /\ OnlyEntries(c)

FillTemporary(c) ==
    /\ At(c, "fill")
    /\ Put(c, c, Text(Name(c), Generated(c, Name(c)), c)) /\ Goto(c, "link") /\ OnlyEntries(c)

\* Mutant: the temporary is renamed over whatever is there.
LinkFile_Renames(c) ==
    /\ At(c, "link")
    /\ Put(c, Name(c), entries[Dir(c)][c]) /\ Goto(c, "unlink")
    /\ OnlyEntries(c)

\* The hard link refuses a destination that exists; the temporary stays then.
LinkFile(c) ==
    /\ At(c, "link")
    /\ IF entries[Dir(c)][Name(c)] # Absent
       THEN Goto(c, "stopped") /\ UNCHANGED entries
       ELSE Put(c, Name(c), entries[Dir(c)][c]) /\ Goto(c, "unlink")
    /\ OnlyEntries(c)

DropTemporary(c) ==
    /\ At(c, "unlink")
    /\ Put(c, c, Absent)
    /\ launch' = [launch EXCEPT ![c].next = IF @ = Len(Files) THEN @ ELSE @ + 1,
                                ![c].pc = IF launch[c].next = Len(Files) THEN "verify" ELSE "create"]
    /\ OnlyEntries(c)

\* verify_complete: the paths still lead to the claimed directories ...
VerifyPlaces(c) ==
    /\ At(c, "verify")
    /\ StopOr(c, ~legacy /\ at = launch[c].dirs, "verify_files")
    /\ UNCHANGED <<disk, disturbances>>

\* ... which hold the baseline and nothing else.
VerifyFiles(c) ==
    /\ At(c, "verify_files")
    /\ IF \A p \in Places : \A n \in Names \cup Launches :
             LET file == entries[launch[c].dirs[p]][n]
             IN  IF n \in Names /\ PlaceOf(n) = p THEN SameText(file, n, Generated(c, n)) ELSE file = Absent
       THEN launch' = [launch EXCEPT ![c].created = TRUE, ![c].pc = "look"]
       ELSE Goto(c, "stopped")
    /\ UNCHANGED <<disk, disturbances>>

(***************************************************************************)
(* Around the launches                                                     *)
(***************************************************************************)

Disturbed == disturbances < MaxDisturbances /\ disturbances' = disturbances + 1

Crash(c) ==
    /\ Disturbed /\ launch[c].pc \notin {"stopped", "session"}
    /\ Goto(c, "stopped")
    /\ UNCHANGED disk

\* git stash -u, and git stash pop when nothing is in the way
PutAway ==
    /\ Disturbed /\ at # [p \in Places |-> Absent] /\ stashed = [p \in Places |-> Absent]
    /\ stashed' = at /\ at' = [p \in Places |-> Absent]
    /\ UNCHANGED <<entries, legacy, evidence, launch, made>>

BringBack ==
    /\ Disturbed /\ stashed # [p \in Places |-> Absent] /\ at = [p \in Places |-> Absent]
    /\ at' = stashed /\ stashed' = [p \in Places |-> Absent]
    /\ UNCHANGED <<entries, legacy, evidence, launch, made>>

OutsiderWrites ==
    /\ Disturbed
    /\ \E name \in Names, from \in {"foreign", "explicit"} :
          /\ from = "explicit" => name = "gates.jsonc"
          /\ at[PlaceOf(name)] # Absent
          /\ entries' = [entries EXCEPT ![at[PlaceOf(name)]][name] = Text(name, from, Outsider)]
    /\ UNCHANGED <<at, stashed, legacy, evidence, launch, made>>

OutsiderMakesDirectory ==
    /\ Disturbed /\ made < MaxDirs
    /\ \E p \in Places : at[p] = Absent /\ at' = [at EXCEPT ![p] = made + 1]
    /\ made' = made + 1
    /\ UNCHANGED <<stashed, entries, legacy, evidence, launch>>

LegacyAppears ==
    /\ Disturbed /\ ~legacy
    /\ legacy' = TRUE
    /\ UNCHANGED <<at, stashed, entries, evidence, launch, made>>

EvidenceChanges ==
    /\ Disturbed
    /\ evidence' \in Evidence \ {evidence}
    /\ UNCHANGED <<at, stashed, entries, legacy, launch, made>>

(***************************************************************************)
(* The specification                                                       *)
(***************************************************************************)

Plan(c) == Look(c) \/ Preview(c) \/ JudgeGates(c) \/ ReadBundle(c) \/ JudgeLock(c) \/ Preflight(c)
Publish(c) ==
    \/ RejectExisting(c) \/ RejectLegacy(c)
    \/ \E p \in Places : Claim(c, p) \/ Open(c, p)
    \/ CreateTemporary(c) \/ FillTemporary(c) \/ LinkFile(c) \/ DropTemporary(c)
    \/ VerifyPlaces(c) \/ VerifyFiles(c)

User == PutAway \/ BringBack \/ OutsiderWrites \/ OutsiderMakesDirectory \/ LegacyAppears \/ EvidenceChanges

Next == (\E c \in Launches : Plan(c) \/ Publish(c) \/ Crash(c)) \/ User

Spec == Init /\ [][Next]_vars

(***************************************************************************)
(* Properties                                                              *)
(***************************************************************************)

Locations == {"look", "preview", "gates", "bundle", "lock", "preflight", "reject", "claim_nopal", "open_nopal",
              "claim_beislid", "open_beislid", "recheck", "create", "fill", "link", "unlink", "verify",
              "verify_files", "stopped", "session"}

\* Every variable keeps its type, and a launch that writes holds a directory
\* for both places: AuthorityOwnership::acquire of scaffold.rs.
TypeOK ==
    /\ \A p \in Places : at[p] \in (1 .. made) \cup {Absent} /\ stashed[p] \in (1 .. made) \cup {Absent}
    /\ legacy \in BOOLEAN /\ evidence \in Evidence
    /\ made \in 0 .. MaxDirs /\ disturbances \in 0 .. MaxDisturbances
    /\ \A c \in Launches :
          /\ launch[c].pc \in Locations /\ launch[c].next \in DOMAIN Files
          /\ launch[c].pc \in {"create", "fill", "link", "unlink", "verify", "verify_files"} =>
                \A p \in Places : launch[c].dirs[p] \in 1 .. made

\* Whatever a launch does, and whoever races with it, no file under its real
\* name ever changes or goes away, and a new one appears whole: "cleanup never
\* deletes concurrent bytes", readers see absence or the complete file.
FilesAppearOnce ==
    [][disturbances' = disturbances =>
          \A d \in 1 .. MaxDirs, n \in Names :
              /\ entries[d][n] # Absent => entries'[d][n] = entries[d][n]
              /\ entries'[d][n] # Partial]_vars

\* Left alone by the user, racing first launches of any versions have exactly
\* one author: once nobody is writing, one launch has published all six files,
\* unless detection stopped them all before the first write.
WinnerTakesAll ==
    disturbances = 0 /\ (\A c \in Launches : launch[c].created \/ At(c, "stopped") \/ At(c, "session")) =>
        IF made = 0 THEN evidence \in Blocked
        ELSE \E c \in Launches :
                /\ launch[c].created /\ \A other \in Launches \ {c} : ~launch[other].created
                /\ \A n \in Names : File(PlaceOf(n), n).by = c

\* A session that starts right after its launch published the baseline was
\* judged on the files on disk: "re-runs this same planner against the
\* committed bytes.  That second validation, not the write itself, is the
\* launch gate" (dispatch_launch).
SessionJudgedFiles ==
    \A c \in Launches : At(c, "session") => launch[c].judged = "files"
=============================================================================
