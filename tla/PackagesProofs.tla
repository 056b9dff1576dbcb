--------------------------- MODULE PackagesProofs ---------------------------
(***************************************************************************)
(* Proofs about Packages, for any projects, contracts, locks, packages,    *)
(* registry answers and disturbances: what the store holds, what a session *)
(* can rely on, what a report of update says and what a sync repairs.      *)
(*                                                                         *)
(* The mutation lock makes one command at a time the only one that moves   *)
(* packages (LockDiscipline).  What it moves aside is damaged or nothing,  *)
(* and what it puts there is the archive's tree (Placing): the lock pins   *)
(* the archive by its integrity, and a package is moved only when it is    *)
(* not what the lock pins.  As long as nothing happens around a sync, its  *)
(* copies of contract and lock are the ones on disk (Undisturbed) and the  *)
(* packages it is done with stay as the lock pins them (Repaired).         *)
(***************************************************************************)
EXTENDS Packages, WellFoundedInduction, TLAPS

Fields == {"pc", "kind", "project", "write", "text", "pinned", "todo", "evidence", "failed",
           "proposal", "tree", "old", "changed", "report"}

\* The places where a command holds the mutation lock, if it is one that takes it.
Guarded(c) == cmd[c].kind \in {"update", "sync"} /\ cmd[c].pc \notin {"idle", "acquire"}

Moving(c) == cmd[c].pc \in {"displace", "install"}
Syncing(c) == cmd[c].kind = "sync" /\ cmd[c].pc \notin {"idle", "acquire", "read", "read_lock"}

\* What a sync has for the i-th package of its contract.
Pinned(c, i) == LockedAs(cmd[c].pinned, cmd[c].text.packages[i].id)

Disk ==
    /\ bundle \in [Projects -> Contracts \cup {Broken, Absent}]
    /\ lock = [p \in Projects |-> lock[p]]
    /\ store = [id \in Identities |-> store[id]]
    /\ \A id \in Identities : store[id] \in {ArchiveOf(id[3]), Absent} \cup Damage
    /\ registry = [k \in Keys |-> registry[k]]
    /\ \A k \in Keys : registry[k] \in Answers[k] \cup {Absent}
    /\ cmd = [c \in Commands |-> cmd[c]]
    /\ calm \in [Commands -> BOOLEAN]
    /\ begins \in 0 .. MaxBegins /\ disturbances \in 0 .. MaxDisturbances

LockDiscipline ==
    /\ holder \in Commands \cup {Free}
    /\ \A c \in Commands : holder = c <=> Guarded(c)

\* Which command is at which of its steps; only one that is over has a report.
Errand(c) ==
    /\ DOMAIN cmd[c] = Fields
    /\ cmd[c].pc \in Locations
    /\ At(c, "idle") => cmd[c].kind = "none"
    /\ ~At(c, "idle") => cmd[c].project \in Projects /\ cmd[c].report = NoReport
    /\ cmd[c].pc \in {"acquire", "read"} => cmd[c].kind \in {"update", "sync"}
    /\ cmd[c].pc \in {"resolve", "recheck", "rebuild", "publish", "reread", "confirm"} => cmd[c].kind = "update"
    /\ cmd[c].pc \in {"read_lock", "check", "displace", "install"} => cmd[c].kind = "sync"
    /\ cmd[c].pc \in {"look", "session"} => cmd[c].kind = "launch"
    /\ cmd[c].pc \in {"look_lock", "look_trees"} => cmd[c].kind \in {"launch", "sync"}

\* The lock that update has built is that of the contract it has read, which
\* is one.
Proposed(c) ==
    cmd[c].pc \in {"resolve", "recheck", "rebuild", "publish", "reread", "confirm"} =>
        /\ cmd[c].text \notin {Absent, Broken}
        /\ ~At(c, "resolve") => cmd[c].proposal.digest = Digest(cmd[c].text)

\* What a sync knows of the packages it goes through.
Matched(c) ==
    /\ At(c, "read_lock") => cmd[c].text \in Contracts \cup {Broken}
    /\ At(c, "check") \/ Moving(c) =>
          /\ cmd[c].text \in Contracts /\ cmd[c].todo \subseteq Requests(cmd[c].text)
          /\ \A i \in Requests(cmd[c].text) : Pinned(c, i).package = cmd[c].text.packages[i].package
    /\ Moving(c) => cmd[c].todo # {}
    /\ cmd[c].kind = "sync" /\ cmd[c].pc \in {"look_lock", "look_trees"} => cmd[c].todo = {}

\* What is moved aside is damaged or nothing, what comes is the archive's tree.
Placing(c) ==
    Moving(c) =>
        LET id == Identity(Current(c))
        IN  /\ id \in Identities /\ cmd[c].tree = ArchiveOf(id[3])
            /\ id \in damaged \/ store[id] = Absent
            /\ At(c, "install") => /\ cmd[c].old \in {ArchiveOf(id[3]), Absent} \cup Damage
                                   /\ id \in damaged \/ cmd[c].old = Absent

\* A session's packages are in the store, as they were checked.
Kept(c) ==
    At(c, "session") =>
        \A q \in Elements(cmd[c].pinned.packages) : q.kind = "npm" =>
            /\ Identity(q) \in Identities
            /\ Identity(q) \notin damaged /\ IsExact(ArchiveOf(q.artifact), q) => IsExact(Stored(Identity(q)), q)

\* As long as nothing happens around it, a sync has read what is on disk.
Undisturbed(c) ==
    calm[c] =>
        /\ Syncing(c) \/ At(c, "read_lock") => cmd[c].text = bundle[cmd[c].project]
        /\ Syncing(c) => cmd[c].pinned = lock[cmd[c].project]

\* What it is done with is as the lock pins it, and not what it moves now.
Repaired(c) ==
    calm[c] /\ Syncing(c) /\ Repairable(cmd[c].project) =>
        \A i \in Requests(cmd[c].text) \ cmd[c].todo :
            /\ IsExact(Stored(Identity(Pinned(c, i))), Pinned(c, i))
            /\ Moving(c) => Identity(Pinned(c, i)) # Identity(Current(c))

Sound(c) ==
    Errand(c) /\ Proposed(c) /\ Matched(c) /\ Placing(c) /\ Kept(c) /\ Undisturbed(c) /\ Repaired(c)

IInv == Disk /\ LockDiscipline /\ StoreHoldsArchives /\ \A c \in Commands : Sound(c)

-----------------------------------------------------------------------------
(* What an inspection says. *)

\* In a lock without duplicates a package is found by its identifier.
LEMMA LockedIsUnique ==
    ASSUME NEW l, LockCodes(l) = {}, NEW q \in Elements(l.packages)
    PROVE  LockedAs(l, q.id) = q
  <1>1. ~Repeats([i \in DOMAIN l.packages |-> l.packages[i].id])
    BY DEF LockCodes, If
  <1>2. ASSUME NEW p \in Elements(l.packages), p.id = q.id PROVE p = q
    <2>1. PICK i \in DOMAIN l.packages : p = l.packages[i]
      BY DEF Elements
    <2>2. PICK j \in DOMAIN l.packages : q = l.packages[j]
      BY DEF Elements
    <2>3. i = j
      BY <1>1, <1>2, <2>1, <2>2 DEF Repeats
    <2> QED BY <2>1, <2>2, <2>3
  <1> QED BY <1>2 DEF LockedAs

LEMMA LockedIsFound ==
    ASSUME NEW l, NEW id, id \in {q.id : q \in Elements(l.packages)}
    PROVE  LockedAs(l, id) \in Elements(l.packages) /\ LockedAs(l, id).id = id
  BY DEF LockedAs

\* What an inspection without errors has seen.
LEMMA InspectedClean ==
    ASSUME NEW w, NEW b, NEW l, InspectCodes(w, b, l) = {}
    PROVE  /\ b # Broken /\ LockCodes(l) = {} /\ BundleCodes(b) = {}
           /\ l.digest = Digest(b)
           /\ {r.id : r \in Elements(b.packages)} = {q.id : q \in Elements(l.packages)}
           /\ \A r \in Elements(b.packages) : PackageCodes(w, r, LockedAs(l, r.id)) = {}
           /\ ~SharedExport(b)
  <1>1. BundleCodes(b) = {} /\ LockCodes(l) = {}
    BY DEF InspectCodes
  <1>2. b # Broken
    BY <1>1 DEF BundleCodes
  <1> DEFINE asked == {r.id : r \in Elements(b.packages)}
             held == {q.id : q \in Elements(l.packages)}
             packages == UNION {PackageCodes(w, r, LockedAs(l, r.id)) : r \in {r \in Elements(b.packages) : r.id \in held}}
  <1>3. InspectCodes(w, b, l) = BundleCodes(b) \cup If(l.digest # Digest(b), "lock_drift")
                                \cup If(asked # held, "lock_drift")
                                \cup If(SharedExport(b), "package_invalid") \cup packages
    BY <1>1, <1>2 DEF InspectCodes
  <1>4. /\ If(l.digest # Digest(b), "lock_drift") = {} /\ If(asked # held, "lock_drift") = {} /\ packages = {}
        /\ If(SharedExport(b), "package_invalid") = {}
    <2> HIDE DEF packages, asked, held
    <2> QED BY <1>3, Zenon
  <1>5. l.digest = Digest(b) /\ asked = held /\ ~SharedExport(b)
    <2> HIDE DEF asked, held
    <2> QED BY <1>4 DEF If
  <1>6. \A r \in Elements(b.packages) : r.id \in held
    BY <1>5
  <1>7. \A r \in Elements(b.packages) : PackageCodes(w, r, LockedAs(l, r.id)) = {}
    <2> HIDE DEF asked, held
    <2> QED BY <1>4, <1>6
  <1> QED BY <1>1, <1>2, <1>5, <1>7

LEMMA CleanInspected ==
    ASSUME NEW w, NEW b, NEW l, b # Broken, LockCodes(l) = {}, BundleCodes(b) = {},
           l.digest = Digest(b), ~SharedExport(b),
           {r.id : r \in Elements(b.packages)} = {q.id : q \in Elements(l.packages)}
    PROVE  InspectCodes(w, b, l) = UNION {PackageCodes(w, r, LockedAs(l, r.id)) : r \in Elements(b.packages)}
  <1> DEFINE asked == {r.id : r \in Elements(b.packages)}
             held == {q.id : q \in Elements(l.packages)}
             Codes(r) == PackageCodes(w, r, LockedAs(l, r.id))
             packages == UNION {Codes(r) : r \in {r \in Elements(b.packages) : r.id \in held}}
  <1>1. InspectCodes(w, b, l) = BundleCodes(b) \cup If(l.digest # Digest(b), "lock_drift")
                                \cup If(asked # held, "lock_drift")
                                \cup If(SharedExport(b), "package_invalid") \cup packages
    BY DEF InspectCodes
  <1>2. packages = UNION {Codes(r) : r \in Elements(b.packages)}
    <2> HIDE DEF Codes
    <2>1. {r \in Elements(b.packages) : r.id \in held} = Elements(b.packages)
      OBVIOUS
    <2> QED BY <2>1
  <1>3. If(l.digest # Digest(b), "lock_drift") = {} /\ If(asked # held, "lock_drift") = {}
        /\ If(SharedExport(b), "package_invalid") = {}
    <2> HIDE DEF asked, held
    <2>1. asked = held
      BY DEF asked, held
    <2> QED BY <2>1 DEF If
  <1>4. InspectCodes(w, b, l) = packages
    <2> HIDE DEF packages, asked, held
    <2> QED BY <1>1, <1>3
  <1> HIDE DEF packages
  <1> QED BY <1>2, <1>4

\* An npm package that passes is installed as the lock pins it.
LEMMA PassingIsExact ==
    ASSUME NEW w, NEW r, NEW p, r.kind = "npm", PackageCodes(w, r, p) = {}
    PROVE  /\ p.kind = "npm" /\ p.package = r.package /\ p.where = r.where /\ p.resolved = r.requirement
           /\ Identity(p) \in DOMAIN w.store /\ w.store[Identity(p)] # Absent
           /\ w.store[Identity(p)].name = r.package /\ w.store[Identity(p)].version = p.resolved
           /\ {[kind |-> x.kind, path |-> x.path] : x \in Elements(r.resources)}
                 = {[kind |-> x.kind, path |-> x.path] : x \in p.resources}
           /\ HashTree(w.store[Identity(p)]) # Absent
           /\ IsExact(w.store[Identity(p)], p)
  <1> DEFINE tree == InstalledTree(w, r, p)
  <1>1. <<p.kind, p.package, p.where>> = <<r.kind, r.package, r.where>> /\ r.requirement = p.resolved
    BY DEF PackageCodes
  <1>2. tree # Absent
    BY <1>1 DEF PackageCodes
  <1>3. Identity(p) \in DOMAIN w.store /\ tree = w.store[Identity(p)]
    BY <1>2 DEF InstalledTree
  <1>4. tree.name = r.package /\ tree.version = p.resolved
    BY <1>1, <1>2 DEF PackageCodes
  <1>5. TreeHash(w, r, tree) # Absent /\ TreeHash(w, r, tree) = p.tree
    BY <1>1, <1>2, <1>4 DEF PackageCodes
  <1>6. {[kind |-> x.kind, path |-> x.path] : x \in Elements(r.resources)}
           = {[kind |-> x.kind, path |-> x.path] : x \in p.resources}
        /\ ResourceCodes(tree, p) = {}
    BY <1>1, <1>2, <1>4, <1>5 DEF PackageCodes
  <1>7. \A x \in p.resources : HashAt(tree, x.path) = x.hash
    BY <1>6 DEF ResourceCodes, If
  <1>8. HashTree(tree) # Absent /\ HashTree(tree) = p.tree
    BY <1>5 DEF TreeHash
  <1> HIDE DEF tree
  <1> QED BY <1>1, <1>2, <1>3, <1>4, <1>6, <1>7, <1>8 DEF IsExact

\* Inspecting a package looks at the builtin distribution and at its own tree.
LEMMA SameTreeSameCodes ==
    ASSUME NEW w, NEW v, NEW r, NEW p, w.builtin = v.builtin, InstalledTree(w, r, p) = InstalledTree(v, r, p)
    PROVE  PackageCodes(w, r, p) = PackageCodes(v, r, p)
  <1>1. HashBuiltin(w, r) = HashBuiltin(v, r)
    BY DEF HashBuiltin
  <1>2. \A tree : TreeHash(w, r, tree) = TreeHash(v, r, tree)
    BY <1>1 DEF TreeHash
  <1> QED BY <1>2 DEF PackageCodes

\* A failed export is a matter of what is installed.
LEMMA ResourceCodesRange ==
    ASSUME NEW tree, NEW p
    PROVE  ResourceCodes(tree, p) \subseteq {"package_missing", "integrity_mismatch"}
  BY DEF ResourceCodes, If

\* What an npm package that passes in one store is in another: exact and
\* passing, or wrong in a way that installing it puts right.
LEMMA OtherStore ==
    ASSUME NEW w, NEW v, w.builtin = v.builtin, NEW r, NEW p, r.kind = "npm", PackageCodes(v, r, p) = {}
    PROVE  /\ PackageCodes(w, r, p) \subseteq {"package_invalid", "package_missing", "integrity_mismatch"}
           /\ Identity(p) \in DOMAIN w.store /\ IsExact(w.store[Identity(p)], p) => PackageCodes(w, r, p) = {}
  <1>1. /\ p.kind = "npm" /\ p.package = r.package /\ p.where = r.where /\ p.resolved = r.requirement
        /\ Identity(p) \in DOMAIN v.store
        /\ {[kind |-> x.kind, path |-> x.path] : x \in Elements(r.resources)}
              = {[kind |-> x.kind, path |-> x.path] : x \in p.resources}
        /\ HashTree(v.store[Identity(p)]) # Absent /\ HashTree(v.store[Identity(p)]) = p.tree
    <2> HIDE DEF Identity
    <2> QED BY PassingIsExact DEF IsExact
  <1>2. ResourceCodes(InstalledTree(w, r, p), p) \subseteq {"package_missing", "integrity_mismatch"}
    BY ResourceCodesRange
  <1>3. PackageCodes(w, r, p) \subseteq {"package_invalid", "package_missing", "integrity_mismatch"}
    BY <1>1, <1>2 DEF PackageCodes
  <1>4. ASSUME Identity(p) \in DOMAIN w.store, IsExact(w.store[Identity(p)], p) PROVE PackageCodes(w, r, p) = {}
    <2>1. HashTree(w.store[Identity(p)]) = HashTree(v.store[Identity(p)])
      BY <1>1, <1>4 DEF IsExact
    <2>2. w.store[Identity(p)] = v.store[Identity(p)]
      BY <1>1, <2>1 DEF HashTree
    <2>3. InstalledTree(w, r, p) = InstalledTree(v, r, p)
      BY <1>1, <1>4, <2>2 DEF InstalledTree
    <2> QED BY <2>3, SameTreeSameCodes
  <1> QED BY <1>3, <1>4

\* An archive has one tree.
LEMMA ArchiveIsFixed ==
    ASSUME NEW k \in Keys, NEW a \in Answers[k]
    PROVE  a.tree = ArchiveOf(a.artifact)
  <1> DEFINE all == UNION {Answers[l] : l \in Keys}
             b == CHOOSE b \in all : b.artifact = a.artifact
  <1>1. a \in all
    OBVIOUS
  <1>2. b \in all /\ b.artifact = a.artifact
    BY <1>1
  <1>3. PICK l \in Keys : b \in Answers[l]
    BY <1>2
  <1>4. a.tree = b.tree
    <2> HIDE DEF b
    <2> QED BY <1>2, <1>3, IntegrityAssumption
  <1> QED BY <1>4 DEF ArchiveOf

\* A command's next package is one of those it has left.
LEMMA NextPackage ==
    ASSUME NEW text \in Contracts, NEW S \in SUBSET Requests(text), S # {}
    PROVE  First(S) \in S
  <1>1. text.packages \in Seq(Elements(text.packages))
    BY ConstantsAssumption
  <1>2. S \subseteq Nat
    BY <1>1 DEF Requests
  <1>3. PICK i \in S : \A j \in S : ~(<<j, i>> \in OpToRel(<, Nat))
    BY <1>2, NatLessThanWellFounded, WFMin, Zenon
  <1>4. ASSUME NEW j \in S PROVE i <= j
    <2>1. i \in Nat /\ j \in Nat
      BY <1>2
    <2>2. j < i => <<j, i>> \in OpToRel(<, Nat)
      BY <2>1 DEF OpToRel
    <2>3. ~(j < i)
      BY <1>3, <2>2, Zenon
    <2> QED BY <2>1, <2>3
  <1> QED BY <1>4 DEF First

-----------------------------------------------------------------------------
(* What a step does not touch. *)

\* Whether installing helps does not depend on what is installed.
LEMMA StillRepairable ==
    ASSUME NEW c, cmd'[c].project = cmd[c].project, UNCHANGED <<bundle, lock, workspace, registry>>
    PROVE  Repairable(cmd[c].project)' <=> Repairable(cmd[c].project)
  <1>1. SUFFICES ASSUME NEW p, p = cmd[c].project, p = cmd'[c].project
                 PROVE  Repairable(p)' <=> Repairable(p)
    BY <1>1
  <1>2. \A r, q : Fetched(r, q)' = Fetched(r, q)
    BY DEF Fetched, Answered
  <1> DEFINE Ideal(w) == [w EXCEPT !.store = [id \in Identities |-> ArchiveOf(id[3])]]
  <1>3. Ideal(World(p))' = Ideal(World(p))
    BY DEF World
  <1>4. InspectCodes(Ideal(World(p)), bundle[p], lock[p])' = InspectCodes(Ideal(World(p)), bundle[p], lock[p])
    BY <1>3
  <1> HIDE DEF Ideal
  <1> QED BY <1>2, <1>4 DEF Repairable, Ideal

\* A command that does not move keeps what it knows when nothing else moves.
LEMMA SameCommand ==
    ASSUME NEW c \in Commands, cmd'[c] = cmd[c]
    PROVE  /\ Current(c)' = Current(c) /\ \A i : Pinned(c, i)' = Pinned(c, i)
           /\ Errand(c)' <=> Errand(c)
           /\ Proposed(c)' <=> Proposed(c)
           /\ Matched(c)' <=> Matched(c)
           /\ Moving(c)' <=> Moving(c)
           /\ Syncing(c)' <=> Syncing(c)
           /\ Guarded(c)' <=> Guarded(c)
  <1>1. Current(c)' = Current(c) /\ \A i : Pinned(c, i)' = Pinned(c, i)
    BY DEF Current, Asked, Pinned
  <1>2. (Moving(c)' <=> Moving(c)) /\ (Syncing(c)' <=> Syncing(c)) /\ (Guarded(c)' <=> Guarded(c))
    BY DEF Moving, Syncing, Guarded
  <1>3. (Errand(c)' <=> Errand(c)) /\ (Proposed(c)' <=> Proposed(c))
    BY DEF Errand, Proposed, At
  <1>4. Matched(c)' <=> Matched(c)
    BY <1>1, <1>2 DEF Matched, At
  <1> QED BY <1>1, <1>2, <1>3, <1>4

LEMMA Untouched ==
    ASSUME NEW c \in Commands, Sound(c), cmd'[c] = cmd[c], calm'[c] => calm[c], UNCHANGED <<world, damaged>>
    PROVE  Sound(c)'
  <1>1. bundle' = bundle /\ lock' = lock /\ store' = store /\ damaged' = damaged
    BY DEF world
  <1>2. \A id : Stored(id)' = Stored(id)
    BY <1>1 DEF Stored
  <1>3. Errand(c)' /\ Proposed(c)' /\ Matched(c)'
    BY SameCommand DEF Sound
  <1>4. Placing(c)'
    BY <1>1, SameCommand DEF Sound, Placing, At
  <1>5. Kept(c)'
    BY <1>1, <1>2, SameCommand DEF Sound, Kept, At
  <1>6. Undisturbed(c)'
    BY <1>1, SameCommand DEF Sound, Undisturbed, At
  <1>7. Repaired(c)'
    <2>1. Repairable(cmd[c].project)' <=> Repairable(cmd[c].project)
      BY StillRepairable DEF world
    <2> QED BY <1>2, <2>1, SameCommand DEF Sound, Repaired
  <1> QED BY <1>3, <1>4, <1>5, <1>6, <1>7 DEF Sound

-----------------------------------------------------------------------------
(* Steps that leave the disk and the registry alone. *)

Others(d) ==
    \A c \in Commands \ {d} : cmd'[c] = cmd[c] /\ (calm'[c] => calm[c])

LEMMA CommandMoves ==
    ASSUME IInv, NEW d \in Commands, NEW v, cmd' = [cmd EXCEPT ![d] = v]
    PROVE  /\ cmd' = [c \in Commands |-> cmd'[c]] /\ cmd'[d] = v
           /\ \A c \in Commands \ {d} : cmd'[c] = cmd[c]
  <1>1. cmd = [c \in Commands |-> cmd[c]]
    BY DEF IInv, Disk
  <1> QED BY <1>1

LEMMA QuietStep ==
    ASSUME IInv, NEW d \in Commands, Others(d), UNCHANGED <<world, damaged>>,
           cmd' = [c \in Commands |-> cmd'[c]], calm' \in [Commands -> BOOLEAN],
           begins' \in 0 .. MaxBegins, disturbances' \in 0 .. MaxDisturbances,
           \/ holder' = holder /\ (Guarded(d)' <=> Guarded(d))
           \/ holder' = (IF holder = d THEN Free ELSE holder) /\ ~Guarded(d)'
           \/ holder = Free /\ holder' = d /\ Guarded(d)',
           Sound(d)'
    PROVE  IInv'
  <1>1. bundle' = bundle /\ lock' = lock /\ store' = store /\ registry' = registry /\ damaged' = damaged
    BY DEF world
  <1>2. Disk'
    BY <1>1 DEF IInv, Disk
  <1>3. LockDiscipline'
    <2>1. \A c \in Commands \ {d} : Guarded(c)' <=> Guarded(c)
      BY SameCommand DEF Others
    <2>2. Free \notin Commands
      BY ConstantsAssumption
    <2> QED BY <2>1, <2>2 DEF IInv, LockDiscipline
  <1>4. StoreHoldsArchives'
    BY <1>1 DEF IInv, StoreHoldsArchives
  <1>5. \A c \in Commands : Sound(c)'
    <2>1. ASSUME NEW c \in Commands \ {d} PROVE Sound(c)'
      BY Untouched DEF IInv, Others
    <2> QED BY <2>1
  <1> QED BY <1>2, <1>3, <1>4, <1>5 DEF IInv

\* A command that is over has nothing to answer for.
LEMMA OverIsSound ==
    ASSUME NEW c \in Commands, DOMAIN cmd'[c] = Fields, cmd'[c].pc = "idle", cmd'[c].kind = "none"
    PROVE  Sound(c)' /\ ~Guarded(c)'
  <1>1. ~Guarded(c)' /\ ~Moving(c)' /\ ~Syncing(c)'
    BY DEF Guarded, Moving, Syncing
  <1>2. Errand(c)' /\ Proposed(c)' /\ Matched(c)'
    BY <1>1 DEF Errand, Proposed, Matched, At, Locations
  <1>3. Placing(c)' /\ Kept(c)' /\ Undisturbed(c)' /\ Repaired(c)'
    BY <1>1 DEF Placing, Kept, Undisturbed, Repaired, At
  <1> QED BY <1>1, <1>2, <1>3 DEF Sound

LEMMA ReportEnds ==
    ASSUME IInv, NEW d \in Commands, NEW ok, NEW wrote, Report(d, ok, wrote)
    PROVE  /\ cmd' = [c \in Commands |-> cmd'[c]] /\ \A c \in Commands \ {d} : cmd'[c] = cmd[c]
           /\ DOMAIN cmd'[d] = Fields /\ cmd'[d].pc = "idle" /\ cmd'[d].kind = "none"
           /\ cmd'[d].report = [by |-> cmd[d].kind, ok |-> ok, wrote |-> wrote]
           /\ Sound(d)' /\ ~Guarded(d)'
  <1> DEFINE v == [Idle EXCEPT !.report = [by |-> cmd[d].kind, ok |-> ok, wrote |-> wrote]]
  <1>1. cmd' = [cmd EXCEPT ![d] = v]
    BY DEF Report
  <1>2. /\ DOMAIN v = Fields /\ v.pc = "idle" /\ v.kind = "none"
        /\ v.report = [by |-> cmd[d].kind, ok |-> ok, wrote |-> wrote]
    BY DEF Idle, Fields
  <1> HIDE DEF v
  <1>3. /\ cmd' = [c \in Commands |-> cmd'[c]] /\ cmd'[d] = v
        /\ \A c \in Commands \ {d} : cmd'[c] = cmd[c]
    BY <1>1, CommandMoves
  <1>4. Sound(d)' /\ ~Guarded(d)'
    BY <1>2, <1>3, OverIsSound
  <1> QED BY <1>2, <1>3, <1>4, Zenon

LEMMA QuietReport ==
    ASSUME IInv, NEW d \in Commands, NEW ok, NEW wrote, Report(d, ok, wrote),
           UNCHANGED <<world, begins, disturbances, damaged>>,
           calm' = calm \/ calm' = [calm EXCEPT ![d] = FALSE]
    PROVE  IInv'
  <1>1. /\ calm' \in [Commands -> BOOLEAN] /\ \A c \in Commands \ {d} : calm'[c] => calm[c]
        /\ begins' \in 0 .. MaxBegins /\ disturbances' \in 0 .. MaxDisturbances
    BY DEF IInv, Disk
  <1>2. Others(d)
    BY <1>1, ReportEnds DEF Others
  <1>3. holder' = IF holder = d THEN Free ELSE holder
    BY DEF Report
  <1> QED BY <1>1, <1>2, <1>3, ReportEnds, QuietStep

\* A command goes on inside its guard, or outside of it.
LEMMA QuietMove ==
    ASSUME IInv, NEW d \in Commands, cmd' = [c \in Commands |-> cmd'[c]],
           \A c \in Commands \ {d} : cmd'[c] = cmd[c],
           cmd'[d].kind = cmd[d].kind, cmd[d].pc \notin {"idle", "acquire"}, cmd'[d].pc \notin {"idle", "acquire"},
           UNCHANGED <<world, holder, begins, disturbances, damaged>>,
           calm' = calm \/ calm' = [calm EXCEPT ![d] = FALSE],
           Sound(d)'
    PROVE  IInv'
  <1>1. /\ calm' \in [Commands -> BOOLEAN] /\ \A c \in Commands \ {d} : calm'[c] => calm[c]
        /\ begins' \in 0 .. MaxBegins /\ disturbances' \in 0 .. MaxDisturbances
    BY DEF IInv, Disk
  <1>2. Others(d)
    BY <1>1 DEF Others
  <1>3. Guarded(d)' <=> Guarded(d)
    BY DEF Guarded
  <1> QED BY <1>1, <1>2, <1>3, QuietStep

LEMMA BeginKeeps ==
    ASSUME IInv, NEW c \in Commands, NEW p \in Projects, NEW kind \in {"update", "sync", "launch"},
           NEW write, Begin(c, p, kind, write)
    PROVE  IInv'
  <1> DEFINE v == [Idle EXCEPT !.kind = kind, !.project = p, !.write = write,
                               !.pc = IF kind = "launch" THEN "look" ELSE "acquire"]
  <1>1. cmd' = [cmd EXCEPT ![c] = v] /\ At(c, "idle") /\ begins < MaxBegins
    BY DEF Begin
  <1>2. /\ DOMAIN v = Fields /\ v.kind = kind /\ v.project = p /\ v.report = NoReport
        /\ v.pc = IF kind = "launch" THEN "look" ELSE "acquire"
    BY DEF Idle, Fields
  <1> HIDE DEF v
  <1>3. /\ cmd' = [x \in Commands |-> cmd'[x]] /\ cmd'[c] = v
        /\ \A x \in Commands \ {c} : cmd'[x] = cmd[x]
    BY <1>1, CommandMoves
  <1>4. /\ calm' \in [Commands -> BOOLEAN] /\ calm'[c] = FALSE /\ \A x \in Commands \ {c} : calm'[x] => calm[x]
        /\ begins' \in 0 .. MaxBegins /\ disturbances' \in 0 .. MaxDisturbances
    <2>1. begins' = begins + 1 /\ disturbances' = disturbances /\ calm' = [calm EXCEPT ![c] = FALSE]
      BY DEF Begin
    <2>2. MaxBegins \in Nat /\ MaxDisturbances \in Nat
      BY ConstantsAssumption
    <2> QED BY <1>1, <2>1, <2>2 DEF IInv, Disk
  <1>5. ~Guarded(c) /\ ~Guarded(c)' /\ ~Moving(c)' /\ ~Syncing(c)'
    BY <1>1, <1>2, <1>3 DEF Guarded, Moving, Syncing, At
  <1>6. Errand(c)' /\ Proposed(c)' /\ Matched(c)'
    BY <1>2, <1>3, <1>5 DEF Errand, Proposed, Matched, At, Locations
  <1>7. Placing(c)' /\ Kept(c)' /\ Undisturbed(c)' /\ Repaired(c)'
    BY <1>2, <1>3, <1>4, <1>5 DEF Placing, Kept, Undisturbed, Repaired, At
  <1>8. Others(c)
    BY <1>3, <1>4 DEF Others
  <1>9. holder' = holder /\ UNCHANGED <<world, damaged>>
    BY DEF Begin
  <1>10. Sound(c)'
    BY <1>6, <1>7 DEF Sound
  <1> QED BY <1>3, <1>4, <1>5, <1>8, <1>9, <1>10, QuietStep

LEMMA AcquireKeeps ==
    ASSUME IInv, NEW c \in Commands, Acquire(c)
    PROVE  IInv'
  <1>1. Errand(c) /\ cmd = [x \in Commands |-> cmd[x]] /\ cmd[c].pc = "acquire" /\ cmd' = [cmd EXCEPT ![c].pc = "read"]
    BY DEF IInv, Disk, Sound, Acquire, At, Goto
  <1>2. /\ cmd' = [x \in Commands |-> cmd'[x]] /\ \A x \in Commands \ {c} : cmd'[x] = cmd[x]
        /\ DOMAIN cmd'[c] = Fields /\ cmd'[c].pc = "read" /\ cmd'[c].kind = cmd[c].kind
        /\ cmd'[c].project = cmd[c].project /\ cmd'[c].report = cmd[c].report
    BY <1>1 DEF Errand, Fields
  <1>3. cmd[c].kind \in {"update", "sync"}
    BY <1>1 DEF Errand
  <1>4. Guarded(c)' /\ ~Moving(c)' /\ ~Syncing(c)'
    BY <1>2, <1>3 DEF Guarded, Moving, Syncing
  <1>5. Errand(c)' /\ Proposed(c)' /\ Matched(c)'
    BY <1>1, <1>2, <1>3, <1>4 DEF Errand, Proposed, Matched, At, Locations
  <1>6. Placing(c)' /\ Kept(c)' /\ Undisturbed(c)' /\ Repaired(c)'
    BY <1>2, <1>4 DEF Placing, Kept, Undisturbed, Repaired, At
  <1>7. Sound(c)'
    BY <1>5, <1>6 DEF Sound
  <1>8. /\ calm' \in [Commands -> BOOLEAN] /\ \A x \in Commands \ {c} : calm'[x] => calm[x]
        /\ begins' \in 0 .. MaxBegins /\ disturbances' \in 0 .. MaxDisturbances
        /\ holder = Free /\ holder' = c /\ UNCHANGED <<world, damaged>>
    BY DEF IInv, Disk, Acquire
  <1>9. Others(c)
    BY <1>2, <1>8 DEF Others
  <1> QED BY <1>2, <1>4, <1>7, <1>8, <1>9, QuietStep

-----------------------------------------------------------------------------
(* nopal update *)

UpdatePlaces == {"read", "resolve", "recheck", "rebuild", "publish", "reread", "confirm"}

\* An update that goes on has only its proposal to answer for.
LEMMA UpdateGoesOn ==
    ASSUME IInv, NEW d \in Commands, cmd' = [c \in Commands |-> cmd'[c]],
           \A c \in Commands \ {d} : cmd'[c] = cmd[c],
           DOMAIN cmd'[d] = Fields, cmd'[d].kind = cmd[d].kind, cmd'[d].project = cmd[d].project,
           cmd'[d].report = cmd[d].report,
           cmd[d].kind = "update", cmd[d].pc \in UpdatePlaces, cmd'[d].pc \in UpdatePlaces \ {"read"},
           cmd'[d].text \notin {Absent, Broken},
           cmd'[d].pc # "resolve" => cmd'[d].proposal.digest = Digest(cmd'[d].text)
    PROVE  /\ Sound(d)'
           /\ UNCHANGED <<world, holder, begins, disturbances, damaged>>
              /\ (calm' = calm \/ calm' = [calm EXCEPT ![d] = FALSE]) => IInv'
  <1>1. Errand(d)
    BY DEF IInv, Sound
  <1>2. ~Moving(d)' /\ ~Syncing(d)'
    BY DEF Moving, Syncing, UpdatePlaces
  <1>3. Errand(d)' /\ Proposed(d)' /\ Matched(d)'
    BY <1>1, <1>2 DEF Errand, Proposed, Matched, At, Locations, UpdatePlaces
  <1>4. Placing(d)' /\ Kept(d)' /\ Undisturbed(d)' /\ Repaired(d)'
    BY <1>2 DEF Placing, Kept, Undisturbed, Repaired, At, UpdatePlaces
  <1>5. Sound(d)'
    BY <1>3, <1>4 DEF Sound
  <1>6. cmd[d].pc \notin {"idle", "acquire"} /\ cmd'[d].pc \notin {"idle", "acquire"}
    BY DEF UpdatePlaces
  <1> QED BY <1>5, <1>6, QuietMove

LEMMA ResolveKeeps ==
    ASSUME IInv, NEW c \in Commands, Resolve(c)
    PROVE  IInv'
  <1>1. Errand(c) /\ cmd = [x \in Commands |-> cmd[x]] /\ cmd[c].pc = "resolve" /\ cmd[c].kind = "update"
    BY DEF IInv, Disk, Sound, Errand, Resolve, At
  <1>2. UNCHANGED <<world, holder, begins, disturbances, damaged>>
        /\ (calm' = calm \/ calm' = [calm EXCEPT ![c] = FALSE])
    BY DEF Resolve
  <1>3. PICK e, f : cmd' = [cmd EXCEPT ![c].todo = Rest(c), ![c].evidence = e, ![c].failed = f]
    <2>1. CASE cmd' = [cmd EXCEPT ![c].todo = Rest(c), ![c].failed = TRUE]
      <3>1. cmd' = [cmd EXCEPT ![c].todo = Rest(c), ![c].evidence = cmd[c].evidence, ![c].failed = TRUE]
        BY <2>1, <1>1 DEF Errand, Fields
      <3> QED BY <3>1
    <2>2. CASE \E e : cmd' = [cmd EXCEPT ![c].todo = Rest(c), ![c].evidence = e]
      <3>1. PICK e : cmd' = [cmd EXCEPT ![c].todo = Rest(c), ![c].evidence = e]
        BY <2>2
      <3>2. cmd' = [cmd EXCEPT ![c].todo = Rest(c), ![c].evidence = e, ![c].failed = cmd[c].failed]
        BY <3>1, <1>1 DEF Errand, Fields
      <3> QED BY <3>2
    <2> QED BY <2>1, <2>2 DEF Resolve
  <1>4. /\ cmd' = [x \in Commands |-> cmd'[x]] /\ \A x \in Commands \ {c} : cmd'[x] = cmd[x]
        /\ DOMAIN cmd'[c] = Fields /\ cmd'[c].pc = "resolve" /\ cmd'[c].kind = cmd[c].kind
        /\ cmd'[c].project = cmd[c].project /\ cmd'[c].report = cmd[c].report /\ cmd'[c].text = cmd[c].text
    BY <1>1, <1>3 DEF Errand, Fields
  <1>5. cmd[c].text \notin {Absent, Broken}
    BY <1>1 DEF IInv, Sound, Proposed
  <1> QED BY <1>1, <1>2, <1>4, <1>5, UpdateGoesOn DEF UpdatePlaces

LEMMA BuildProposalKeeps ==
    ASSUME IInv, NEW c \in Commands, BuildProposal(c)
    PROVE  IInv'
  <1>1. Errand(c) /\ cmd = [x \in Commands |-> cmd[x]] /\ cmd[c].pc = "resolve" /\ cmd[c].kind = "update"
    BY DEF IInv, Disk, Sound, Errand, BuildProposal, At
  <1>2. UNCHANGED <<world, begins, disturbances, damaged, calm>>
    BY DEF BuildProposal
  <1>3. CASE Report(c, FALSE, FALSE)
    BY <1>2, <1>3, QuietReport
  <1> DEFINE built == BuiltLock(World(cmd[c].project), cmd[c].text, cmd[c].evidence)
  <1>4. CASE cmd' = [cmd EXCEPT ![c].proposal = built, ![c].pc = "recheck"] /\ UNCHANGED holder
    <2>1. built.digest = Digest(cmd[c].text)
      BY DEF BuiltLock
    <2> HIDE DEF built
    <2>2. /\ cmd' = [x \in Commands |-> cmd'[x]] /\ \A x \in Commands \ {c} : cmd'[x] = cmd[x]
          /\ DOMAIN cmd'[c] = Fields /\ cmd'[c].pc = "recheck" /\ cmd'[c].kind = cmd[c].kind
          /\ cmd'[c].project = cmd[c].project /\ cmd'[c].report = cmd[c].report
          /\ cmd'[c].proposal = built /\ cmd'[c].text = cmd[c].text
      BY <1>1, <1>4 DEF Errand, Fields
    <2>3. cmd[c].text \notin {Absent, Broken}
      BY <1>1 DEF IInv, Sound, Proposed
    <2> QED BY <1>1, <1>2, <1>4, <2>1, <2>2, <2>3, UpdateGoesOn DEF UpdatePlaces
  <1> QED BY <1>3, <1>4 DEF BuildProposal

\* The steps of update that go to the next place or end.
LEMMA UpdateStepKeeps ==
    ASSUME IInv, NEW c \in Commands, cmd[c].pc \in {"recheck", "rebuild", "reread", "confirm"},
           NEW next \in {"rebuild", "publish", "confirm"}, NEW ok, NEW wrote,
           (Goto(c, next) /\ UNCHANGED holder) \/ Report(c, ok, wrote),
           UNCHANGED <<world, begins, disturbances, damaged, calm>>
    PROVE  IInv'
  <1>1. Errand(c) /\ cmd = [x \in Commands |-> cmd[x]] /\ cmd[c].kind = "update" /\ Proposed(c)
    BY DEF IInv, Disk, Sound, Errand
  <1>2. CASE Report(c, ok, wrote)
    BY <1>2, QuietReport
  <1>3. CASE Goto(c, next) /\ UNCHANGED holder
    <2>1. /\ cmd' = [x \in Commands |-> cmd'[x]] /\ \A x \in Commands \ {c} : cmd'[x] = cmd[x]
          /\ DOMAIN cmd'[c] = Fields /\ cmd'[c].pc = next /\ cmd'[c].kind = cmd[c].kind
          /\ cmd'[c].project = cmd[c].project /\ cmd'[c].report = cmd[c].report
          /\ cmd'[c].proposal = cmd[c].proposal /\ cmd'[c].text = cmd[c].text
      BY <1>1, <1>3 DEF Errand, Fields, Goto
    <2>2. cmd'[c].text \notin {Absent, Broken} /\ cmd'[c].proposal.digest = Digest(cmd'[c].text)
      BY <1>1, <2>1 DEF Proposed, At
    <2> QED BY <1>1, <1>3, <2>1, <2>2, UpdateGoesOn DEF UpdatePlaces
  <1> QED BY <1>2, <1>3

LEMMA UpdateStepsKeep ==
    ASSUME IInv, NEW c \in Commands, RecheckBundle(c) \/ Rebuild(c) \/ RereadLock(c) \/ ConfirmBundle(c)
    PROVE  IInv'
  <1>1. CASE RecheckBundle(c)
    BY <1>1, UpdateStepKeeps DEF RecheckBundle, At
  <1>2. CASE Rebuild(c)
    <2>1. /\ cmd[c].pc = "rebuild" /\ UNCHANGED <<world, begins, disturbances, damaged, calm>>
          /\ (Goto(c, "publish") /\ UNCHANGED holder) \/ Report(c, TRUE, FALSE) \/ Report(c, FALSE, FALSE)
      BY <1>2 DEF Rebuild, At
    <2> QED BY <2>1, UpdateStepKeeps
  <1>3. CASE RereadLock(c)
    BY <1>3, UpdateStepKeeps DEF RereadLock, At
  <1>4. CASE ConfirmBundle(c)
    BY <1>4, UpdateStepKeeps DEF ConfirmBundle, At
  <1> QED BY <1>1, <1>2, <1>3, <1>4

-----------------------------------------------------------------------------
(* The first reading and judging. *)

LEMMA ReadBundleKeeps ==
    ASSUME IInv, NEW c \in Commands, ReadBundle(c)
    PROVE  IInv'
  <1> DEFINE text == bundle[cmd[c].project]
  <1>1. Errand(c) /\ cmd = [x \in Commands |-> cmd[x]] /\ cmd[c].pc = "read" /\ cmd[c].kind \in {"update", "sync"}
        /\ cmd[c].project \in Projects /\ text \in Contracts \cup {Broken, Absent}
    BY DEF IInv, Disk, Sound, Errand, ReadBundle, At
  <1>2. UNCHANGED <<world, begins, disturbances, damaged, calm>>
    BY DEF ReadBundle
  <1>3. CASE Report(c, FALSE, FALSE)
    BY <1>2, <1>3, QuietReport
  <1>4. CASE ~Report(c, FALSE, FALSE)
    <2>1. text # Absent /\ UNCHANGED holder
      BY <1>4 DEF ReadBundle
    <2>2. PICK t, n : /\ cmd' = [cmd EXCEPT ![c].text = text, ![c].todo = t, ![c].pc = n]
                      /\ n = IF cmd[c].kind = "update" THEN "resolve" ELSE "read_lock"
      BY <1>4 DEF ReadBundle
    <2> HIDE DEF text
    <2>3. /\ cmd' = [x \in Commands |-> cmd'[x]] /\ \A x \in Commands \ {c} : cmd'[x] = cmd[x]
          /\ DOMAIN cmd'[c] = Fields /\ cmd'[c].pc = n /\ cmd'[c].kind = cmd[c].kind
          /\ cmd'[c].project = cmd[c].project /\ cmd'[c].report = cmd[c].report /\ cmd'[c].text = text
      BY <1>1, <2>2 DEF Errand, Fields
    <2>4. CASE cmd[c].kind = "update"
      <3>1. cmd'[c].pc = "resolve"
        BY <2>2, <2>3, <2>4
      <3>2. text # Broken
        BY <1>4, <2>4 DEF ReadBundle, BundleCodes, text
      <3> QED BY <1>1, <1>2, <2>1, <2>3, <2>4, <3>1, <3>2, UpdateGoesOn DEF UpdatePlaces
    <2>5. CASE cmd[c].kind = "sync"
      <3>1. cmd'[c].pc = "read_lock"
        BY <2>2, <2>3, <2>5
      <3>2. ~Moving(c)' /\ ~Syncing(c)'
        BY <3>1 DEF Moving, Syncing
      <3>3. Errand(c)' /\ Proposed(c)' /\ Matched(c)'
        BY <1>1, <2>1, <2>3, <2>5, <3>1, <3>2 DEF Errand, Proposed, Matched, At, Locations
      <3>4. cmd'[c].text = bundle'[cmd'[c].project]
        BY <1>2, <2>3 DEF world, text
      <3>5. Placing(c)' /\ Kept(c)' /\ Undisturbed(c)' /\ Repaired(c)'
        BY <3>1, <3>2, <3>4 DEF Placing, Kept, Undisturbed, Repaired, At
      <3>6. Sound(c)'
        BY <3>3, <3>5 DEF Sound
      <3> QED BY <1>1, <1>2, <2>1, <2>3, <3>1, <3>6, QuietMove
    <2> QED BY <1>1, <2>4, <2>5
  <1> QED BY <1>3, <1>4

\* A sync that goes on has found each package of its contract in its lock.
LEMMA JudgedMatches ==
    ASSUME NEW w, NEW l, NEW b \in Contracts \cup {Broken}, InspectCodes(w, b, l) \cap Hopeless = {},
           BundleCodes(b) = {}, LockCodes(l) = {}
    PROVE  /\ b \in Contracts
           /\ \A i \in Requests(b) : LockedAs(l, b.packages[i].id).package = b.packages[i].package
  <1>1. b # Broken
    BY DEF BundleCodes
  <1> DEFINE asked == {r.id : r \in Elements(b.packages)}
             held == {q.id : q \in Elements(l.packages)}
             packages == UNION {PackageCodes(w, r, LockedAs(l, r.id)) : r \in {r \in Elements(b.packages) : r.id \in held}}
  <1>2. InspectCodes(w, b, l) = BundleCodes(b) \cup If(l.digest # Digest(b), "lock_drift")
                                \cup If(asked # held, "lock_drift")
                                \cup If(SharedExport(b), "package_invalid") \cup packages
    BY <1>1 DEF InspectCodes
  <1>3. If(asked # held, "lock_drift") \subseteq InspectCodes(w, b, l) /\ packages \subseteq InspectCodes(w, b, l)
    <2> HIDE DEF asked, held, packages
    <2> QED BY <1>2, Zenon
  <1>4. "lock_drift" \notin InspectCodes(w, b, l)
    BY DEF Hopeless
  <1>5. asked = held
    <2> HIDE DEF asked, held, packages
    <2> QED BY <1>3, <1>4 DEF If
  <1>6. ASSUME NEW r \in Elements(b.packages) PROVE LockedAs(l, r.id).package = r.package
    <2>1. r.id \in held
      BY <1>5
    <2>2. PackageCodes(w, r, LockedAs(l, r.id)) \subseteq packages
      <3> HIDE DEF held
      <3> QED BY <2>1
    <2>3. "lock_drift" \notin PackageCodes(w, r, LockedAs(l, r.id))
      <3> HIDE DEF packages
      <3> QED BY <1>3, <1>4, <2>2
    <2> QED BY <2>3 DEF PackageCodes
  <1>7. \A i \in Requests(b) : b.packages[i] \in Elements(b.packages)
    BY DEF Requests, Elements
  <1> QED BY <1>1, <1>6, <1>7

LEMMA JudgeSyncKeeps ==
    ASSUME IInv, NEW c \in Commands, JudgeSync(c)
    PROVE  IInv'
  <1> DEFINE pinned == lock[cmd[c].project]
             codes == InspectCodes(World(cmd[c].project), cmd[c].text, pinned)
  <1>1. Errand(c) /\ cmd = [x \in Commands |-> cmd[x]] /\ cmd[c].pc = "read_lock" /\ cmd[c].kind = "sync"
        /\ cmd[c].project \in Projects /\ cmd[c].text \in Contracts \cup {Broken} /\ Undisturbed(c)
    BY DEF IInv, Disk, Sound, Errand, Matched, JudgeSync, At
  <1>2. UNCHANGED <<world, begins, disturbances, damaged, calm>>
    BY DEF JudgeSync
  <1>3. CASE Report(c, FALSE, FALSE) \/ Report(c, TRUE, FALSE)
    BY <1>2, <1>3, QuietReport
  <1>4. CASE ~Report(c, FALSE, FALSE) /\ ~Report(c, TRUE, FALSE)
    <2>1. /\ codes \cap Hopeless = {} /\ BundleCodes(cmd[c].text) = {} /\ LockCodes(pinned) = {} /\ UNCHANGED holder
          /\ cmd' = [cmd EXCEPT ![c].pinned = pinned, ![c].todo = Requests(cmd[c].text), ![c].pc = "check"]
      BY <1>4 DEF JudgeSync
    <2>2. /\ cmd[c].text \in Contracts
          /\ \A i \in Requests(cmd[c].text) :
                LockedAs(pinned, cmd[c].text.packages[i].id).package = cmd[c].text.packages[i].package
      BY <1>1, <2>1, JudgedMatches
    <2> HIDE DEF pinned, codes
    <2>3. /\ cmd' = [x \in Commands |-> cmd'[x]] /\ \A x \in Commands \ {c} : cmd'[x] = cmd[x]
          /\ DOMAIN cmd'[c] = Fields /\ cmd'[c].pc = "check" /\ cmd'[c].kind = cmd[c].kind
          /\ cmd'[c].project = cmd[c].project /\ cmd'[c].report = cmd[c].report /\ cmd'[c].text = cmd[c].text
          /\ cmd'[c].pinned = pinned /\ cmd'[c].todo = Requests(cmd[c].text)
      BY <1>1, <2>1 DEF Errand, Fields
    <2>4. ~Moving(c)' /\ Syncing(c)'
      BY <1>1, <2>3 DEF Moving, Syncing
    <2>5. Errand(c)' /\ Proposed(c)'
      BY <1>1, <2>3 DEF Errand, Proposed, At, Locations
    <2>6. Matched(c)'
      BY <2>2, <2>3, <2>4 DEF Matched, Pinned, At
    <2>7. pinned = lock'[cmd'[c].project] /\ bundle' = bundle
      BY <1>2, <2>3 DEF pinned, world
    <2>8. Undisturbed(c)'
      BY <1>1, <1>2, <2>3, <2>4, <2>7 DEF Undisturbed, At
    <2>9. Placing(c)' /\ Kept(c)' /\ Repaired(c)'
      BY <2>3, <2>4 DEF Placing, Kept, Repaired, At
    <2>10. Sound(c)'
      BY <2>5, <2>6, <2>8, <2>9 DEF Sound
    <2> QED BY <1>1, <1>2, <2>1, <2>3, <2>10, QuietMove
  <1> QED BY <1>3, <1>4

-----------------------------------------------------------------------------
(* A sync going through its packages. *)

\* The package a sync is at.
LEMMA AtPackage ==
    ASSUME IInv, NEW c \in Commands, At(c, "check") \/ Moving(c), cmd[c].todo # {}
    PROVE  /\ First(cmd[c].todo) \in cmd[c].todo /\ First(cmd[c].todo) \in Requests(cmd[c].text)
           /\ Current(c) = Pinned(c, First(cmd[c].todo))
           /\ Current(c).package = Asked(c).package
  <1>1. Matched(c)
    BY DEF IInv, Sound
  <1>2. First(cmd[c].todo) \in cmd[c].todo /\ First(cmd[c].todo) \in Requests(cmd[c].text)
    BY <1>1, NextPackage DEF Matched
  <1>3. Current(c) = Pinned(c, First(cmd[c].todo))
    BY DEF Current, Pinned, Asked
  <1> QED BY <1>1, <1>2, <1>3 DEF Matched, Asked

\* With the same texts a sync has the same in its lock for each package.
LEMMA SamePinned ==
    ASSUME NEW c \in Commands, cmd'[c].text = cmd[c].text, cmd'[c].pinned = cmd[c].pinned
    PROVE  \A i : Pinned(c, i)' = Pinned(c, i)
  BY DEF Pinned

LEMMA SkipExactKeeps ==
    ASSUME IInv, NEW c \in Commands, SkipExact(c)
    PROVE  IInv'
  <1>1. Errand(c) /\ cmd = [x \in Commands |-> cmd[x]] /\ cmd[c].pc = "check" /\ cmd[c].kind = "sync"
        /\ Matched(c) /\ Undisturbed(c) /\ Repaired(c)
    BY DEF IInv, Disk, Sound, Errand, SkipExact, At
  <1>2. UNCHANGED <<world, holder, begins, disturbances, damaged, calm>>
    BY DEF SkipExact
  <1>3. /\ cmd' = [x \in Commands |-> cmd'[x]] /\ \A x \in Commands \ {c} : cmd'[x] = cmd[x]
        /\ DOMAIN cmd'[c] = Fields /\ cmd'[c].pc = cmd[c].pc /\ cmd'[c].kind = cmd[c].kind
        /\ cmd'[c].project = cmd[c].project /\ cmd'[c].report = cmd[c].report /\ cmd'[c].text = cmd[c].text
        /\ cmd'[c].pinned = cmd[c].pinned /\ cmd'[c].todo = Rest(c)
    BY <1>1 DEF Errand, Fields, SkipExact
  <1>4. /\ First(cmd[c].todo) \in cmd[c].todo /\ First(cmd[c].todo) \in Requests(cmd[c].text)
        /\ Current(c) = Pinned(c, First(cmd[c].todo))
    BY AtPackage DEF SkipExact
  <1>5. \A i : Pinned(c, i)' = Pinned(c, i)
    BY <1>3, SamePinned
  <1>6. ~Moving(c)' /\ Syncing(c)' /\ Syncing(c)
    BY <1>1, <1>3 DEF Moving, Syncing
  <1>7. Errand(c)' /\ Proposed(c)' /\ Placing(c)' /\ Kept(c)'
    BY <1>1, <1>3, <1>6 DEF Errand, Proposed, Placing, Kept, At, Locations
  <1>8. Matched(c)'
    BY <1>1, <1>3, <1>5, <1>6 DEF Matched, At, Rest
  <1>9. bundle' = bundle /\ lock' = lock /\ store' = store /\ calm' = calm
    BY <1>2 DEF world
  <1>10. Undisturbed(c)'
    BY <1>1, <1>3, <1>6, <1>9 DEF Undisturbed
  <1>11. Repaired(c)'
    <2>1. Repairable(cmd[c].project)' <=> Repairable(cmd[c].project)
      BY <1>2, <1>3, StillRepairable DEF world
    <2>2. \A id : Stored(id)' = Stored(id)
      BY <1>9 DEF Stored
    <2>3. IsExact(Stored(Identity(Current(c))), Current(c))
      BY DEF SkipExact
    <2>4. \A i \in Requests(cmd'[c].text) \ cmd'[c].todo :
              i \in Requests(cmd[c].text) \ cmd[c].todo \/ i = First(cmd[c].todo)
      BY <1>3 DEF Rest
    <2> QED BY <1>1, <1>4, <1>5, <1>6, <1>9, <2>1, <2>2, <2>3, <2>4 DEF Repaired
  <1>12. Sound(c)'
    BY <1>7, <1>8, <1>10, <1>11 DEF Sound
  <1> QED BY <1>1, <1>2, <1>3, <1>12, QuietMove

\* What the registry answers is the archive the lock names.
LEMMA FetchedIsArchive ==
    ASSUME IInv, NEW r, NEW p, Fetched(r, p) # Absent, p.package = r.package
    PROVE  /\ Identity(p) \in Identities
           /\ Fetched(r, p).tree = ArchiveOf(p.artifact)
           /\ Fetched(r, p).tree = ArchiveOf(Identity(p)[3])
  <1> DEFINE answer == Answered(r.package, p.resolved)
             key == <<r.package, p.resolved>>
  <1>1. answer # Absent /\ Pins(p, answer) /\ Fetched(r, p) = answer
    BY DEF Fetched
  <1>2. key \in Keys /\ answer = registry[key] /\ answer \in Answers[key]
    BY <1>1 DEF Answered, IInv, Disk
  <1>3. answer.tree = ArchiveOf(p.artifact)
    BY <1>1, <1>2, ArchiveIsFixed DEF Pins
  <1>4. Identity(p) \in Identities
    <2>1. Identity(p) = <<key[1], answer.version, answer.artifact>>
      BY <1>1 DEF Pins, Identity
    <2> HIDE DEF answer, key
    <2> QED BY <1>2, <2>1 DEF Identities
  <1>5. Identity(p)[3] = p.artifact
    BY DEF Identity
  <1> QED BY <1>1, <1>3, <1>4, <1>5

\* Where installing packages helps, the archives are what the lock pins.
LEMMA ArchivesAreExact ==
    ASSUME NEW p, Repairable(p), NEW i \in Requests(bundle[p]), NEW q,
           q = LockedAs(lock[p], bundle[p].packages[i].id)
    PROVE  /\ Identity(q) \in Identities
           /\ IsExact(ArchiveOf(q.artifact), q) /\ HashTree(ArchiveOf(q.artifact)) # Absent
  <1> DEFINE ideal == [World(p) EXCEPT !.store = [id \in Identities |-> ArchiveOf(id[3])]]
             r == bundle[p].packages[i]
  <1>1. InspectCodes(ideal, bundle[p], lock[p]) = {}
    BY DEF Repairable
  <1>2. ideal.store = [id \in Identities |-> ArchiveOf(id[3])]
    BY DEF World
  <1>3. r \in Elements(bundle[p].packages) /\ r.kind = "npm"
    BY DEF Requests, Elements
  <1> HIDE DEF ideal
  <1>4. PackageCodes(ideal, r, q) = {}
    BY <1>1, <1>3, InspectedClean
  <1>5. /\ Identity(q) \in DOMAIN ideal.store /\ HashTree(ideal.store[Identity(q)]) # Absent
        /\ IsExact(ideal.store[Identity(q)], q)
    BY <1>3, <1>4, PassingIsExact
  <1>6. Identity(q)[3] = q.artifact
    BY DEF Identity
  <1> QED BY <1>2, <1>5, <1>6

\* What is as a repairable lock pins it is the archive's tree.
LEMMA ExactIsArchive ==
    ASSUME NEW p, Repairable(p), NEW i \in Requests(bundle[p]), NEW q,
           q = LockedAs(lock[p], bundle[p].packages[i].id), NEW tree, IsExact(tree, q)
    PROVE  tree = ArchiveOf(q.artifact)
  <1>1. IsExact(ArchiveOf(q.artifact), q) /\ HashTree(ArchiveOf(q.artifact)) # Absent
    BY ArchivesAreExact
  <1>2. HashTree(tree) = HashTree(ArchiveOf(q.artifact))
    BY <1>1 DEF IsExact
  <1> QED BY <1>1, <1>2 DEF HashTree

\* The same for a sync around which nothing happens.
LEMMA UndisturbedPins ==
    ASSUME IInv, NEW c \in Commands, calm[c], Syncing(c), Repairable(cmd[c].project), NEW i \in Requests(cmd[c].text)
    PROVE  /\ Identity(Pinned(c, i)) \in Identities
           /\ Identity(Pinned(c, i))[3] = Pinned(c, i).artifact
           /\ IsExact(ArchiveOf(Pinned(c, i).artifact), Pinned(c, i))
           /\ \A tree : IsExact(tree, Pinned(c, i)) => tree = ArchiveOf(Pinned(c, i).artifact)
  <1>1. cmd[c].text = bundle[cmd[c].project] /\ cmd[c].pinned = lock[cmd[c].project]
    BY DEF IInv, Sound, Undisturbed
  <1>2. Pinned(c, i) = LockedAs(lock[cmd[c].project], bundle[cmd[c].project].packages[i].id)
        /\ i \in Requests(bundle[cmd[c].project])
    BY <1>1 DEF Pinned
  <1>3. Identity(Pinned(c, i)) \in Identities /\ IsExact(ArchiveOf(Pinned(c, i).artifact), Pinned(c, i))
    BY <1>2, ArchivesAreExact
  <1>4. \A tree : IsExact(tree, Pinned(c, i)) => tree = ArchiveOf(Pinned(c, i).artifact)
    BY <1>2, ExactIsArchive
  <1>5. Identity(Pinned(c, i))[3] = Pinned(c, i).artifact
    BY DEF Identity
  <1> QED BY <1>3, <1>4, <1>5

LEMMA FetchKeeps ==
    ASSUME IInv, NEW c \in Commands, Fetch(c)
    PROVE  IInv'
  <1> DEFINE answer == Fetched(Asked(c), Current(c))
             id == Identity(Current(c))
  <1>1. Errand(c) /\ cmd = [x \in Commands |-> cmd[x]] /\ cmd[c].pc = "check" /\ cmd[c].kind = "sync"
        /\ Matched(c) /\ Undisturbed(c) /\ Repaired(c) /\ cmd[c].todo # {}
    BY DEF IInv, Disk, Sound, Errand, Fetch, At
  <1>2. UNCHANGED <<world, begins, disturbances, damaged>>
    BY DEF Fetch
  <1>3. CASE Report(c, FALSE, FALSE) /\ (calm' = calm \/ calm' = [calm EXCEPT ![c] = FALSE])
    BY <1>2, <1>3, QuietReport
  <1>4. CASE /\ answer # Absent /\ IsExact(answer.tree, Current(c)) /\ UNCHANGED <<holder, calm>>
             /\ cmd' = [cmd EXCEPT ![c].tree = answer.tree, ![c].pc = "displace"]
    <2>1. /\ cmd' = [x \in Commands |-> cmd'[x]] /\ \A x \in Commands \ {c} : cmd'[x] = cmd[x]
          /\ DOMAIN cmd'[c] = Fields /\ cmd'[c].pc = "displace" /\ cmd'[c].kind = cmd[c].kind
          /\ cmd'[c].project = cmd[c].project /\ cmd'[c].report = cmd[c].report /\ cmd'[c].text = cmd[c].text
          /\ cmd'[c].pinned = cmd[c].pinned /\ cmd'[c].todo = cmd[c].todo /\ cmd'[c].tree = answer.tree
      <3> HIDE DEF answer
      <3> QED BY <1>1, <1>4 DEF Errand, Fields
    <2>2. /\ First(cmd[c].todo) \in cmd[c].todo /\ First(cmd[c].todo) \in Requests(cmd[c].text)
          /\ Current(c) = Pinned(c, First(cmd[c].todo)) /\ Current(c).package = Asked(c).package
      BY <1>1, AtPackage DEF At
    <2>3. /\ id \in Identities /\ answer.tree = ArchiveOf(Current(c).artifact) /\ answer.tree = ArchiveOf(id[3])
      BY <1>4, <2>2, FetchedIsArchive
    <2>4. ~IsExact(Stored(id), Current(c)) /\ Stored(id) = store[id]
      BY <2>3 DEF Fetch, Stored
    <2>5. id \in damaged \/ store[id] = Absent
      <3> HIDE DEF answer, id
      <3> QED BY <1>4, <2>3, <2>4 DEF IInv, StoreHoldsArchives
    <2>6. (\A i : Pinned(c, i)' = Pinned(c, i)) /\ Current(c)' = Current(c)
      BY <2>1, SamePinned DEF Current, Asked
    <2>7. Moving(c)' /\ Syncing(c)' /\ Syncing(c)
      BY <1>1, <2>1 DEF Moving, Syncing
    <2>8. Errand(c)' /\ Proposed(c)' /\ Kept(c)'
      BY <1>1, <2>1 DEF Errand, Proposed, Kept, At, Locations
    <2>9. Matched(c)'
      BY <1>1, <2>1, <2>6, <2>7 DEF Matched, At
    <2>10. bundle' = bundle /\ lock' = lock /\ store' = store /\ calm' = calm /\ damaged' = damaged
      BY <1>2, <1>4 DEF world
    <2>11. Placing(c)'
      <3> HIDE DEF answer
      <3> QED BY <2>1, <2>3, <2>5, <2>6, <2>7, <2>10 DEF Placing, At
    <2>12. Undisturbed(c)'
      BY <1>1, <2>1, <2>7, <2>10 DEF Undisturbed, At
    <2>13. Repaired(c)'
      <3>1. Repairable(cmd[c].project)' <=> Repairable(cmd[c].project)
        BY <1>2, <2>1, StillRepairable DEF world
      <3>2. \A x : Stored(x)' = Stored(x)
        BY <2>10 DEF Stored
      <3>3. SUFFICES ASSUME calm[c], Repairable(cmd[c].project), NEW i \in Requests(cmd[c].text) \ cmd[c].todo
                     PROVE  IsExact(Stored(Identity(Pinned(c, i))), Pinned(c, i)) /\ Identity(Pinned(c, i)) # id
        BY <2>1, <2>6, <2>10, <3>1, <3>2 DEF Repaired
      <3>4. IsExact(Stored(Identity(Pinned(c, i))), Pinned(c, i))
        BY <1>1, <2>7, <3>3 DEF Repaired
      <3>5. Stored(Identity(Pinned(c, i))) = ArchiveOf(Identity(Pinned(c, i))[3])
        BY <2>7, <3>3, <3>4, UndisturbedPins
      <3>6. Identity(Pinned(c, i)) # id
        <4> HIDE DEF answer, id
        <4> QED BY <1>4, <2>3, <2>4, <3>5
      <3> QED BY <3>4, <3>6
    <2>14. Sound(c)'
      BY <2>8, <2>9, <2>11, <2>12, <2>13 DEF Sound
    <2> QED BY <1>1, <1>2, <1>4, <2>1, <2>14, QuietMove
  <1> QED BY <1>3, <1>4 DEF Fetch

-----------------------------------------------------------------------------
(* Steps that move packages or write the lock document. *)

\* Whoever holds the mutation lock is alone with packages and documents.
LEMMA Alone ==
    ASSUME IInv, NEW c \in Commands, Guarded(c), NEW x \in Commands \ {c}
    PROVE  ~Guarded(x) /\ ~Moving(x) /\ ~Syncing(x) /\ ~At(x, "read_lock")
  <1>1. ~Guarded(x)
    BY DEF IInv, LockDiscipline
  <1>2. Errand(x)
    BY DEF IInv, Sound
  <1> QED BY <1>1, <1>2 DEF Errand, Guarded, Moving, Syncing, At

LEMMA LockKept ==
    ASSUME IInv, NEW d \in Commands, \A c \in Commands \ {d} : cmd'[c] = cmd[c],
           \/ holder' = holder /\ (Guarded(d)' <=> Guarded(d))
           \/ holder' = (IF holder = d THEN Free ELSE holder) /\ ~Guarded(d)'
    PROVE  LockDiscipline'
  <1>1. \A c \in Commands \ {d} : Guarded(c)' <=> Guarded(c)
    BY SameCommand
  <1>2. Free \notin Commands
    BY ConstantsAssumption
  <1> QED BY <1>1, <1>2 DEF IInv, LockDiscipline

\* A package that is put back, removed or replaced by the holder of the lock.
LEMMA StoreStep ==
    ASSUME IInv, NEW d \in Commands, Guarded(d), Others(d),
           cmd' = [c \in Commands |-> cmd'[c]], calm' \in [Commands -> BOOLEAN],
           UNCHANGED <<bundle, lock, registry, begins, disturbances>>,
           NEW id \in Identities, NEW tree \in {ArchiveOf(id[3]), Absent} \cup Damage,
           store' = [store EXCEPT ![id] = tree],
           \/ id \in damaged /\ damaged' = damaged
           \/ tree = ArchiveOf(id[3]) /\ damaged' = damaged \ {id}
           \/ store[id] = Absent /\ tree = Absent /\ damaged' = damaged,
           \/ holder' = holder /\ (Guarded(d)' <=> Guarded(d))
           \/ holder' = (IF holder = d THEN Free ELSE holder) /\ ~Guarded(d)',
           Sound(d)'
    PROVE  IInv'
  <1>1. store = [x \in Identities |-> store[x]] /\ \A x \in Identities : store[x] \in {ArchiveOf(x[3]), Absent} \cup Damage
    BY DEF IInv, Disk
  <1>2. /\ store' = [x \in Identities |-> store'[x]] /\ store'[id] = tree
        /\ \A x \in Identities \ {id} : store'[x] = store[x]
    BY <1>1
  <1>3. Disk'
    <2>1. \A x \in Identities : store'[x] \in {ArchiveOf(x[3]), Absent} \cup Damage
      BY <1>1, <1>2
    <2> QED BY <1>2, <2>1 DEF IInv, Disk
  <1>4. LockDiscipline'
    BY LockKept DEF Others
  <1>5. StoreHoldsArchives'
    BY <1>2 DEF IInv, StoreHoldsArchives
  <1>6. ASSUME NEW c \in Commands \ {d} PROVE Sound(c)'
    <2>1. Sound(c) /\ cmd'[c] = cmd[c]
      BY DEF IInv, Others
    <2>2. ~Moving(c) /\ ~Syncing(c) /\ ~At(c, "read_lock")
      BY Alone
    <2>3. ~Moving(c)' /\ ~Syncing(c)' /\ ~At(c, "read_lock")'
      BY <2>1, <2>2, SameCommand DEF At
    <2>4. Errand(c)' /\ Proposed(c)' /\ Matched(c)'
      BY <2>1, SameCommand DEF Sound
    <2>5. Placing(c)' /\ Undisturbed(c)' /\ Repaired(c)'
      BY <2>3 DEF Placing, Undisturbed, Repaired
    <2>6. Kept(c)'
      <3>1. SUFFICES ASSUME At(c, "session"), NEW q \in Elements(cmd[c].pinned.packages), q.kind = "npm"
                     PROVE  /\ Identity(q) \in Identities
                            /\ Identity(q) \notin damaged' /\ IsExact(ArchiveOf(q.artifact), q)
                               => IsExact(Stored(Identity(q))', q)
        BY <2>1 DEF Kept, At
      <3>2. /\ Identity(q) \in Identities
            /\ Identity(q) \notin damaged /\ IsExact(ArchiveOf(q.artifact), q) => IsExact(store[Identity(q)], q)
        BY <2>1, <3>1 DEF Sound, Kept, Stored
      <3>3. Stored(Identity(q))' = store'[Identity(q)]
        BY <3>2 DEF Stored
      <3>4. Identity(q)[3] = q.artifact
        BY DEF Identity
      <3>5. ~IsExact(Absent, q)
        BY DEF IsExact
      <3> QED BY <1>2, <3>2, <3>3, <3>4, <3>5
    <2> QED BY <2>4, <2>5, <2>6 DEF Sound
  <1> QED BY <1>3, <1>4, <1>5, <1>6 DEF IInv

LEMMA DisplaceKeeps ==
    ASSUME IInv, NEW c \in Commands, Displace(c)
    PROVE  IInv'
  <1> DEFINE id == Identity(Current(c))
  <1>1. Errand(c) /\ cmd = [x \in Commands |-> cmd[x]] /\ cmd[c].pc = "displace" /\ cmd[c].kind = "sync"
        /\ Matched(c) /\ Placing(c) /\ Undisturbed(c) /\ Repaired(c)
    BY DEF IInv, Disk, Sound, Errand, Displace, At
  <1>2. Moving(c) /\ Syncing(c) /\ Guarded(c)
    BY <1>1 DEF Moving, Syncing, Guarded
  <1>3. /\ id \in Identities /\ cmd[c].tree = ArchiveOf(id[3])
        /\ id \in damaged \/ store[id] = Absent
        /\ store[id] \in {ArchiveOf(id[3]), Absent} \cup Damage /\ Stored(id) = store[id]
    BY <1>1, <1>2 DEF Placing, IInv, Disk, Stored
  <1>4. /\ UNCHANGED <<bundle, lock, workspace, registry, holder, begins, disturbances, damaged, calm>>
        /\ store' = [store EXCEPT ![id] = Absent]
        /\ cmd' = [cmd EXCEPT ![c].old = Stored(id), ![c].pc = "install"]
    BY DEF Displace
  <1> HIDE DEF id
  <1>5. /\ cmd' = [x \in Commands |-> cmd'[x]] /\ \A x \in Commands \ {c} : cmd'[x] = cmd[x]
        /\ DOMAIN cmd'[c] = Fields /\ cmd'[c].pc = "install" /\ cmd'[c].kind = cmd[c].kind
        /\ cmd'[c].project = cmd[c].project /\ cmd'[c].report = cmd[c].report /\ cmd'[c].text = cmd[c].text
        /\ cmd'[c].pinned = cmd[c].pinned /\ cmd'[c].todo = cmd[c].todo /\ cmd'[c].tree = cmd[c].tree
        /\ cmd'[c].old = Stored(id)
    BY <1>1, <1>4 DEF Errand, Fields
  <1>6. (\A i : Pinned(c, i)' = Pinned(c, i)) /\ Current(c)' = Current(c)
    BY <1>5, SamePinned DEF Current, Asked
  <1>7. Moving(c)' /\ Syncing(c)' /\ Guarded(c)'
    BY <1>1, <1>5 DEF Moving, Syncing, Guarded
  <1>8. Errand(c)' /\ Proposed(c)' /\ Kept(c)'
    BY <1>1, <1>5 DEF Errand, Proposed, Kept, At, Locations
  <1>9. Matched(c)'
    BY <1>1, <1>2, <1>5, <1>6, <1>7 DEF Matched, At
  <1>10. store = [x \in Identities |-> store[x]] /\ store'[id] = Absent /\ \A x \in Identities \ {id} : store'[x] = store[x]
    BY <1>3, <1>4 DEF IInv, Disk
  <1>11. Placing(c)'
    <2>1. Identity(Current(c))' = id
      BY <1>6 DEF id
    <2> QED BY <1>3, <1>4, <1>5, <1>10, <2>1 DEF Placing, At
  <1>12. Undisturbed(c)'
    BY <1>1, <1>2, <1>4, <1>5, <1>7 DEF Undisturbed, At
  <1>13. Repaired(c)'
    <2>1. Repairable(cmd[c].project)' => Repairable(cmd[c].project)
      BY <1>4, <1>5, StillRepairable
    <2>2. SUFFICES ASSUME calm[c], Repairable(cmd[c].project), NEW i \in Requests(cmd[c].text) \ cmd[c].todo
                   PROVE  IsExact(Stored(Identity(Pinned(c, i)))', Pinned(c, i)) /\ Identity(Pinned(c, i)) # id
      BY <1>4, <1>5, <1>6, <2>1 DEF Repaired, id
    <2>3. IsExact(Stored(Identity(Pinned(c, i))), Pinned(c, i)) /\ Identity(Pinned(c, i)) # id
      BY <1>1, <1>2, <2>2 DEF Repaired, id
    <2>4. Stored(Identity(Pinned(c, i)))' = Stored(Identity(Pinned(c, i)))
      BY <1>6, <1>10, <2>3 DEF Stored
    <2> QED BY <2>3, <2>4
  <1>14. Sound(c)'
    BY <1>8, <1>9, <1>11, <1>12, <1>13 DEF Sound
  <1>15. calm' \in [Commands -> BOOLEAN] /\ Others(c)
    BY <1>4, <1>5 DEF IInv, Disk, Others
  <1> QED BY <1>2, <1>3, <1>4, <1>5, <1>7, <1>14, <1>15, StoreStep

LEMMA InstallKeeps ==
    ASSUME IInv, NEW c \in Commands, Install(c)
    PROVE  IInv'
  <1> DEFINE id == Identity(Current(c))
  <1>1. Errand(c) /\ cmd = [x \in Commands |-> cmd[x]] /\ cmd[c].pc = "install" /\ cmd[c].kind = "sync"
        /\ Matched(c) /\ Placing(c) /\ Undisturbed(c) /\ Repaired(c)
    BY DEF IInv, Disk, Sound, Errand, Install, At
  <1>2. Moving(c) /\ Syncing(c) /\ Guarded(c)
    BY <1>1 DEF Moving, Syncing, Guarded
  <1>3. id \in Identities /\ cmd[c].tree = ArchiveOf(id[3])
    BY <1>1, <1>2 DEF Placing
  <1>4. /\ UNCHANGED <<bundle, lock, workspace, registry, holder, begins, disturbances, calm>>
        /\ store' = [store EXCEPT ![id] = cmd[c].tree] /\ damaged' = damaged \ {id}
        /\ cmd' = [cmd EXCEPT ![c].tree = Absent, ![c].old = Absent, ![c].changed = TRUE,
                              ![c].todo = Rest(c), ![c].pc = "check"]
    BY DEF Install
  <1>5. /\ First(cmd[c].todo) \in cmd[c].todo /\ First(cmd[c].todo) \in Requests(cmd[c].text)
        /\ Current(c) = Pinned(c, First(cmd[c].todo))
    BY <1>1, <1>2, AtPackage DEF Matched
  <1> HIDE DEF id
  <1>6. /\ cmd' = [x \in Commands |-> cmd'[x]] /\ \A x \in Commands \ {c} : cmd'[x] = cmd[x]
        /\ DOMAIN cmd'[c] = Fields /\ cmd'[c].pc = "check" /\ cmd'[c].kind = cmd[c].kind
        /\ cmd'[c].project = cmd[c].project /\ cmd'[c].report = cmd[c].report /\ cmd'[c].text = cmd[c].text
        /\ cmd'[c].pinned = cmd[c].pinned /\ cmd'[c].todo = Rest(c)
    BY <1>1, <1>4 DEF Errand, Fields
  <1>7. \A i : Pinned(c, i)' = Pinned(c, i)
    BY <1>6, SamePinned
  <1>8. ~Moving(c)' /\ Syncing(c)' /\ Guarded(c)'
    BY <1>1, <1>6 DEF Moving, Syncing, Guarded
  <1>9. Errand(c)' /\ Proposed(c)' /\ Kept(c)' /\ Placing(c)'
    BY <1>1, <1>6, <1>8 DEF Errand, Proposed, Kept, Placing, At, Locations
  <1>10. Matched(c)'
    BY <1>1, <1>2, <1>6, <1>7, <1>8 DEF Matched, At, Rest
  <1>11. /\ store = [x \in Identities |-> store[x]] /\ store'[id] = cmd[c].tree
         /\ \A x \in Identities \ {id} : store'[x] = store[x]
    BY <1>3, <1>4 DEF IInv, Disk
  <1>12. Undisturbed(c)'
    BY <1>1, <1>2, <1>4, <1>6, <1>8 DEF Undisturbed, At
  <1>13. Repaired(c)'
    <2>1. Repairable(cmd[c].project)' <=> Repairable(cmd[c].project)
      BY <1>4, <1>6, StillRepairable
    <2>2. SUFFICES ASSUME calm[c], Repairable(cmd[c].project), NEW i \in Requests(cmd[c].text) \ Rest(c)
                   PROVE  IsExact(Stored(Identity(Pinned(c, i)))', Pinned(c, i))
      BY <1>4, <1>6, <1>7, <1>8, <2>1 DEF Repaired
    <2>3. CASE i \notin cmd[c].todo
      <3>1. IsExact(Stored(Identity(Pinned(c, i))), Pinned(c, i)) /\ Identity(Pinned(c, i)) # id
        BY <1>1, <1>2, <2>2, <2>3 DEF Repaired, id
      <3>2. Stored(Identity(Pinned(c, i)))' = Stored(Identity(Pinned(c, i)))
        BY <1>7, <1>11, <3>1 DEF Stored
      <3> QED BY <3>1, <3>2
    <2>4. CASE i \in cmd[c].todo
      <3>1. Pinned(c, i) = Current(c)
        BY <1>5, <2>2, <2>4 DEF Rest
      <3>2. IsExact(ArchiveOf(Current(c).artifact), Current(c)) /\ id[3] = Current(c).artifact
        BY <1>2, <2>2, <3>1, UndisturbedPins DEF id
      <3>3. Stored(Identity(Pinned(c, i)))' = cmd[c].tree
        BY <1>3, <1>7, <1>11, <3>1 DEF Stored, id
      <3> QED BY <1>3, <3>1, <3>2, <3>3
    <2> QED BY <2>3, <2>4
  <1>14. Sound(c)'
    BY <1>9, <1>10, <1>12, <1>13 DEF Sound
  <1>15. calm' \in [Commands -> BOOLEAN] /\ Others(c)
    BY <1>4, <1>6 DEF IInv, Disk, Others
  <1> QED BY <1>2, <1>3, <1>4, <1>6, <1>8, <1>14, <1>15, StoreStep

LEMMA InstallFailsKeeps ==
    ASSUME IInv, NEW c \in Commands, InstallFails(c)
    PROVE  IInv'
  <1> DEFINE id == Identity(Current(c))
             tree == IF store[id] = Absent THEN cmd[c].old ELSE store[id]
  <1>1. Errand(c) /\ cmd[c].pc = "install" /\ cmd[c].kind = "sync" /\ Placing(c)
    BY DEF IInv, Sound, Errand, InstallFails, At
  <1>2. Guarded(c) /\ Moving(c)
    BY <1>1 DEF Guarded, Moving
  <1>3. /\ id \in Identities /\ tree \in {ArchiveOf(id[3]), Absent} \cup Damage
        /\ id \in damaged \/ (store[id] = Absent /\ tree = Absent)
    <2>1. /\ id \in Identities
          /\ id \in damaged \/ store[id] = Absent
          /\ cmd[c].old \in {ArchiveOf(id[3]), Absent} \cup Damage
          /\ id \in damaged \/ cmd[c].old = Absent
      BY <1>1, <1>2 DEF Placing, At
    <2>2. store[id] \in {ArchiveOf(id[3]), Absent} \cup Damage
      BY <2>1 DEF IInv, Disk
    <2>3. (store[id] = Absent => tree = cmd[c].old) /\ (store[id] # Absent => tree = store[id])
      OBVIOUS
    <2> HIDE DEF id, tree
    <2> QED BY <2>1, <2>2, <2>3
  <1>4. /\ UNCHANGED <<bundle, lock, workspace, registry, begins, disturbances, damaged>>
        /\ store' = [store EXCEPT ![id] = tree] /\ calm' = [calm EXCEPT ![c] = FALSE]
        /\ Report(c, FALSE, FALSE)
    <2>1. store' = [store EXCEPT ![id] = tree]
      <3>1. store = [x \in Identities |-> store[x]]
        BY DEF IInv, Disk
      <3> QED BY <1>3, <3>1 DEF InstallFails
    <2> QED BY <2>1 DEF InstallFails
  <1> HIDE DEF id, tree
  <1>5. /\ cmd' = [x \in Commands |-> cmd'[x]] /\ \A x \in Commands \ {c} : cmd'[x] = cmd[x]
        /\ Sound(c)' /\ ~Guarded(c)'
    BY <1>4, ReportEnds
  <1>6. calm' \in [Commands -> BOOLEAN] /\ Others(c)
    BY <1>4, <1>5 DEF IInv, Disk, Others
  <1>7. holder' = (IF holder = c THEN Free ELSE holder)
    BY <1>4 DEF Report
  <1> QED BY <1>2, <1>3, <1>4, <1>5, <1>6, <1>7, StoreStep

LEMMA PublishKeeps ==
    ASSUME IInv, NEW c \in Commands, Publish(c)
    PROVE  IInv'
  <1>1. Errand(c) /\ cmd = [x \in Commands |-> cmd[x]] /\ cmd[c].pc = "publish" /\ cmd[c].kind = "update"
        /\ Proposed(c)
    BY DEF IInv, Disk, Sound, Errand, Publish, At
  <1>2. Guarded(c)
    BY <1>1 DEF Guarded
  <1>3. UNCHANGED <<bundle, workspace, store, registry, holder, begins, disturbances, damaged, calm>>
        /\ lock' = [lock EXCEPT ![cmd[c].project] = cmd[c].proposal]
    BY DEF Publish
  <1>4. /\ cmd' = [x \in Commands |-> cmd'[x]] /\ \A x \in Commands \ {c} : cmd'[x] = cmd[x]
        /\ DOMAIN cmd'[c] = Fields /\ cmd'[c].pc = "reread" /\ cmd'[c].kind = cmd[c].kind
        /\ cmd'[c].project = cmd[c].project /\ cmd'[c].report = cmd[c].report /\ cmd'[c].text = cmd[c].text
        /\ cmd'[c].proposal = cmd[c].proposal
    BY <1>1 DEF Errand, Fields, Publish, Goto
  <1>5. Sound(c)'
    <2>1. cmd'[c].text \notin {Absent, Broken} /\ cmd'[c].proposal.digest = Digest(cmd'[c].text)
      BY <1>1, <1>4 DEF Proposed, At
    <2> QED BY <1>1, <1>4, <2>1, UpdateGoesOn DEF UpdatePlaces
  <1>6. Disk'
    <2>1. lock = [p \in Projects |-> lock[p]]
      BY DEF IInv, Disk
    <2>2. lock' = [p \in Projects |-> lock'[p]]
      BY <1>3, <2>1
    <2> QED BY <1>3, <1>4, <2>2 DEF IInv, Disk
  <1>7. LockDiscipline'
    <2>1. Guarded(c)'
      BY <1>1, <1>4 DEF Guarded
    <2> QED BY <1>2, <1>3, <1>4, <2>1, LockKept
  <1>8. StoreHoldsArchives'
    BY <1>3 DEF IInv, StoreHoldsArchives
  <1>9. ASSUME NEW x \in Commands \ {c} PROVE Sound(x)'
    <2>1. Sound(x) /\ cmd'[x] = cmd[x]
      BY <1>4 DEF IInv
    <2>2. ~Moving(x)' /\ ~Syncing(x)' /\ ~At(x, "read_lock")'
      BY <1>2, <2>1, Alone, SameCommand DEF At
    <2>3. Errand(x)' /\ Proposed(x)' /\ Matched(x)'
      BY <2>1, SameCommand DEF Sound
    <2>4. Placing(x)' /\ Undisturbed(x)' /\ Repaired(x)'
      BY <2>2 DEF Placing, Undisturbed, Repaired
    <2>5. \A id : Stored(id)' = Stored(id)
      BY <1>3 DEF Stored
    <2>6. Kept(x)'
      BY <1>3, <2>1, <2>5 DEF Sound, Kept, At
    <2> QED BY <2>3, <2>4, <2>6 DEF Sound
  <1> QED BY <1>5, <1>6, <1>7, <1>8, <1>9 DEF IInv

-----------------------------------------------------------------------------
(* Inspection. *)

\* A command that reads a document again, by any other text than before only
\* when something happened.
LEMMA LookKeeps ==
    ASSUME IInv, NEW c \in Commands, cmd' = [x \in Commands |-> cmd'[x]],
           \A x \in Commands \ {c} : cmd'[x] = cmd[x],
           DOMAIN cmd'[c] = Fields, cmd'[c].kind = cmd[c].kind, cmd'[c].project = cmd[c].project,
           cmd'[c].report = cmd[c].report, cmd'[c].todo = cmd[c].todo,
           cmd[c].kind \in {"launch", "sync"}, cmd[c].pc \in {"look", "check", "look_lock"},
           cmd'[c].pc \in {"look_lock", "look_trees"},
           cmd[c].kind = "sync" => cmd[c].todo = {} /\ cmd[c].pc # "look",
           cmd'[c].text \in {cmd[c].text, bundle[cmd[c].project]},
           cmd'[c].pinned \in {cmd[c].pinned, lock[cmd[c].project]},
           UNCHANGED <<world, holder, begins, disturbances, damaged, calm>>
    PROVE  IInv'
  <1>1. Errand(c) /\ Undisturbed(c) /\ Repaired(c)
    BY DEF IInv, Sound
  <1>2. bundle' = bundle /\ lock' = lock /\ store' = store /\ calm' = calm
    BY DEF world
  <1>3. ~Moving(c)' /\ (Syncing(c)' <=> cmd[c].kind = "sync") /\ (cmd[c].kind = "sync" => Syncing(c))
    BY DEF Moving, Syncing
  <1>4. Errand(c)' /\ Proposed(c)' /\ Matched(c)' /\ Placing(c)' /\ Kept(c)'
    BY <1>1, <1>3 DEF Errand, Proposed, Matched, Placing, Kept, At, Locations
  <1>5. calm[c] /\ cmd[c].kind = "sync" => cmd'[c].text = cmd[c].text /\ cmd'[c].pinned = cmd[c].pinned
    BY <1>1, <1>3 DEF Undisturbed
  <1>6. Undisturbed(c)'
    BY <1>1, <1>2, <1>3, <1>5 DEF Undisturbed, At
  <1>7. Repaired(c)'
    <2>1. Repairable(cmd[c].project)' <=> Repairable(cmd[c].project)
      BY StillRepairable DEF world
    <2>2. SUFFICES ASSUME calm[c], cmd[c].kind = "sync", Repairable(cmd[c].project),
                          NEW i \in Requests(cmd'[c].text) \ cmd'[c].todo
                   PROVE  IsExact(Stored(Identity(Pinned(c, i)))', Pinned(c, i)')
      BY <1>2, <1>3, <2>1 DEF Repaired
    <2>3. IsExact(Stored(Identity(Pinned(c, i))), Pinned(c, i))
      BY <1>1, <1>3, <1>5, <2>2 DEF Repaired
    <2>4. Pinned(c, i)' = Pinned(c, i)
      BY <1>5, <2>2, SamePinned
    <2> QED BY <1>2, <2>3, <2>4 DEF Stored
  <1>8. Sound(c)'
    BY <1>4, <1>6, <1>7 DEF Sound
  <1>9. cmd[c].pc \notin {"idle", "acquire"} /\ cmd'[c].pc \notin {"idle", "acquire"}
    OBVIOUS
  <1> QED BY <1>8, <1>9, QuietMove

LEMMA LookAtBundleKeeps ==
    ASSUME IInv, NEW c \in Commands, LookAtBundle(c)
    PROVE  IInv'
  <1> DEFINE text == bundle[cmd[c].project]
  <1>1. Errand(c) /\ cmd = [x \in Commands |-> cmd[x]] /\ cmd[c].pc \in {"look", "check"}
        /\ cmd[c].kind \in {"launch", "sync"} /\ (cmd[c].kind = "sync" => cmd[c].todo = {} /\ cmd[c].pc # "look")
    BY DEF IInv, Disk, Sound, Errand, LookAtBundle, InspectStarts, At
  <1>2. UNCHANGED <<world, begins, disturbances, damaged, calm>>
    BY DEF LookAtBundle
  <1>3. CASE Report(c, FALSE, FALSE)
    BY <1>2, <1>3, QuietReport
  <1>4. CASE cmd' = [cmd EXCEPT ![c].text = text, ![c].pc = "look_lock"] /\ UNCHANGED holder
    <2>1. /\ cmd' = [x \in Commands |-> cmd'[x]] /\ \A x \in Commands \ {c} : cmd'[x] = cmd[x]
          /\ DOMAIN cmd'[c] = Fields /\ cmd'[c].pc = "look_lock" /\ cmd'[c].kind = cmd[c].kind
          /\ cmd'[c].project = cmd[c].project /\ cmd'[c].report = cmd[c].report /\ cmd'[c].todo = cmd[c].todo
          /\ cmd'[c].text = text /\ cmd'[c].pinned = cmd[c].pinned
      <3> HIDE DEF text
      <3> QED BY <1>1, <1>4 DEF Errand, Fields
    <2> QED BY <1>1, <1>2, <1>4, <2>1, LookKeeps
  <1> QED BY <1>3, <1>4 DEF LookAtBundle

LEMMA LookAtLockKeeps ==
    ASSUME IInv, NEW c \in Commands, LookAtLock(c)
    PROVE  IInv'
  <1> DEFINE pinned == lock[cmd[c].project]
  <1>1. Errand(c) /\ cmd = [x \in Commands |-> cmd[x]] /\ cmd[c].pc = "look_lock"
        /\ cmd[c].kind \in {"launch", "sync"} /\ (cmd[c].kind = "sync" => cmd[c].todo = {})
    BY DEF IInv, Disk, Sound, Errand, Matched, LookAtLock, At
  <1>2. UNCHANGED <<world, begins, disturbances, damaged, calm>>
    BY DEF LookAtLock
  <1>3. CASE Report(c, FALSE, FALSE)
    BY <1>2, <1>3, QuietReport
  <1>4. CASE cmd' = [cmd EXCEPT ![c].pinned = pinned, ![c].pc = "look_trees"] /\ UNCHANGED holder
    <2>1. /\ cmd' = [x \in Commands |-> cmd'[x]] /\ \A x \in Commands \ {c} : cmd'[x] = cmd[x]
          /\ DOMAIN cmd'[c] = Fields /\ cmd'[c].pc = "look_trees" /\ cmd'[c].kind = cmd[c].kind
          /\ cmd'[c].project = cmd[c].project /\ cmd'[c].report = cmd[c].report /\ cmd'[c].todo = cmd[c].todo
          /\ cmd'[c].text = cmd[c].text /\ cmd'[c].pinned = pinned
      <3> HIDE DEF pinned
      <3> QED BY <1>1, <1>4 DEF Errand, Fields
    <2> QED BY <1>1, <1>2, <1>4, <2>1, LookKeeps
  <1> QED BY <1>3, <1>4 DEF LookAtLock

LEMMA LookAtTreesKeeps ==
    ASSUME IInv, NEW c \in Commands, LookAtTrees(c)
    PROVE  IInv'
  <1> DEFINE w == World(cmd[c].project)
             ok == InspectCodes(w, cmd[c].text, cmd[c].pinned) = {}
  <1>1. Errand(c) /\ cmd = [x \in Commands |-> cmd[x]] /\ cmd[c].pc = "look_trees"
        /\ store = [id \in Identities |-> store[id]]
    BY DEF IInv, Disk, Sound, LookAtTrees, At
  <1>2. UNCHANGED <<world, begins, disturbances, damaged, calm>>
    BY DEF LookAtTrees
  <1>3. CASE Report(c, ok /\ cmd[c].kind = "sync", cmd[c].changed)
    BY <1>2, <1>3, QuietReport
  <1>4. CASE cmd[c].kind = "launch" /\ ok /\ Goto(c, "session") /\ UNCHANGED holder
    <2>1. /\ cmd' = [x \in Commands |-> cmd'[x]] /\ \A x \in Commands \ {c} : cmd'[x] = cmd[x]
          /\ DOMAIN cmd'[c] = Fields /\ cmd'[c].pc = "session" /\ cmd'[c].kind = cmd[c].kind
          /\ cmd'[c].project = cmd[c].project /\ cmd'[c].report = cmd[c].report
          /\ cmd'[c].pinned = cmd[c].pinned
      BY <1>1, <1>4 DEF Errand, Fields, Goto
    <2>2. ~Moving(c)' /\ ~Syncing(c)'
      BY <1>4, <2>1 DEF Moving, Syncing
    <2>3. Errand(c)' /\ Proposed(c)' /\ Matched(c)' /\ Placing(c)' /\ Undisturbed(c)' /\ Repaired(c)'
      BY <1>1, <1>4, <2>1, <2>2 DEF Errand, Proposed, Matched, Placing, Undisturbed, Repaired, At, Locations
    <2>4. w.store = store /\ DOMAIN w.store = Identities
      BY <1>1 DEF World
    <2>5. ASSUME NEW q \in Elements(cmd[c].pinned.packages), q.kind = "npm"
          PROVE  Identity(q) \in Identities /\ IsExact(Stored(Identity(q)), q)
      <3> HIDE DEF w
      <3>0. InspectCodes(w, cmd[c].text, cmd[c].pinned) = {}
        BY <1>4
      <3>1. LockCodes(cmd[c].pinned) = {}
        BY <3>0, InspectedClean
      <3>2. PICK r \in Elements(cmd[c].text.packages) :
                r.id = q.id /\ PackageCodes(w, r, LockedAs(cmd[c].pinned, r.id)) = {}
        BY <3>0, InspectedClean
      <3>3. LockedAs(cmd[c].pinned, r.id) = q
        BY <3>1, <3>2, LockedIsUnique
      <3>4. PackageCodes(w, r, q) = {}
        BY <3>2, <3>3
      <3>5. r.kind = "npm"
        BY <2>5, <3>4 DEF PackageCodes
      <3>6. Identity(q) \in DOMAIN w.store /\ IsExact(w.store[Identity(q)], q)
        BY <3>4, <3>5, PassingIsExact
      <3> QED BY <2>4, <3>6 DEF Stored
    <2>6. store' = store
      BY <1>2 DEF world
    <2>7. \A id : Stored(id)' = Stored(id)
      BY <2>6 DEF Stored
    <2>8. Kept(c)'
      BY <2>1, <2>5, <2>7 DEF Kept, At
    <2>9. Sound(c)'
      BY <2>3, <2>8 DEF Sound
    <2> QED BY <1>1, <1>2, <1>4, <2>1, <2>9, QuietMove
  <1> HIDE DEF ok
  <1> QED BY <1>3, <1>4 DEF LookAtTrees, ok

LEMMA EndSessionKeeps ==
    ASSUME IInv, NEW c \in Commands, EndSession(c)
    PROVE  IInv'
  BY QuietReport DEF EndSession

-----------------------------------------------------------------------------
(* What happens around the commands. *)

LEMMA CrashKeeps ==
    ASSUME IInv, NEW c \in Commands, Crash(c)
    PROVE  IInv'
  <1> DEFINE v == Idle
  <1>1. DOMAIN v = Fields /\ v.pc = "idle" /\ v.kind = "none"
    BY DEF Idle, Fields
  <1>2. cmd' = [cmd EXCEPT ![c] = v]
    BY DEF Crash
  <1> HIDE DEF v
  <1>3. /\ cmd' = [x \in Commands |-> cmd'[x]] /\ cmd'[c] = v
        /\ \A x \in Commands \ {c} : cmd'[x] = cmd[x]
    BY <1>2, CommandMoves
  <1>4. Sound(c)' /\ ~Guarded(c)'
    BY <1>1, <1>3, OverIsSound
  <1>5. /\ UNCHANGED <<world, begins, damaged, calm>> /\ disturbances' = disturbances + 1
        /\ disturbances < MaxDisturbances /\ holder' = (IF holder = c THEN Free ELSE holder)
    BY DEF Crash
  <1>6. /\ calm' \in [Commands -> BOOLEAN] /\ begins' \in 0 .. MaxBegins /\ disturbances' \in 0 .. MaxDisturbances
    BY <1>5, ConstantsAssumption DEF IInv, Disk
  <1>7. Others(c)
    BY <1>3, <1>5 DEF Others
  <1> QED BY <1>3, <1>4, <1>5, <1>6, <1>7, QuietStep

\* After a disturbance no command claims that nothing happened around it.
LEMMA DisturbedKeeps ==
    ASSUME IInv, Disturbed,
           bundle' \in [Projects -> Contracts \cup {Broken, Absent}],
           lock' = [p \in Projects |-> lock'[p]],
           store' = [id \in Identities |-> store'[id]],
           \A id \in Identities : store'[id] \in {ArchiveOf(id[3]), Absent} \cup Damage,
           registry' = [k \in Keys |-> registry'[k]],
           \A k \in Keys : registry'[k] \in Answers[k] \cup {Absent},
           damaged \subseteq damaged', \A id \in Identities : store'[id] = store[id] \/ id \in damaged'
    PROVE  IInv'
  <1>1. /\ cmd' = cmd /\ holder' = holder /\ begins' = begins
        /\ calm' = [c \in Commands |-> FALSE]
        /\ disturbances' = disturbances + 1 /\ disturbances < MaxDisturbances
    BY DEF Disturbed
  <1>2. Disk'
    <2>1. disturbances' \in 0 .. MaxDisturbances
      BY <1>1, ConstantsAssumption DEF IInv, Disk
    <2>2. calm' \in [Commands -> BOOLEAN]
      BY <1>1
    <2> QED BY <1>1, <2>1, <2>2 DEF IInv, Disk
  <1>3. LockDiscipline'
    BY <1>1 DEF IInv, LockDiscipline, Guarded
  <1>4. StoreHoldsArchives'
    BY DEF IInv, StoreHoldsArchives
  <1>5. ASSUME NEW c \in Commands PROVE Sound(c)'
    <2>1. cmd'[c] = cmd[c] /\ ~calm'[c] /\ Sound(c)
      BY <1>1 DEF IInv
    <2>2. Errand(c)' /\ Proposed(c)' /\ Matched(c)' /\ Undisturbed(c)' /\ Repaired(c)'
      BY <2>1, SameCommand DEF Sound, Undisturbed, Repaired
    <2>3. Placing(c)'
      <3>1. Current(c)' = Current(c) /\ (Moving(c)' <=> Moving(c))
        BY <2>1, SameCommand
      <3> QED BY <2>1, <3>1 DEF Sound, Placing, At
    <2>4. Kept(c)'
      <3>1. SUFFICES ASSUME At(c, "session"), NEW q \in Elements(cmd[c].pinned.packages), q.kind = "npm"
                     PROVE  /\ Identity(q) \in Identities
                            /\ Identity(q) \notin damaged' /\ IsExact(ArchiveOf(q.artifact), q)
                               => IsExact(Stored(Identity(q))', q)
        BY <2>1 DEF Kept, At
      <3>2. /\ Identity(q) \in Identities
            /\ Identity(q) \notin damaged /\ IsExact(ArchiveOf(q.artifact), q) => IsExact(Stored(Identity(q)), q)
        BY <2>1, <3>1 DEF Sound, Kept
      <3>3. Identity(q) \notin damaged' => Stored(Identity(q))' = Stored(Identity(q))
        BY <3>2 DEF Stored
      <3> QED BY <3>2, <3>3
    <2> QED BY <2>2, <2>3, <2>4 DEF Sound
  <1> QED BY <1>2, <1>3, <1>4, <1>5 DEF IInv

LEMMA EnvironmentKeeps ==
    ASSUME IInv, Environment
    PROVE  IInv'
  <1>1. /\ bundle \in [Projects -> Contracts \cup {Broken, Absent}]
        /\ lock = [p \in Projects |-> lock[p]]
        /\ store = [id \in Identities |-> store[id]]
        /\ \A id \in Identities : store[id] \in {ArchiveOf(id[3]), Absent} \cup Damage
        /\ registry = [k \in Keys |-> registry[k]]
        /\ \A k \in Keys : registry[k] \in Answers[k] \cup {Absent}
    BY DEF IInv, Disk
  <1>2. ASSUME NEW p \in Projects, EditBundle(p) PROVE IInv'
    <2>1. bundle' \in [Projects -> Contracts \cup {Broken, Absent}]
      BY <1>1, <1>2 DEF EditBundle
    <2> QED BY <1>1, <1>2, <2>1, DisturbedKeeps DEF EditBundle
  <1>3. ASSUME NEW p \in Projects, EditLock(p) PROVE IInv'
    <2>1. lock' = [x \in Projects |-> lock'[x]]
      BY <1>1, <1>3 DEF EditLock
    <2> QED BY <1>1, <1>3, <2>1, DisturbedKeeps DEF EditLock
  <1>4. ASSUME NEW p \in Projects, EditWorkspace(p) PROVE IInv'
    BY <1>1, <1>4, DisturbedKeeps DEF EditWorkspace
  <1>5. CASE DamageStore
    <2>1. PICK id \in Identities, tree \in Damage \cup {Absent} :
              store' = [store EXCEPT ![id] = tree] /\ damaged' = damaged \cup {id}
      BY <1>5 DEF DamageStore
    <2>2. store' = [x \in Identities |-> store'[x]] /\ store'[id] = tree
          /\ \A x \in Identities \ {id} : store'[x] = store[x]
      BY <1>1, <2>1
    <2>3. \A x \in Identities : store'[x] \in {ArchiveOf(x[3]), Absent} \cup Damage
      BY <1>1, <2>1, <2>2
    <2> QED BY <1>1, <1>5, <2>1, <2>2, <2>3, DisturbedKeeps DEF DamageStore
  <1>6. CASE Republish
    <2>1. registry' = [k \in Keys |-> registry'[k]] /\ \A k \in Keys : registry'[k] \in Answers[k] \cup {Absent}
      BY <1>1, <1>6 DEF Republish
    <2> QED BY <1>1, <1>6, <2>1, DisturbedKeeps DEF Republish
  <1> QED BY <1>2, <1>3, <1>4, <1>5, <1>6, CrashKeeps DEF Environment

-----------------------------------------------------------------------------
(* The invariant. *)

LEMMA InitSound ==
    ASSUME Init
    PROVE  IInv
  <1>1. cmd = [c \in Commands |-> Idle] /\ calm = [c \in Commands |-> FALSE] /\ holder = Free
    BY DEF Init
  <1>2. Disk
    <2>1. \A p \in Projects : Checkout[p].bundle \in Contracts \cup {Broken, Absent}
      BY ConstantsAssumption
    <2>2. bundle \in [Projects -> Contracts \cup {Broken, Absent}]
      BY <2>1 DEF Init
    <2>3. lock = [p \in Projects |-> lock[p]]
      BY DEF Init
    <2>4. /\ store = [id \in Identities |-> store[id]]
          /\ \A id \in Identities : store[id] \in {ArchiveOf(id[3]), Absent} \cup Damage
      BY DEF Init
    <2>5. /\ registry = [k \in Keys |-> registry[k]]
          /\ \A k \in Keys : registry[k] \in Answers[k] \cup {Absent}
      <3>1. \A k \in Keys : (CHOOSE answer \in Answers[k] : TRUE) \in Answers[k]
        BY ConstantsAssumption
      <3>2. registry = [k \in Keys |-> CHOOSE answer \in Answers[k] : TRUE]
        BY DEF Init
      <3> QED BY <3>1, <3>2
    <2>6. begins \in 0 .. MaxBegins /\ disturbances \in 0 .. MaxDisturbances
      BY ConstantsAssumption DEF Init
    <2> QED BY <1>1, <2>2, <2>3, <2>4, <2>5, <2>6 DEF Disk
  <1>3. StoreHoldsArchives
    BY DEF Init, StoreHoldsArchives
  <1>4. ASSUME NEW c \in Commands PROVE Sound(c) /\ ~Guarded(c)
    <2> DEFINE v == Idle
    <2>1. DOMAIN v = Fields /\ v.pc = "idle" /\ v.kind = "none"
      BY DEF Idle, Fields
    <2>2. cmd[c] = v /\ ~calm[c]
      BY <1>1
    <2> HIDE DEF v
    <2>3. ~Guarded(c) /\ ~Moving(c) /\ ~Syncing(c)
      BY <2>1, <2>2 DEF Guarded, Moving, Syncing
    <2>4. Errand(c) /\ Proposed(c) /\ Matched(c)
      BY <2>1, <2>2, <2>3 DEF Errand, Proposed, Matched, At, Locations
    <2>5. Placing(c) /\ Kept(c) /\ Undisturbed(c) /\ Repaired(c)
      BY <2>1, <2>2, <2>3 DEF Placing, Kept, Undisturbed, Repaired, At
    <2> QED BY <2>3, <2>4, <2>5 DEF Sound
  <1>5. LockDiscipline
    BY <1>1, <1>4, ConstantsAssumption DEF LockDiscipline
  <1> QED BY <1>2, <1>3, <1>4, <1>5 DEF IInv

LEMMA StepKeeps ==
    ASSUME IInv, [Next]_vars
    PROVE  IInv'
  <1>1. ASSUME NEW c \in Commands, Step(c) \/ EndSession(c) PROVE IInv'
    <2>1. CASE Update(c)
      BY <2>1, ResolveKeeps, BuildProposalKeeps, UpdateStepsKeep, PublishKeeps DEF Update
    <2>2. CASE Sync(c)
      BY <2>2, JudgeSyncKeeps, SkipExactKeeps, FetchKeeps, DisplaceKeeps, InstallKeeps, InstallFailsKeeps DEF Sync
    <2>3. CASE Inspect(c)
      BY <2>3, LookAtBundleKeeps, LookAtLockKeeps, LookAtTreesKeeps DEF Inspect
    <2> QED BY <1>1, <2>1, <2>2, <2>3, AcquireKeeps, ReadBundleKeeps, EndSessionKeeps DEF Step
  <1>2. ASSUME NEW c \in Commands, NEW p \in Projects,
               \/ \E write \in BOOLEAN : Begin(c, p, "update", write)
               \/ Begin(c, p, "sync", FALSE) \/ Begin(c, p, "launch", FALSE)
        PROVE  IInv'
    BY <1>2, BeginKeeps
  <1>3. CASE UNCHANGED vars
    <2>1. bundle' = bundle /\ lock' = lock /\ store' = store /\ registry' = registry /\ cmd' = cmd
          /\ calm' = calm /\ holder' = holder /\ damaged' = damaged /\ begins' = begins /\ disturbances' = disturbances
          /\ UNCHANGED <<world, damaged>>
      BY <1>3 DEF vars, world
    <2>2. Disk' /\ LockDiscipline' /\ StoreHoldsArchives'
      BY <2>1 DEF IInv, Disk, LockDiscipline, Guarded, StoreHoldsArchives
    <2>3. ASSUME NEW c \in Commands PROVE Sound(c)'
      <3>1. Sound(c) /\ cmd'[c] = cmd[c] /\ (calm'[c] => calm[c])
        BY <2>1 DEF IInv
      <3> QED BY <2>1, <3>1, Untouched
    <2> QED BY <2>2, <2>3 DEF IInv
  <1> QED BY <1>1, <1>2, <1>3, EnvironmentKeeps DEF Next

LEMMA Invariance == Spec => []IInv
  <1>1. Init => IInv
    BY InitSound
  <1>2. IInv /\ [Next]_vars => IInv'
    BY StepKeeps
  <1> QED BY <1>1, <1>2, PTL DEF Spec

-----------------------------------------------------------------------------
(* Reports. *)

\* A step of one command leaves every other command where it is.
LEMMA OnlyOneMoves ==
    ASSUME IInv, NEW c \in Commands, Step(c) \/ EndSession(c), NEW x \in Commands \ {c}
    PROVE  cmd'[x] = cmd[x]
  <1>1. cmd = [y \in Commands |-> cmd[y]]
    BY DEF IInv, Disk
  <1>2. ASSUME NEW next, Goto(c, next) PROVE cmd'[x] = cmd[x]
    BY <1>1, <1>2 DEF Goto
  <1>3. ASSUME NEW ok, NEW wrote, Report(c, ok, wrote) PROVE cmd'[x] = cmd[x]
    BY <1>3, ReportEnds
  <1>4. CASE Acquire(c) \/ Publish(c)
    BY <1>2, <1>4 DEF Acquire, Publish
  <1>5. CASE ReadBundle(c)
    <2>1. ASSUME NEW v, cmd' = [cmd EXCEPT ![c] = v] PROVE cmd'[x] = cmd[x]
      BY <1>1, <2>1
    <2> QED BY <1>3, <1>5, <2>1 DEF ReadBundle
  <1>6. CASE Resolve(c)
    BY <1>1, <1>6 DEF Resolve
  <1>7. CASE BuildProposal(c)
    <2>1. CASE Report(c, FALSE, FALSE)
      BY <1>3, <2>1
    <2>2. CASE ~Report(c, FALSE, FALSE)
      BY <1>1, <1>7, <2>2 DEF BuildProposal
    <2> QED BY <2>1, <2>2
  <1>8. CASE RecheckBundle(c) \/ Rebuild(c) \/ RereadLock(c) \/ ConfirmBundle(c)
    BY <1>2, <1>3, <1>8 DEF RecheckBundle, Rebuild, RereadLock, ConfirmBundle
  <1>9. CASE JudgeSync(c)
    <2>1. CASE Report(c, FALSE, FALSE) \/ Report(c, TRUE, FALSE)
      BY <1>3, <2>1
    <2>2. CASE ~Report(c, FALSE, FALSE) /\ ~Report(c, TRUE, FALSE)
      BY <1>1, <1>9, <2>2 DEF JudgeSync
    <2> QED BY <2>1, <2>2
  <1>10. CASE SkipExact(c) \/ Displace(c) \/ Install(c)
    BY <1>1, <1>10 DEF SkipExact, Displace, Install
  <1>11. CASE Fetch(c)
    <2>1. CASE Report(c, FALSE, FALSE)
      BY <1>3, <2>1
    <2>2. CASE ~Report(c, FALSE, FALSE)
      BY <1>1, <1>11, <2>2 DEF Fetch
    <2> QED BY <2>1, <2>2
  <1>12. CASE InstallFails(c)
    BY <1>3, <1>12 DEF InstallFails
  <1>13. CASE LookAtBundle(c) \/ LookAtLock(c)
    <2>1. CASE Report(c, FALSE, FALSE)
      BY <1>3, <2>1
    <2>2. CASE ~Report(c, FALSE, FALSE)
      BY <1>1, <1>13, <2>2 DEF LookAtBundle, LookAtLock
    <2> QED BY <2>1, <2>2
  <1>14. CASE LookAtTrees(c)
    BY <1>2, <1>3, <1>14 DEF LookAtTrees
  <1>15. CASE EndSession(c)
    BY <1>3, <1>15 DEF EndSession
  <1> QED BY <1>4, <1>5, <1>6, <1>7, <1>8, <1>9, <1>10, <1>11, <1>12, <1>13, <1>14, <1>15
          DEF Step, Update, Sync, Inspect

\* A report is made by a step of the command itself.
LEMMA OwnReport ==
    ASSUME IInv, [Next]_vars, NEW c \in Commands, cmd[c].kind \in {"update", "sync"},
           cmd'[c].report.by = cmd[c].kind
    PROVE  Step(c)
  <1>1. ~At(c, "idle") /\ cmd[c].report.by = "none"
    BY DEF IInv, Sound, Errand, NoReport
  <1>2. cmd'[c] # cmd[c]
    BY <1>1
  <1>3. ASSUME NEW d \in Commands, Step(d) \/ EndSession(d) PROVE Step(c)
    <2>1. d = c
      BY <1>2, <1>3, OnlyOneMoves
    <2>2. ~EndSession(c)
      BY DEF EndSession, At, IInv, Sound, Errand
    <2> QED BY <1>3, <2>1, <2>2
  <1>4. ASSUME NEW d \in Commands, NEW p \in Projects, NEW kind, NEW write, Begin(d, p, kind, write) PROVE FALSE
    <2>1. d # c
      BY <1>1, <1>4 DEF Begin
    <2> DEFINE v == [Idle EXCEPT !.kind = kind, !.project = p, !.write = write,
                                 !.pc = IF kind = "launch" THEN "look" ELSE "acquire"]
    <2>2. cmd' = [cmd EXCEPT ![d] = v]
      BY <1>4 DEF Begin
    <2> HIDE DEF v
    <2> QED BY <1>2, <2>1, <2>2, CommandMoves
  <1>5. ASSUME NEW d \in Commands, Crash(d) PROVE FALSE
    <2> DEFINE v == Idle
    <2>1. v.report.by = "none"
      BY DEF Idle, NoReport
    <2>2. cmd' = [cmd EXCEPT ![d] = v]
      BY <1>5 DEF Crash
    <2> HIDE DEF v
    <2> QED BY <1>2, <2>1, <2>2, CommandMoves
  <1>6. ~Disturbed
    BY <1>2 DEF Disturbed
  <1>7. ~UNCHANGED vars
    BY <1>2 DEF vars
  <1>8. ~Environment
    BY <1>5, <1>6 DEF Environment, EditBundle, EditLock, EditWorkspace, DamageStore, Republish
  <1> QED BY <1>3, <1>4, <1>7, <1>8 DEF Next

LEMMA UpdateStepTells ==
    ASSUME IInv, NEW c \in Commands, Step(c), cmd[c].kind = "update",
           cmd'[c].report.by = "update", cmd'[c].report.ok, cmd'[c].report.wrote
    PROVE  /\ bundle[cmd[c].project] \notin {Absent, Broken}
           /\ cmd[c].proposal.digest = Digest(bundle[cmd[c].project])
  <1>1. Errand(c) /\ Proposed(c) /\ cmd = [y \in Commands |-> cmd[y]]
    BY DEF IInv, Disk, Sound
  <1>2. ASSUME ~At(c, "idle"), cmd'[c].report = cmd[c].report PROVE FALSE
    BY <1>1, <1>2 DEF Errand, NoReport
  <1>3. ASSUME NEW next, Goto(c, next), ~At(c, "idle") PROVE FALSE
    <2>1. cmd'[c].report = cmd[c].report
      BY <1>1, <1>3 DEF Goto, Errand, Fields
    <2> QED BY <1>2, <1>3, <2>1
  <1>4. ASSUME NEW ok, NEW wrote, Report(c, ok, wrote) PROVE ok /\ wrote
    <2>1. cmd'[c].report = [by |-> cmd[c].kind, ok |-> ok, wrote |-> wrote]
      BY <1>4, ReportEnds
    <2> QED BY <2>1
  <1>5. ~Acquire(c) /\ ~Publish(c) /\ ~RecheckBundle(c) /\ ~Rebuild(c) /\ ~RereadLock(c)
    BY <1>3, <1>4 DEF Acquire, Publish, RecheckBundle, Rebuild, RereadLock, At
  <1>6. ~ReadBundle(c)
    <2>1. SUFFICES ASSUME ReadBundle(c), ~Report(c, FALSE, FALSE) PROVE FALSE
      BY <1>4
    <2>2. PICK t, n : cmd' = [cmd EXCEPT ![c].text = bundle[cmd[c].project], ![c].todo = t, ![c].pc = n]
      BY <2>1 DEF ReadBundle
    <2>3. cmd'[c].report = cmd[c].report
      BY <1>1, <2>2 DEF Errand, Fields
    <2> QED BY <1>2, <2>1, <2>3 DEF ReadBundle, At
  <1>7. ~Resolve(c)
    <2>1. SUFFICES ASSUME Resolve(c) PROVE FALSE
      OBVIOUS
    <2>2. cmd'[c].report = cmd[c].report
      <3>1. CASE cmd' = [cmd EXCEPT ![c].todo = Rest(c), ![c].failed = TRUE]
        BY <1>1, <3>1 DEF Errand, Fields
      <3>2. CASE \E e : cmd' = [cmd EXCEPT ![c].todo = Rest(c), ![c].evidence = e]
        BY <1>1, <3>2 DEF Errand, Fields
      <3> QED BY <2>1, <3>1, <3>2 DEF Resolve
    <2> QED BY <1>2, <2>1, <2>2 DEF Resolve, At
  <1>8. ~BuildProposal(c)
    <2>1. SUFFICES ASSUME BuildProposal(c), ~Report(c, FALSE, FALSE) PROVE FALSE
      BY <1>4
    <2>2. PICK l : cmd' = [cmd EXCEPT ![c].proposal = l, ![c].pc = "recheck"]
      BY <2>1 DEF BuildProposal
    <2>3. cmd'[c].report = cmd[c].report
      BY <1>1, <2>2 DEF Errand, Fields
    <2> QED BY <1>2, <2>1, <2>3 DEF BuildProposal, At
  <1>9. ~Sync(c) /\ ~Inspect(c)
    BY <1>1 DEF Errand, At, Sync, Inspect, JudgeSync, SkipExact, Fetch, Displace, Install, InstallFails,
                LookAtBundle, InspectStarts, LookAtLock, LookAtTrees
  <1>10. ConfirmBundle(c)
    BY <1>5, <1>6, <1>7, <1>8, <1>9 DEF Step, Update
  <1>11. bundle[cmd[c].project] = cmd[c].text
    BY <1>4, <1>10 DEF ConfirmBundle
  <1> QED BY <1>1, <1>10, <1>11 DEF Proposed, ConfirmBundle, At

-----------------------------------------------------------------------------
(* What a sync repairs. *)

\* Where installing packages helps, what is not as pinned is a package to
\* install, and with all of them in place there is nothing left to report.
LEMMA RepairableInspection ==
    ASSUME IInv, NEW p, Repairable(p), bundle[p] \in Contracts
    PROVE  /\ BundleCodes(bundle[p]) = {} /\ LockCodes(lock[p]) = {}
           /\ InspectCodes(World(p), bundle[p], lock[p])
                 \subseteq {"package_invalid", "package_missing", "integrity_mismatch"}
           /\ (\A i \in Requests(bundle[p]) :
                  LET q == LockedAs(lock[p], bundle[p].packages[i].id) IN IsExact(Stored(Identity(q)), q))
              => InspectCodes(World(p), bundle[p], lock[p]) = {}
  <1> DEFINE b == bundle[p]
             l == lock[p]
             w == World(p)
             ideal == [World(p) EXCEPT !.store = [id \in Identities |-> ArchiveOf(id[3])]]
             Codes(v, r) == PackageCodes(v, r, LockedAs(l, r.id))
  <1>1. InspectCodes(ideal, b, l) = {}
    BY DEF Repairable
  <1>2. /\ ideal.builtin = w.builtin /\ ideal.workspace = w.workspace /\ w.store = store
        /\ store = [id \in Identities |-> store[id]]
    BY DEF World, IInv, Disk
  <1>3. \A r \in Elements(b.packages) : r.kind \in {"builtin", "workspace", "npm"}
    BY ConstantsAssumption
  <1>4. \A i \in DOMAIN b.packages : b.packages[i].kind = "npm" => i \in Requests(b)
    BY DEF Requests
  <1> HIDE DEF b, l, w, ideal
  <1>5. /\ b # Broken /\ LockCodes(l) = {} /\ BundleCodes(b) = {} /\ l.digest = Digest(b) /\ ~SharedExport(b)
        /\ {r.id : r \in Elements(b.packages)} = {q.id : q \in Elements(l.packages)}
        /\ \A r \in Elements(b.packages) : Codes(ideal, r) = {}
    BY <1>1, InspectedClean
  <1>6. InspectCodes(w, b, l) = UNION {Codes(w, r) : r \in Elements(b.packages)}
    BY <1>5, CleanInspected
  <1>7. ASSUME NEW r \in Elements(b.packages), r.kind # "npm" PROVE Codes(w, r) = {}
    <2>1. InstalledTree(w, r, LockedAs(l, r.id)) = InstalledTree(ideal, r, LockedAs(l, r.id))
      BY <1>2, <1>3, <1>7 DEF InstalledTree
    <2> QED BY <1>2, <1>5, <2>1, SameTreeSameCodes
  <1>8. ASSUME NEW r \in Elements(b.packages), r.kind = "npm"
        PROVE  Codes(w, r) \subseteq {"package_invalid", "package_missing", "integrity_mismatch"}
    BY <1>2, <1>5, <1>8, OtherStore
  <1>9. ASSUME NEW r \in Elements(b.packages), r.kind = "npm",
               \A i \in Requests(b) : IsExact(Stored(Identity(LockedAs(l, b.packages[i].id))), LockedAs(l, b.packages[i].id))
        PROVE  Codes(w, r) = {}
    <2>1. PICK i \in DOMAIN b.packages : r = b.packages[i]
      BY DEF Elements
    <2> DEFINE q == LockedAs(l, r.id)
    <2>2. IsExact(Stored(Identity(q)), q)
      BY <1>4, <1>9, <2>1
    <2> HIDE DEF q
    <2>3. Identity(q) \in DOMAIN w.store /\ IsExact(w.store[Identity(q)], q)
      BY <1>2, <2>2 DEF Stored, IsExact
    <2>4. PackageCodes(ideal, r, q) = {}
      BY <1>5 DEF q
    <2>5. PackageCodes(w, r, q) = {}
      BY <1>2, <1>9, <2>3, <2>4, OtherStore
    <2> QED BY <2>5 DEF q
  <1>10. InspectCodes(w, b, l) \subseteq {"package_invalid", "package_missing", "integrity_mismatch"}
    <2> HIDE DEF Codes
    <2> QED BY <1>6, <1>7, <1>8
  <1>11. (\A i \in Requests(b) : IsExact(Stored(Identity(LockedAs(l, b.packages[i].id))), LockedAs(l, b.packages[i].id)))
         => InspectCodes(w, b, l) = {}
    <2> HIDE DEF Codes
    <2> QED BY <1>6, <1>7, <1>9
  <1> QED BY <1>5, <1>10, <1>11 DEF b, l, w

LEMMA SyncStepRepairs ==
    ASSUME IInv, NEW c \in Commands, Step(c), cmd[c].kind = "sync", cmd'[c].report.by = "sync",
           calm[c], calm'[c], Repairable(cmd[c].project)
    PROVE  cmd'[c].report.ok
  <1> DEFINE p == cmd[c].project
  <1>1. /\ Errand(c) /\ Matched(c) /\ Undisturbed(c) /\ Repaired(c) /\ cmd = [y \in Commands |-> cmd[y]]
        /\ calm \in [Commands -> BOOLEAN]
    BY DEF IInv, Disk, Sound
  <1>2. bundle[p] # Absent /\ lock[p] # Absent /\ (~At(c, "idle") => bundle[p] \in Contracts)
    BY <1>1 DEF Repairable, Errand, IInv, Disk
  <1>3. ASSUME ~At(c, "idle"), cmd'[c].report = cmd[c].report PROVE FALSE
    BY <1>1, <1>3 DEF Errand, NoReport
  <1>4. ASSUME NEW ok, NEW wrote, Report(c, ok, wrote) PROVE cmd'[c].report.ok = ok
    <2>1. cmd'[c].report = [by |-> cmd[c].kind, ok |-> ok, wrote |-> wrote]
      BY <1>4, ReportEnds
    <2> QED BY <2>1
  <1>5. CASE Acquire(c)
    <2>1. cmd'[c].report = cmd[c].report
      BY <1>1, <1>5 DEF Acquire, Goto, Errand, Fields
    <2> QED BY <1>3, <1>5, <2>1 DEF Acquire, At
  <1>6. CASE ReadBundle(c)
    <2>1. PICK t, n : cmd' = [cmd EXCEPT ![c].text = bundle[p], ![c].todo = t, ![c].pc = n]
      BY <1>2, <1>6 DEF ReadBundle
    <2>2. cmd'[c].report = cmd[c].report
      BY <1>1, <2>1 DEF Errand, Fields
    <2> QED BY <1>3, <1>6, <2>2 DEF ReadBundle, At
  <1>7. CASE JudgeSync(c)
    <2>1. cmd[c].text = bundle[p]
      BY <1>1, <1>7 DEF JudgeSync, Undisturbed
    <2>2. /\ BundleCodes(bundle[p]) = {} /\ LockCodes(lock[p]) = {}
          /\ InspectCodes(World(p), bundle[p], lock[p]) \cap Hopeless = {}
      <3>1. bundle[p] \in Contracts
        BY <1>2, <1>7 DEF JudgeSync, At
      <3> HIDE DEF p
      <3>2. /\ BundleCodes(bundle[p]) = {} /\ LockCodes(lock[p]) = {}
            /\ InspectCodes(World(p), bundle[p], lock[p]) \subseteq {"package_invalid", "package_missing", "integrity_mismatch"}
        BY <3>1, RepairableInspection DEF p
      <3> QED BY <3>2 DEF Hopeless
    <2>3. CASE Report(c, TRUE, FALSE)
      BY <1>4, <2>3
    <2>4. CASE ~Report(c, TRUE, FALSE)
      <3>1. cmd' = [cmd EXCEPT ![c].pinned = lock[p], ![c].todo = Requests(cmd[c].text), ![c].pc = "check"]
        BY <1>2, <1>7, <2>1, <2>2, <2>4 DEF JudgeSync
      <3>2. cmd'[c].report = cmd[c].report
        BY <1>1, <3>1 DEF Errand, Fields
      <3> QED BY <1>3, <1>7, <3>2 DEF JudgeSync, At
    <2> QED BY <2>3, <2>4
  <1>8. CASE SkipExact(c) \/ Displace(c) \/ Install(c)
    <2>1. cmd'[c].report = cmd[c].report
      BY <1>1, <1>8 DEF SkipExact, Displace, Install, Errand, Fields
    <2> QED BY <1>3, <1>8, <2>1 DEF SkipExact, Displace, Install, At
  <1>9. CASE Fetch(c)
    <2> DEFINE answer == Fetched(Asked(c), Current(c))
    <2>1. At(c, "check") /\ cmd[c].todo # {} /\ Syncing(c)
      BY <1>9 DEF Fetch, Syncing, At
    <2>2. /\ First(cmd[c].todo) \in Requests(cmd[c].text) /\ Current(c) = Pinned(c, First(cmd[c].todo))
          /\ Current(c).package = Asked(c).package
      BY <2>1, AtPackage
    <2>3. answer # Absent => answer.tree = ArchiveOf(Current(c).artifact)
      BY <2>2, FetchedIsArchive
    <2>4. IsExact(ArchiveOf(Current(c).artifact), Current(c))
      BY <2>1, <2>2, UndisturbedPins
    <2>5. ~calm'[c] \/ (cmd' = [cmd EXCEPT ![c].tree = answer.tree, ![c].pc = "displace"])
      <3> HIDE DEF answer
      <3>1. calm' = [calm EXCEPT ![c] = FALSE] => ~calm'[c]
        BY <1>1
      <3> QED BY <1>9, <2>3, <2>4, <3>1 DEF Fetch, answer
    <2> HIDE DEF answer
    <2>6. cmd'[c].report = cmd[c].report
      BY <1>1, <2>5 DEF Errand, Fields
    <2> QED BY <1>3, <2>1, <2>6 DEF At
  <1>10. CASE InstallFails(c)
    BY <1>1, <1>10 DEF InstallFails
  <1>11. CASE LookAtBundle(c)
    <2>1. cmd' = [cmd EXCEPT ![c].text = bundle[p], ![c].pc = "look_lock"]
      BY <1>2, <1>11 DEF LookAtBundle
    <2>2. cmd'[c].report = cmd[c].report
      BY <1>1, <2>1 DEF Errand, Fields
    <2> QED BY <1>3, <1>11, <2>2 DEF LookAtBundle, InspectStarts, At
  <1>12. CASE LookAtLock(c)
    <2>1. cmd' = [cmd EXCEPT ![c].pinned = lock[p], ![c].pc = "look_trees"]
      BY <1>2, <1>12 DEF LookAtLock
    <2>2. cmd'[c].report = cmd[c].report
      BY <1>1, <2>1 DEF Errand, Fields
    <2> QED BY <1>3, <1>12, <2>2 DEF LookAtLock, At
  <1>13. CASE LookAtTrees(c)
    <2>1. Syncing(c) /\ cmd[c].todo = {}
      BY <1>1, <1>13 DEF LookAtTrees, Syncing, Matched, At
    <2>2. cmd[c].text = bundle[p] /\ cmd[c].pinned = lock[p]
      BY <1>1, <2>1 DEF Undisturbed
    <2>3. \A i \in Requests(bundle[p]) :
              LET q == LockedAs(lock[p], bundle[p].packages[i].id) IN IsExact(Stored(Identity(q)), q)
      BY <1>1, <2>1, <2>2 DEF Repaired, Pinned
    <2>4. InspectCodes(World(p), cmd[c].text, cmd[c].pinned) = {}
      <3>1. bundle[p] \in Contracts
        BY <1>2, <1>13 DEF LookAtTrees, At
      <3> QED BY <2>2, <2>3, <3>1, RepairableInspection
    <2>5. Report(c, TRUE, cmd[c].changed)
      BY <1>13, <2>4 DEF LookAtTrees
    <2> QED BY <1>4, <2>5
  <1>14. ~Update(c)
    BY <1>1 DEF Errand, At, Update, Resolve, BuildProposal, RecheckBundle, Rebuild, Publish, RereadLock, ConfirmBundle
  <1> QED BY <1>5, <1>6, <1>7, <1>8, <1>9, <1>10, <1>11, <1>12, <1>13, <1>14 DEF Step, Sync, Inspect

-----------------------------------------------------------------------------
(* The theorems. *)

\* Every variable keeps its type, and a command holds the mutation lock
\* exactly from its first read to its report.
THEOREM TypeCorrect == Spec => []TypeOK
  <1>1. IInv => TypeOK
    BY DEF IInv, Disk, LockDiscipline, Sound, Errand, Guarded, TypeOK, At
  <1> QED BY <1>1, Invariance, PTL

\* Whatever is in the store and was not damaged from outside is the whole tree
\* of its archive, at every moment of every sync and after every crash.
THEOREM StoreIsWhole == Spec => []StoreHoldsArchives
  <1>1. IInv => StoreHoldsArchives
    BY DEF IInv
  <1> QED BY <1>1, Invariance, PTL

\* No sync takes a checked package away from under a running session.
THEOREM SessionIsKept == Spec => []SessionKeepsItsPackages
  <1>1. IInv => SessionKeepsItsPackages
    BY DEF IInv, Sound, Kept, SessionKeepsItsPackages
  <1> QED BY <1>1, Invariance, PTL

\* An update reports a written lock only for the contract then on disk.
THEOREM UpdateTellsTheTruth == Spec => UpdateReportIsTrue
  <1> DEFINE A == \A c \in Commands :
                     /\ cmd[c].kind = "update" /\ cmd'[c].report.by = "update"
                     /\ cmd'[c].report.ok /\ cmd'[c].report.wrote /\ lock[cmd[c].project] = cmd[c].proposal
                     => /\ bundle[cmd[c].project] \notin {Absent, Broken}
                        /\ lock[cmd[c].project].digest = Digest(bundle[cmd[c].project])
  <1>1. IInv /\ [Next]_vars => [A]_vars
    BY OwnReport, UpdateStepTells
  <1> QED BY <1>1, Invariance, PTL DEF Spec, UpdateReportIsTrue

\* A sync around which nothing happens ends well wherever installing can help.
THEOREM SyncEndsWell == Spec => SyncRepairs
  <1> DEFINE A == \A c \in Commands :
                     cmd[c].kind = "sync" /\ cmd'[c].report.by = "sync" /\ calm[c] /\ calm'[c] /\ Repairable(cmd[c].project)
                         => cmd'[c].report.ok
  <1>1. IInv /\ [Next]_vars => [A]_vars
    BY OwnReport, SyncStepRepairs
  <1> QED BY <1>1, Invariance, PTL DEF Spec, SyncRepairs

=============================================================================
