---------------------------- MODULE Distribution ----------------------------
(***************************************************************************)
(* The rules of a portable project's packages: what a valid contract       *)
(* (.nopal/bundle.jsonc) and a valid lock (.nopal/nopal.lock) are, how a   *)
(* lock is built from a contract and the package trees at hand, and what   *)
(* "current" means: nopal-core/distribution.rs.  Operators only; the       *)
(* commands that use them are in Packages.                                 *)
(*                                                                         *)
(* A world w is what these rules look at on a machine:                     *)
(*   w.builtin    the executing Nopal distribution, [version, files]       *)
(*   w.workspace  root -> a package of the repository or Absent            *)
(*   w.store      identity -> an installed package or Absent               *)
(* where a package is [name, version, files] and files maps a path to a    *)
(* content, Absent or Link.  A digest is modelled by what it digests.      *)
(***************************************************************************)
EXTENDS Naturals, Sequences

CONSTANTS Absent,      \* no such file, package or document
          Broken,      \* a document that does not parse
          Link,        \* a symbolic link or special file in a package tree
          PortableIds, \* well-formed package identifiers
          Names,       \* well-formed package names
          Versions,    \* exact semantic versions
          SafePaths,   \* canonical package-relative paths, "." included
          Registries,  \* credential-free https registries
          Sris         \* well-formed SHA-512 integrities

Elements(s) == {s[i] : i \in DOMAIN s}
Repeats(s) == \E i, j \in DOMAIN s : i # j /\ s[i] = s[j]
If(condition, code) == IF condition THEN {code} ELSE {}

(***************************************************************************)
(* Trees and their digests                                                 *)
(***************************************************************************)

\* The files a digest of the whole tree covers; a link makes it fail.
Hashable(tree) == \A path \in DOMAIN tree.files : tree.files[path] # Link
HashTree(tree) == IF tree # Absent /\ Hashable(tree) THEN tree ELSE Absent
HashAt(tree, path) ==
    IF path = "." THEN HashTree(tree)
    ELSE IF path \in DOMAIN tree.files /\ tree.files[path] # Link THEN tree.files[path]
    ELSE Absent

\* The adapter's entry point pulls its support files into the digest.
Entry == "index.ts"
Support == {"guard.ts"}
Covered(request) ==
    LET exported == {r.path : r \in Elements(request.resources)}
    IN  exported \cup (IF \E r \in Elements(request.resources) : r.kind = "extension" /\ r.path = Entry
                       THEN Support ELSE {})

\* Of the builtin package only the exported files count.
HashBuiltin(w, request) ==
    IF "." \in Covered(request) THEN HashTree(w.builtin)
    ELSE IF \E path \in Covered(request) : HashAt(w.builtin, path) = Absent THEN Absent
    ELSE [path \in Covered(request) |-> w.builtin.files[path]]

TreeHash(w, request, tree) ==
    IF request.kind = "builtin" THEN HashBuiltin(w, request) ELSE HashTree(tree)

(***************************************************************************)
(* Contract and lock documents.  The codes are the errors reported.        *)
(***************************************************************************)

IsNopal(request) == request.kind = "builtin" /\ request.package = "nopal"

RequestCodes(r) ==
    If(r.id \notin PortableIds, "package_invalid")
    \cup If(r.package \notin Names, "package_invalid")
    \cup If(r.requirement \notin Versions, "package_invalid")
    \cup If(r.kind = "workspace" /\ r.where \notin SafePaths, "package_invalid")
    \cup If(r.kind = "npm" /\ r.where \notin Registries, "package_invalid")
    \cup If(Repeats(r.resources), "package_invalid")
    \cup If(\E x \in Elements(r.resources) : x.path \notin SafePaths, "package_invalid")
    \cup If(~IsNopal(r) /\ \E x \in Elements(r.resources) : x.kind = "extension", "source_unsupported")

(* The ambient kinds are known names: an unknown one only warns. Broken      *)
(* stands for a value that is neither a boolean nor a list.                  *)
BundleCodes(b) ==
    IF b = Broken THEN {"parse_error"}
    ELSE If(b.version # "v2", "version_unsupported")
         \cup If(Repeats([i \in DOMAIN b.packages |-> b.packages[i].id]), "duplicate_id")
         \cup If(b.ambient = Broken, "field_invalid")
         \cup UNION {RequestCodes(r) : r \in Elements(b.packages)}

LockedCodes(p) ==
    If(p.id \notin PortableIds \/ p.resolved \notin Versions, "lock_parse_error")
    \cup If(p.kind = "npm" /\ p.artifact \notin Sris, "lock_parse_error")
    \cup If(p.kind # "npm" /\ p.artifact # p.tree, "lock_drift")
    \cup If(\E x \in p.resources : x.path \notin SafePaths \/ x.hash = Absent, "lock_parse_error")

LockCodes(l) ==
    IF l = Broken THEN {"lock_parse_error"}
    ELSE If(l.version # "v1", "version_unsupported")
         \cup If(Repeats([i \in DOMAIN l.packages |-> l.packages[i].id]), "duplicate_id")
         \cup UNION {LockedCodes(p) : p \in Elements(l.packages)}

\* Normalization: the order of packages and of resources does not count.
Digest(b) ==
    [ambient |-> b.ambient,
     packages |-> {[r EXCEPT !.resources = Elements(r.resources)] : r \in Elements(b.packages)}]

(***************************************************************************)
(* Building a lock.  ev maps package identifiers to npm evidence           *)
(* [version, artifact, tree] that the adapter has resolved.                *)
(***************************************************************************)

NoEvidence == [id \in {} |-> Absent]

\* The tree a request resolves to, its version, or why it does not.
SourceTree(w, r, ev) ==
    CASE r.kind = "builtin" -> w.builtin
      [] r.kind = "workspace" -> w.workspace[r.where]
      [] r.kind = "npm" -> ev[r.id].tree

ResolveCodes(w, r, ev) ==
    CASE r.kind = "builtin" /\ ~IsNopal(r) -> {"source_unsupported"}
      [] IsNopal(r) -> If(r.requirement # w.builtin.version, "package_invalid")
      [] r.kind = "workspace" ->
            IF r.where \notin DOMAIN w.workspace THEN {"package_invalid"}
            ELSE IF w.workspace[r.where] = Absent THEN {"package_missing"}
            ELSE If(w.workspace[r.where].name # r.package, "package_invalid")
                 \cup If(w.workspace[r.where].version # r.requirement, "package_invalid")
      [] r.kind = "npm" ->
            IF r.id \notin DOMAIN ev THEN {"source_unsupported"}
            ELSE If(ev[r.id].version \notin Versions \/ ev[r.id].artifact \notin Sris, "package_invalid")
                 \cup If(ev[r.id].version # r.requirement, "lock_drift")
                 \cup If(ev[r.id].tree.name # r.package, "package_invalid")
                 \cup If(ev[r.id].tree.version # ev[r.id].version, "package_invalid")

ExportCodes(w, r, ev) ==
    LET tree == SourceTree(w, r, ev)
    IN  If(TreeHash(w, r, tree) = Absent, "package_missing")
        \cup If(\E x \in Elements(r.resources) : HashAt(tree, x.path) = Absent, "package_missing")

\* Two exports of one file: packages may share a workspace root.
Canonical(r, x) == <<r.kind, IF r.kind = "workspace" THEN r.where ELSE r.id, x.path>>
Owners(b) == {<<i, x>> : i \in DOMAIN b.packages, x \in UNION {Elements(r.resources) : r \in Elements(b.packages)}}
SharedExport(b) ==
    \E o, q \in {o \in Owners(b) : o[2] \in Elements(b.packages[o[1]].resources)} :
        o # q /\ Canonical(b.packages[o[1]], o[2]) = Canonical(b.packages[q[1]], q[2])

BuildCodes(w, b, ev) ==
    IF BundleCodes(b) # {} THEN BundleCodes(b)
    ELSE LET unresolved == UNION {ResolveCodes(w, r, ev) : r \in Elements(b.packages)}
             resolved == {r \in Elements(b.packages) : ResolveCodes(w, r, ev) = {}}
         IN  unresolved \cup If(SharedExport(b), "package_invalid")
             \cup UNION {ExportCodes(w, r, ev) : r \in resolved}

Locked(w, r, ev) ==
    LET tree == SourceTree(w, r, ev)
        hash == TreeHash(w, r, tree)
    IN  [id |-> r.id, kind |-> r.kind, package |-> r.package, where |-> r.where,
         resolved |-> r.requirement,
         artifact |-> IF r.kind = "npm" THEN ev[r.id].artifact ELSE hash,
         tree |-> hash,
         resources |-> {[kind |-> x.kind, path |-> x.path, hash |-> HashAt(tree, x.path)]
                            : x \in Elements(r.resources)}]

BuiltLock(w, b, ev) ==
    [version |-> "v1", digest |-> Digest(b),
     packages |-> [i \in DOMAIN b.packages |-> Locked(w, b.packages[i], ev)]]

(***************************************************************************)
(* Inspection: is what is installed what the lock of this contract pins?   *)
(***************************************************************************)

Identity(p) == <<p.package, p.resolved, p.artifact>>

InstalledTree(w, r, p) ==
    CASE r.kind = "builtin" -> w.builtin
      [] r.kind = "workspace" -> IF r.where \in DOMAIN w.workspace THEN w.workspace[r.where] ELSE Absent
      [] r.kind = "npm" -> IF Identity(p) \in DOMAIN w.store THEN w.store[Identity(p)] ELSE Absent

ResourceCodes(tree, p) ==
    UNION {IF HashAt(tree, x.path) = Absent THEN {"package_missing"}
           ELSE If(HashAt(tree, x.path) # x.hash, "integrity_mismatch") : x \in p.resources}

\* The checks of one package in their order: each stops at the first failure.
PackageCodes(w, r, p) ==
    LET tree == InstalledTree(w, r, p)
        exports == {[kind |-> x.kind, path |-> x.path] : x \in Elements(r.resources)}
    IN  IF <<p.kind, p.package, p.where>> # <<r.kind, r.package, r.where>> THEN {"lock_drift"}
        ELSE IF r.requirement # p.resolved THEN {"lock_drift"}
        ELSE IF r.kind = "builtin" /\ ~IsNopal(r) THEN {"source_unsupported"}
        ELSE IF r.kind = "builtin" /\ p.resolved # w.builtin.version THEN {"package_missing"}
        ELSE IF tree = Absent THEN {"package_invalid"}
        ELSE IF r.kind # "builtin" /\ tree.name # r.package THEN {"package_invalid"}
        ELSE IF r.kind # "builtin" /\ tree.version # p.resolved THEN {"integrity_mismatch"}
        ELSE IF TreeHash(w, r, tree) = Absent THEN {"package_missing"}
        ELSE IF TreeHash(w, r, tree) # p.tree THEN {"integrity_mismatch"}
        ELSE IF exports # {[kind |-> x.kind, path |-> x.path] : x \in p.resources} THEN {"lock_drift"}
        ELSE ResourceCodes(tree, p)

LockedAs(l, id) == CHOOSE p \in Elements(l.packages) : p.id = id

InspectCodes(w, b, l) ==
    IF b = Broken \/ LockCodes(l) # {} THEN BundleCodes(b) \cup LockCodes(l)
    ELSE LET asked == {r.id : r \in Elements(b.packages)}
             held == {p.id : p \in Elements(l.packages)}
         IN  BundleCodes(b)
             \cup If(l.digest # Digest(b), "lock_drift")
             \cup If(asked # held, "lock_drift")
             \cup If(SharedExport(b), "package_invalid")
             \cup UNION {PackageCodes(w, r, LockedAs(l, r.id)) : r \in {r \in Elements(b.packages) : r.id \in held}}

\* What a report of an inspection without errors hands to the launch.
Exports(w, b, l) ==
    {<<r.id, x, HashAt(InstalledTree(w, r, LockedAs(l, r.id)), x.path)>> :
        r \in Elements(b.packages), x \in UNION {Elements(r.resources) : r \in Elements(b.packages)}}

(***************************************************************************)
(* npm: how a sync decides and what it verifies                            *)
(***************************************************************************)

\* These need an edit or an update; installing packages does not help.
Hopeless == {"bundle_missing", "parse_error", "lock_missing", "lock_parse_error", "lock_drift",
             "version_unsupported", "source_unsupported"}

\* The installed package is what the lock pins, in whole and in each export.
IsExact(tree, p) ==
    /\ tree # Absent
    /\ HashTree(tree) = p.tree
    /\ \A x \in p.resources : HashAt(tree, x.path) = x.hash

\* The registry's answer passes the checks of resolve_npm: the archive's bytes
\* have the integrity the answer names and its manifest the asked identity.
Acceptable(answer, package) ==
    /\ answer.artifact \in Sris
    /\ answer.tree.name = package
    /\ answer.tree.version = answer.version
    /\ Hashable(answer.tree)

\* It is the very archive that the lock names.
Pins(p, answer) == answer.version = p.resolved /\ answer.artifact = p.artifact
=============================================================================
