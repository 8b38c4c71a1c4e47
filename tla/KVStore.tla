------------------------------ MODULE KVStore ------------------------------
(***************************************************************************)
(* The versioned key-value secrets of internal/secrets/kv.go, as the HTTP  *)
(* handlers of internal/api/kv_handlers.go drive them.                     *)
(*                                                                         *)
(* A secret at a path is a metadata record, `secrets/kv/<path>/__meta`,    *)
(* and one record per version, `secrets/kv/<path>/v<n>`.  Each request     *)
(* runs in a goroutine of its own (a worker here) and touches the store    *)
(* through db.Get, db.Set and db.Delete, each of them one transaction:     *)
(* one action per call, so that requests interleave between any two calls. *)
(* There is no lock over the calls of one request.                         *)
(***************************************************************************)
EXTENDS Integers, FiniteSets

CONSTANTS
    Paths,      \* secret paths
    Values,     \* secret values (opaque, they are encrypted at rest)
    NoValue,    \* no record under a version key
    NoRequest,  \* the worker has served no request yet
    Workers,    \* goroutines serving requests
    Writers,    \* Writers[p]: the workers that send set, delete, rollback for p
    Window,     \* maxVersions of the code
    MaxVer,     \* bound on version numbers explored
    Faults      \* what can go wrong: "read", "write" (a db call fails), "crash"

ASSUME WindowAssumption == Window \in Nat \ {0}
ASSUME MaxVerAssumption == MaxVer \in Nat
ASSUME WritersAssumption == Writers \in [Paths -> SUBSET Workers]
ASSUME NoValueAssumption == NoValue \notin Values
ASSUME FaultsAssumption == Faults \subseteq {"read", "write", "crash"}

VersionNumbers == 1..MaxVer

Mutations == {"set", "delete", "rollback"}
Ops == {"get", "versions"} \cup Mutations

(* version = 0 asks for the latest; val is what a set writes. *)
Requests == [op : Ops, path : Paths, val : Values \cup {NoValue},
             version : 0..MaxVer]

ASSUME NoRequestAssumption == NoRequest \notin Requests

(* What the worker last answered: nothing yet, a secret, a listing, that a *)
(* mutation is done, that the metadata refuses the request, that the       *)
(* version is not there, or that a db call failed.                         *)
Statuses == {"none", "value", "listed", "done", "refused", "missing", "failed"}

VARIABLES
    meta,    \* meta[p]: the record __meta; cv = 0 while there is none
    ver,     \* ver[p][n]: the record v<n>, or NoValue
    pc,      \* pc[w]: the db call the worker is about to make
    req,     \* req[w]: the request it serves
    cv,      \* cv[w]: the version number its goroutine holds
    todo,    \* todo[w]: versions a listing has still to read
    found,   \* found[w]: versions a listing has read
    out,     \* out[w]: the status of the worker's last answer
    (* History, read by properties only. *)
    hi,      \* hi[p]: the highest version any __meta of p has named
    leaked,  \* leaked[p]: versions whose prune never took effect
    floor    \* floor[w]: hi of the path when the request arrived

store == <<meta, ver>>
local == <<pc, req, cv, todo, found, out>>
history == <<hi, leaked, floor>>
vars == <<store, local, history>>

PCs == {"idle", "getMeta", "getVersion", "setMeta", "writeVersion", "writeMeta",
        "prune", "deleteMeta", "writeDeleted", "listMeta", "listVersions"}

StoreTyped ==
    /\ meta \in [Paths -> [cv : 0..MaxVer, deleted : BOOLEAN]]
    /\ ver \in [Paths -> [VersionNumbers -> Values \cup {NoValue}]]

LocalTyped ==
    /\ pc \in [Workers -> PCs]
    /\ req \in [Workers -> Requests \cup {NoRequest}]
    /\ cv \in [Workers -> 0..MaxVer]
    /\ todo \in [Workers -> SUBSET VersionNumbers]
    /\ found \in [Workers -> SUBSET VersionNumbers]
    /\ out \in [Workers -> Statuses]
    /\ \A w \in Workers : pc[w] # "idle" => req[w] \in Requests

HistoryTyped ==
    /\ hi \in [Paths -> 0..MaxVer]
    /\ leaked \in [Paths -> SUBSET Int]
    /\ floor \in [Workers -> 0..MaxVer]

TypeOK == StoreTyped /\ LocalTyped /\ HistoryTyped

Init ==
    /\ meta = [p \in Paths |-> [cv |-> 0, deleted |-> FALSE]]
    /\ ver = [p \in Paths |-> [n \in VersionNumbers |-> NoValue]]
    /\ pc = [w \in Workers |-> "idle"]
    /\ req = [w \in Workers |-> NoRequest]
    /\ cv = [w \in Workers |-> 0]
    /\ todo = [w \in Workers |-> {}]
    /\ found = [w \in Workers |-> {}]
    /\ out = [w \in Workers |-> "none"]
    /\ hi = [p \in Paths |-> 0]
    /\ leaked = [p \in Paths |-> {}]
    /\ floor = [w \in Workers |-> 0]

Path(w) == req[w].path
Goto(w, label) == pc' = [pc EXCEPT ![w] = label]

(* A read answers with what the worker holds; any other answer leaves      *)
(* nothing of the request behind.                                          *)
Answer(w, status) ==
    /\ Goto(w, "idle")
    /\ out' = [out EXCEPT ![w] = status]
    /\ UNCHANGED <<req, cv, todo, found>>

Finish(w, status) ==
    /\ Goto(w, "idle")
    /\ out' = [out EXCEPT ![w] = status]
    /\ req' = [req EXCEPT ![w] = NoRequest]
    /\ cv' = [cv EXCEPT ![w] = 0]
    /\ todo' = [todo EXCEPT ![w] = {}]
    /\ found' = [found EXCEPT ![w] = {}]

(***************************************************************************)
(* A request arrives.  The handler of a rollback refuses a version below 1 *)
(* before it reaches the store.                                            *)
(***************************************************************************)
FirstCall(op) ==
    CASE op \in {"get", "rollback"} -> "getMeta"
      [] op = "set"                 -> "setMeta"
      [] op = "delete"              -> "deleteMeta"
      [] op = "versions"            -> "listMeta"

Start(w, r) ==
    /\ pc[w] = "idle"
    /\ r.op \in Mutations => w \in Writers[r.path]
    /\ r.op = "set" <=> r.val # NoValue
    /\ r.op = "rollback" => r.version >= 1
    /\ r.op \in {"set", "delete", "versions"} => r.version = 0
    /\ req' = [req EXCEPT ![w] = r]
    /\ Goto(w, FirstCall(r.op))
    /\ out' = [out EXCEPT ![w] = "none"]
    /\ cv' = [cv EXCEPT ![w] = 0]
    /\ found' = [found EXCEPT ![w] = {}]
    /\ floor' = [floor EXCEPT ![w] = IF r.op = "get" THEN hi[r.path] ELSE 0]
    /\ UNCHANGED <<store, todo, hi, leaked>>

(***************************************************************************)
(* Get, and the Get inside Rollback: the metadata, then the version.       *)
(***************************************************************************)
Wanted(w) ==
    IF req[w].version = 0 THEN meta[Path(w)].cv ELSE req[w].version

(* Mutant: the range check of kv.go:51 without its upper end.              *)
Readable_NoUpperEnd(w) ==
    /\ meta[Path(w)].cv > 0
    /\ ~ meta[Path(w)].deleted
    /\ Wanted(w) \in VersionNumbers

Readable(w) ==
    /\ meta[Path(w)].cv > 0
    /\ ~ meta[Path(w)].deleted
    /\ Wanted(w) \in 1..meta[Path(w)].cv

GetMeta(w) ==
    /\ pc[w] = "getMeta"
    /\ \/ /\ Readable(w)
          /\ cv' = [cv EXCEPT ![w] = Wanted(w)]
          /\ Goto(w, "getVersion")
          /\ UNCHANGED <<req, todo, found, out>>
       \/ /\ ~ Readable(w)
          /\ Finish(w, "refused")
    /\ UNCHANGED <<store, history>>

GetVersion(w) ==
    LET v == ver[Path(w)][cv[w]]
    IN  /\ pc[w] = "getVersion"
        /\ \/ /\ v = NoValue
              /\ Answer(w, "missing")
           \/ /\ v # NoValue
              /\ req[w].op = "get"
              /\ Answer(w, "value")
           \/ /\ v # NoValue
              /\ req[w].op = "rollback"
              /\ req' = [req EXCEPT ![w].val = v]
              /\ Goto(w, "setMeta")
              /\ UNCHANGED <<cv, todo, found, out>>
        /\ UNCHANGED <<store, history>>

(***************************************************************************)
(* Set: read the metadata, write version cv+1, write the metadata, prune   *)
(* the version that leaves the window.  MaxVer bounds the exploration.     *)
(***************************************************************************)
(* Mutant: numbering starts over when a deleted secret is written again.   *)
NextVersion_Restart(m) == IF m.deleted THEN 1 ELSE m.cv + 1

NextVersion(m) == m.cv + 1

SetMeta(w) ==
    /\ pc[w] = "setMeta"
    /\ NextVersion(meta[Path(w)]) <= MaxVer
    /\ cv' = [cv EXCEPT ![w] = NextVersion(meta[Path(w)])]
    /\ Goto(w, "writeVersion")
    /\ UNCHANGED <<store, req, todo, found, out, history>>

WriteVersion(w) ==
    /\ pc[w] = "writeVersion"
    /\ ver' = [ver EXCEPT ![Path(w)][cv[w]] = req[w].val]
    /\ Goto(w, "writeMeta")
    /\ UNCHANGED <<meta, req, cv, todo, found, out, history>>

Raise(old, n) == IF n > old THEN n ELSE old

WriteMeta(w) ==
    /\ pc[w] = "writeMeta"
    /\ meta' = [meta EXCEPT ![Path(w)] = [cv |-> cv[w], deleted |-> FALSE]]
    /\ hi' = [hi EXCEPT ![Path(w)] = Raise(@, cv[w])]
    /\ \/ /\ cv[w] > Window
          /\ Goto(w, "prune")
          /\ UNCHANGED <<req, cv, todo, found, out>>
       \/ /\ cv[w] <= Window
          /\ Finish(w, "done")
    /\ UNCHANGED <<ver, leaked, floor>>

(* Mutants: the prune of kv.go:87 one version too early, or too late.      *)
PruneTarget_Early(n) == n - Window + 1
PruneTarget_Late(n) == n - Window - 1

PruneTarget(n) == n - Window

Prune(w) ==
    /\ pc[w] = "prune"
    /\ ver' = [ver EXCEPT ![Path(w)][PruneTarget(cv[w])] = NoValue]
    /\ Finish(w, "done")
    /\ UNCHANGED <<meta, history>>

(***************************************************************************)
(* Delete: mark the metadata deleted; no version record is touched.        *)
(***************************************************************************)
DeleteMeta(w) ==
    /\ pc[w] = "deleteMeta"
    /\ \/ /\ meta[Path(w)].cv > 0
          /\ cv' = [cv EXCEPT ![w] = meta[Path(w)].cv]
          /\ Goto(w, "writeDeleted")
          /\ UNCHANGED <<req, todo, found, out>>
       \/ /\ meta[Path(w)].cv = 0
          /\ Finish(w, "refused")
    /\ UNCHANGED <<store, history>>

(* Mutant: deleting forgets the version number.                            *)
DeletedRecord_Forgets(n) == [cv |-> 0, deleted |-> TRUE]

DeletedRecord(n) == [cv |-> n, deleted |-> TRUE]

WriteDeleted(w) ==
    /\ pc[w] = "writeDeleted"
    /\ meta' = [meta EXCEPT ![Path(w)] = DeletedRecord(cv[w])]
    /\ Finish(w, "done")
    /\ UNCHANGED <<ver, history>>

(***************************************************************************)
(* Versions: the metadata, deleted or not, then every version of the       *)
(* window in ascending order; one that cannot be read is left out.         *)
(***************************************************************************)
(* Mutant: the listing's first version is not clamped to 1 (kv.go:114).    *)
Retained_Unclamped(n) == {k \in (n - Window + 1)..n : TRUE}

Retained(n) == {k \in VersionNumbers : k > n - Window /\ k <= n}

ListMeta(w) ==
    /\ pc[w] = "listMeta"
    /\ \/ /\ meta[Path(w)].cv > 0
          /\ cv' = [cv EXCEPT ![w] = meta[Path(w)].cv]
          /\ todo' = [todo EXCEPT ![w] = Retained(meta[Path(w)].cv)]
          /\ Goto(w, "listVersions")
          /\ UNCHANGED <<req, found, out>>
       \/ /\ meta[Path(w)].cv = 0
          /\ Finish(w, "refused")
    /\ UNCHANGED <<store, history>>

(* The version the loop reads next: the oldest one left. *)
IsNext(n, versions) == n \in versions /\ \A k \in versions : n <= k

(* Mutant: the loop of kv.go:117-125 ends at the first unreadable version. *)
ListVersion_Breaks(w) ==
    /\ pc[w] = "listVersions"
    /\ \E n \in todo[w] :
         /\ IsNext(n, todo[w])
         /\ IF ver[Path(w)][n] # NoValue
            THEN /\ todo' = [todo EXCEPT ![w] = @ \ {n}]
                 /\ found' = [found EXCEPT ![w] = @ \cup {n}]
            ELSE /\ todo' = [todo EXCEPT ![w] = {}]
                 /\ UNCHANGED found
    /\ UNCHANGED <<store, pc, req, cv, out, history>>

ListVersion(w) ==
    /\ pc[w] = "listVersions"
    /\ \E n \in todo[w] :
         /\ IsNext(n, todo[w])
         /\ todo' = [todo EXCEPT ![w] = @ \ {n}]
         /\ found' = [found EXCEPT ![w] =
                        IF ver[Path(w)][n] # NoValue THEN @ \cup {n} ELSE @]
    /\ UNCHANGED <<store, pc, req, cv, out, history>>

ListDone(w) ==
    /\ pc[w] = "listVersions"
    /\ todo[w] = {}
    /\ Answer(w, "listed")
    /\ UNCHANGED <<store, history>>

(***************************************************************************)
(* Faults.  A failed read or write ends the request with an error and      *)
(* changes nothing, except that a listing goes on without the version and  *)
(* a failed prune is ignored: the set still answers that it is done.       *)
(***************************************************************************)
ReadFails(w) ==
    /\ "read" \in Faults
    /\ \/ /\ pc[w] \in {"getMeta", "getVersion", "setMeta", "deleteMeta", "listMeta"}
          /\ Finish(w, "failed")
       \/ /\ pc[w] = "listVersions"
          /\ \E n \in todo[w] :
               /\ IsNext(n, todo[w])
               /\ todo' = [todo EXCEPT ![w] = @ \ {n}]
          /\ UNCHANGED <<pc, req, cv, found, out>>
    /\ UNCHANGED <<store, history>>

(* Mutant: the error of writeVersion (kv.go:78) is not looked at.          *)
WriteFails_Unchecked(w) ==
    /\ "write" \in Faults
    /\ pc[w] = "writeVersion"
    /\ Goto(w, "writeMeta")
    /\ UNCHANGED <<store, req, cv, todo, found, out, history>>

WriteFails(w) ==
    /\ "write" \in Faults
    /\ \/ /\ pc[w] \in {"writeVersion", "writeMeta", "writeDeleted"}
          /\ Finish(w, "failed")
          /\ UNCHANGED leaked
       \/ /\ pc[w] = "prune"
          /\ Finish(w, "done")
          /\ leaked' = [leaked EXCEPT ![Path(w)] = @ \cup {PruneTarget(cv[w])}]
    /\ UNCHANGED <<store, hi, floor>>

(* The process stops and starts again: the store stays, requests are gone. *)
Crash ==
    /\ "crash" \in Faults
    /\ \E w \in Workers : pc[w] # "idle"
    /\ pc' = [w \in Workers |-> "idle"]
    /\ out' = [w \in Workers |-> "none"]
    /\ leaked' = [p \in Paths |-> leaked[p] \cup
                    {PruneTarget(cv[w]) : w \in {u \in Workers :
                                            pc[u] = "prune" /\ Path(u) = p}}]
    /\ req' = [w \in Workers |-> NoRequest]
    /\ cv' = [w \in Workers |-> 0]
    /\ todo' = [w \in Workers |-> {}]
    /\ found' = [w \in Workers |-> {}]
    /\ UNCHANGED <<store, hi, floor>>

Step(w) ==
    \/ GetMeta(w)
    \/ GetVersion(w)
    \/ SetMeta(w)
    \/ WriteVersion(w)
    \/ WriteMeta(w)
    \/ Prune(w)
    \/ DeleteMeta(w)
    \/ WriteDeleted(w)
    \/ ListMeta(w)
    \/ ListVersion(w)
    \/ ListDone(w)

Next ==
    \/ \E w \in Workers :
         \/ \E r \in Requests : Start(w, r)
         \/ Step(w)
         \/ ReadFails(w)
         \/ WriteFails(w)
    \/ Crash

(* A goroutine that can make its next call eventually makes it. *)
Fairness == \A w \in Workers : WF_vars(Step(w))

Spec == Init /\ [][Next]_vars /\ Fairness

-----------------------------------------------------------------------------
(* The promise of KVAbstract, seen through the metadata: a version record  *)
(* above the current version belongs to a set that is not committed.       *)
Committed(p) ==
    [n \in VersionNumbers |-> IF n <= meta[p].cv THEN ver[p][n] ELSE NoValue]

Abstract == INSTANCE KVAbstract WITH
    current <- [p \in Paths |-> meta[p].cv],
    deleted <- [p \in Paths |-> meta[p].deleted],
    log     <- [p \in Paths |-> Committed(p)]

(* Whatever the interleaving of the one writer with readers, failed calls  *)
(* and crashes, the store moves only as the abstract log does: versions    *)
(* are appended one at a time and never change, a deletion only hides, and *)
(* only versions outside the window go (Set, Delete, Rollback of kv.go).   *)
AbstractSpec == Abstract!Spec

Stored(p) == {n \in VersionNumbers : ver[p][n] # NoValue}

(* No step of any request, failure or crash loses a version of the newest  *)
(* window: with hi the highest version ever committed for a path, versions *)
(* hi-Window+1..hi are all stored, however sets, deletes, rollbacks and    *)
(* prunes interleave (kv.go:78-89, version before metadata before prune).  *)
NewestWindowStored == \A p \in Paths : Retained(hi[p]) \subseteq Stored(p)

(* A Get or Rollback that found the metadata but not the version (kv.go:55)*)
(* asked for a version older than the newest window: a race with Prune may *)
(* turn a read into "not found", but never for a version still retained.   *)
MissingIsOld ==
    \A w \in Workers :
        out[w] = "missing" => cv[w] <= hi[Path(w)] - Window

(* A finished listing names every version that was current when its        *)
(* metadata was read and is still retained, unless a read failed           *)
(* (kv.go:117-125 skips what it cannot read).                              *)
Needed(w) == {n \in Retained(cv[w]) : n > hi[Path(w)] - Window}

ListingComplete ==
    "read" \notin Faults =>
        \A w \in Workers : out[w] = "listed" => Needed(w) \subseteq found[w]

-----------------------------------------------------------------------------
(* What holds when each path has at most one worker that writes it.        *)
SingleWriter ==
    \A p \in Paths : \A u, w \in Writers[p] : u = w

(* The current version and its window are stored, so a Get of the latest   *)
(* version of a secret that is not deleted finds it (kv.go:48-55).         *)
CurrentWindowStored == \A p \in Paths : Retained(meta[p].cv) \subseteq Stored(p)

(* A version that was once committed keeps its value until it is pruned:   *)
(* "History is never deleted" (docs/kv-secrets.md, Roll Back).             *)
CommittedImmutable ==
    [][\A p \in Paths, n \in VersionNumbers :
          /\ n <= hi[p]
          /\ ver[p][n] # NoValue
          => ver'[p][n] \in {ver[p][n], NoValue}]_vars

(* A Get of the latest version never answers with a version older than the *)
(* one that was committed when the request arrived.                        *)
LatestIsFresh ==
    \A w \in Workers :
        out[w] = "value" /\ req[w].version = 0 => cv[w] >= floor[w]

(* While no worker is in the middle of a set, what is stored outside the   *)
(* window is exactly what an ignored or interrupted prune left behind      *)
(* (kv.go:86-89), and versions above the current one are never more than   *)
(* the single record of a set that did not reach its metadata.             *)
RetentionExact ==
    \A p \in Paths :
        (\A w \in Workers : pc[w] # "idle" => Path(w) # p) =>
            /\ {n \in Stored(p) : n <= meta[p].cv} =
               Retained(meta[p].cv) \cup leaked[p]
            /\ \A n \in Stored(p) : n <= meta[p].cv + 1

(* Once a version leaves the window it is eventually removed, unless its   *)
(* prune failed or was interrupted.                                        *)
PrunedEventually ==
    \A p \in Paths, n \in VersionNumbers :
        (meta[p].cv >= n + Window) ~> (ver[p][n] = NoValue \/ n \in leaked[p])
=============================================================================
