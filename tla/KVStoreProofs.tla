--------------------------- MODULE KVStoreProofs ---------------------------
(***************************************************************************)
(* What holds of KVStore for every set of paths, values and workers, every *)
(* window and every bound, with proofs.                                    *)
(***************************************************************************)
EXTENDS KVStore, TLAPS

(* A worker that is about to read or write a version holds a version       *)
(* number, and one that is about to write a value holds a value.           *)
LocalOK ==
    \A w \in Workers :
        /\ pc[w] \in {"getVersion", "writeVersion", "writeMeta", "prune",
                      "writeDeleted", "listVersions"} => cv[w] \in VersionNumbers
        /\ pc[w] \in {"setMeta", "writeVersion", "writeMeta"} =>
                req[w].op \in {"set", "rollback"} /\ req[w].val \in Values
        /\ pc[w] \in {"getMeta", "getVersion"} => req[w].op \in {"get", "rollback"}
        /\ pc[w] = "prune" => cv[w] > Window

TypeInv == TypeOK /\ LocalOK

-----------------------------------------------------------------------------
(* What the two ways of answering do to the worker's own variables.        *)
LEMMA FinishTyped ==
    ASSUME NEW w \in Workers, NEW s \in Statuses, LocalTyped, LocalOK, Finish(w, s)
    PROVE  LocalTyped' /\ LocalOK'
BY MaxVerAssumption DEF LocalTyped, LocalOK, Finish, Goto, PCs, Statuses

LEMMA AnswerTyped ==
    ASSUME NEW w \in Workers, NEW s \in Statuses, LocalTyped, LocalOK, Answer(w, s)
    PROVE  LocalTyped' /\ LocalOK'
BY DEF LocalTyped, LocalOK, Answer, Goto, PCs, Statuses

(* The label a request starts at, and the value it carries there.          *)
LEMMA StartLabel ==
    ASSUME NEW w \in Workers, NEW r \in Requests, Start(w, r)
    PROVE  /\ FirstCall(r.op) \in {"getMeta", "setMeta", "deleteMeta", "listMeta"}
           /\ FirstCall(r.op) = "setMeta" => r.op = "set" /\ r.val \in Values
           /\ FirstCall(r.op) = "getMeta" => r.op \in {"get", "rollback"}
<1>1. r.op \in Ops
  BY DEF Requests
<1>2. r.op = "set" => r.val \in Values
  BY DEF Start, Requests
<1> QED
  BY <1>1, <1>2 DEF FirstCall, Ops, Mutations

LEMMA InitTyped == Init => TypeInv
BY NoRequestAssumption, MaxVerAssumption
   DEF Init, TypeInv, TypeOK, StoreTyped, LocalTyped, HistoryTyped, LocalOK, PCs,
       Statuses, VersionNumbers

LEMMA StartTyped ==
    ASSUME NEW w \in Workers, NEW r \in Requests, Start(w, r), TypeInv
    PROVE  TypeInv'
<1>1. StoreTyped'
  BY DEF Start, TypeInv, TypeOK, StoreTyped, store
<1>2. LocalTyped'
  <2>1. req' \in [Workers -> Requests \cup {NoRequest}]
    BY DEF Start, TypeInv, TypeOK, LocalTyped
  <2>2. cv' \in [Workers -> 0..MaxVer]
    BY MaxVerAssumption DEF Start, TypeInv, TypeOK, LocalTyped
  <2>3. out' \in [Workers -> Statuses]
    BY DEF Start, TypeInv, TypeOK, LocalTyped, Statuses
  <2>4. pc' \in [Workers -> PCs]
    BY StartLabel DEF Start, Goto, TypeInv, TypeOK, LocalTyped, PCs
  <2>5. found' \in [Workers -> SUBSET VersionNumbers] /\ UNCHANGED todo
    BY DEF Start, TypeInv, TypeOK, LocalTyped
  <2>6. \A u \in Workers : pc'[u] # "idle" => req'[u] \in Requests
    BY DEF Start, Goto, TypeInv, TypeOK, LocalTyped
  <2> QED
    BY <2>1, <2>2, <2>3, <2>4, <2>5, <2>6 DEF TypeInv, TypeOK, LocalTyped
<1>3. HistoryTyped'
  BY MaxVerAssumption DEF Start, TypeInv, TypeOK, HistoryTyped, Requests
<1>4. LocalOK'
  BY StartLabel DEF Start, Goto, TypeInv, TypeOK, LocalTyped, LocalOK, PCs
<1> QED
  BY <1>1, <1>2, <1>3, <1>4 DEF TypeInv, TypeOK

(* Every action keeps the types: one lemma per action.                     *)
LEMMA GetMetaTyped ==
    ASSUME NEW w \in Workers, GetMeta(w), TypeInv
    PROVE  TypeInv'
<1>1. StoreTyped' /\ HistoryTyped'
  BY DEF GetMeta, TypeInv, TypeOK, StoreTyped, HistoryTyped, store, history
<1>2. CASE Readable(w)
  <2>1. Wanted(w) \in VersionNumbers
    BY <1>2, MaxVerAssumption
       DEF Readable, Path, GetMeta, TypeInv, TypeOK, StoreTyped, LocalTyped, Requests,
           VersionNumbers
  <2>2. /\ cv' = [cv EXCEPT ![w] = Wanted(w)]
        /\ pc' = [pc EXCEPT ![w] = "getVersion"]
        /\ UNCHANGED <<req, todo, found, out>>
        /\ pc[w] = "getMeta"
    BY <1>2 DEF GetMeta, Goto
  <2>3. LocalTyped'
    BY <2>1, <2>2, MaxVerAssumption
       DEF TypeInv, TypeOK, LocalTyped, PCs, VersionNumbers
  <2>4. LocalOK'
    BY <2>1, <2>2 DEF TypeInv, TypeOK, LocalTyped, LocalOK
  <2> QED
    BY <1>1, <2>3, <2>4 DEF TypeInv, TypeOK
<1>3. CASE ~ Readable(w)
  BY <1>1, <1>3, FinishTyped DEF GetMeta, TypeInv, TypeOK, Statuses
<1> QED
  BY <1>2, <1>3

LEMMA GetVersionTyped ==
    ASSUME NEW w \in Workers, GetVersion(w), TypeInv
    PROVE  TypeInv'
<1>1. StoreTyped' /\ HistoryTyped'
  BY DEF GetVersion, TypeInv, TypeOK, StoreTyped, HistoryTyped, store, history
<1>2. CASE Answer(w, "missing") \/ Answer(w, "value")
  BY <1>1, <1>2, AnswerTyped DEF TypeInv, TypeOK, Statuses
<1>3. CASE ~ (Answer(w, "missing") \/ Answer(w, "value"))
  <2> DEFINE v == ver[Path(w)][cv[w]]
  <2>1. /\ v # NoValue
        /\ req[w].op = "rollback"
        /\ req' = [req EXCEPT ![w].val = v]
        /\ pc' = [pc EXCEPT ![w] = "setMeta"]
        /\ UNCHANGED <<cv, todo, found, out>>
        /\ pc[w] = "getVersion"
    BY <1>3 DEF GetVersion, Goto
  <2>2. req[w] \in Requests /\ cv[w] \in VersionNumbers
    BY <2>1 DEF TypeInv, TypeOK, LocalTyped, LocalOK
  <2>3. v \in Values
    BY <2>1, <2>2 DEF TypeInv, TypeOK, StoreTyped, Path, Requests
  <2> HIDE DEF v
  <2>4. /\ [req[w] EXCEPT !.val = v] \in Requests
        /\ [req[w] EXCEPT !.val = v].op = "rollback"
        /\ [req[w] EXCEPT !.val = v].val = v
    BY <2>1, <2>2, <2>3 DEF Requests
  <2>5. req' = [req EXCEPT ![w] = [req[w] EXCEPT !.val = v]]
    BY <2>1
  <2>6. LocalTyped'
    BY <2>1, <2>4, <2>5 DEF TypeInv, TypeOK, LocalTyped, PCs
  <2>7. LocalOK'
    BY <2>1, <2>3, <2>4, <2>5 DEF TypeInv, TypeOK, LocalTyped, LocalOK
  <2> QED
    BY <1>1, <2>6, <2>7 DEF TypeInv, TypeOK
<1> QED
  BY <1>2, <1>3

LEMMA SetMetaTyped ==
    ASSUME NEW w \in Workers, SetMeta(w), TypeInv
    PROVE  TypeInv'
<1>1. StoreTyped' /\ HistoryTyped'
  BY DEF SetMeta, TypeInv, TypeOK, StoreTyped, HistoryTyped, store, history
<1>2. NextVersion(meta[Path(w)]) \in VersionNumbers
  BY MaxVerAssumption DEF SetMeta, NextVersion, Path, TypeInv, TypeOK, StoreTyped,
     LocalTyped, Requests, VersionNumbers
<1>3. /\ cv' = [cv EXCEPT ![w] = NextVersion(meta[Path(w)])]
      /\ pc' = [pc EXCEPT ![w] = "writeVersion"]
      /\ UNCHANGED <<req, todo, found, out>>
      /\ pc[w] = "setMeta"
  BY DEF SetMeta, Goto
<1>4. LocalTyped'
  BY <1>2, <1>3, MaxVerAssumption DEF TypeInv, TypeOK, LocalTyped, PCs, VersionNumbers
<1>5. LocalOK'
  BY <1>2, <1>3 DEF TypeInv, TypeOK, LocalTyped, LocalOK
<1> QED
  BY <1>1, <1>4, <1>5 DEF TypeInv, TypeOK

LEMMA WriteVersionTyped ==
    ASSUME NEW w \in Workers, WriteVersion(w), TypeInv
    PROVE  TypeInv'
<1>1. HistoryTyped'
  BY DEF WriteVersion, TypeInv, TypeOK, HistoryTyped, history
<1>2. /\ pc' = [pc EXCEPT ![w] = "writeMeta"]
      /\ UNCHANGED <<meta, req, cv, todo, found, out>>
      /\ pc[w] = "writeVersion"
      /\ ver' = [ver EXCEPT ![Path(w)][cv[w]] = req[w].val]
  BY DEF WriteVersion, Goto
<1>3. req[w].val \in Values
  BY <1>2 DEF TypeInv, LocalOK
<1>4. StoreTyped'
  BY <1>2, <1>3 DEF TypeInv, TypeOK, StoreTyped
<1>5. LocalTyped'
  BY <1>2 DEF TypeInv, TypeOK, LocalTyped, PCs
<1>6. LocalOK'
  BY <1>2 DEF TypeInv, TypeOK, LocalTyped, LocalOK
<1> QED
  BY <1>1, <1>4, <1>5, <1>6 DEF TypeInv, TypeOK

LEMMA WriteMetaTyped ==
    ASSUME NEW w \in Workers, WriteMeta(w), TypeInv
    PROVE  TypeInv'
<1>1. cv[w] \in 0..MaxVer /\ pc[w] = "writeMeta" /\ cv[w] \in VersionNumbers
  BY DEF WriteMeta, TypeInv, TypeOK, LocalTyped, LocalOK
<1>2. StoreTyped'
  BY <1>1 DEF WriteMeta, TypeInv, TypeOK, StoreTyped
<1>3. HistoryTyped'
  BY <1>1, MaxVerAssumption DEF WriteMeta, Raise, TypeInv, TypeOK, HistoryTyped
<1>4. CASE Finish(w, "done")
  BY <1>2, <1>3, <1>4, FinishTyped DEF TypeInv, TypeOK, Statuses
<1>5. CASE ~ Finish(w, "done")
  <2>1. /\ cv[w] > Window
        /\ pc' = [pc EXCEPT ![w] = "prune"]
        /\ UNCHANGED <<req, cv, todo, found, out>>
    BY <1>5 DEF WriteMeta, Goto
  <2>2. LocalTyped'
    BY <1>1, <2>1 DEF TypeInv, TypeOK, LocalTyped, PCs
  <2>3. LocalOK'
    BY <1>1, <2>1 DEF TypeInv, TypeOK, LocalTyped, LocalOK
  <2> QED
    BY <1>2, <1>3, <2>2, <2>3 DEF TypeInv, TypeOK
<1> QED
  BY <1>4, <1>5

LEMMA PruneTyped ==
    ASSUME NEW w \in Workers, Prune(w), TypeInv
    PROVE  TypeInv'
<1>1. StoreTyped' /\ HistoryTyped'
  BY DEF Prune, TypeInv, TypeOK, StoreTyped, HistoryTyped, history
<1> QED
  BY <1>1, FinishTyped DEF Prune, TypeInv, TypeOK, Statuses

LEMMA DeleteMetaTyped ==
    ASSUME NEW w \in Workers, DeleteMeta(w), TypeInv
    PROVE  TypeInv'
<1>1. StoreTyped' /\ HistoryTyped'
  BY DEF DeleteMeta, TypeInv, TypeOK, StoreTyped, HistoryTyped, store, history
<1>2. CASE Finish(w, "refused")
  BY <1>1, <1>2, FinishTyped DEF TypeInv, TypeOK, Statuses
<1>3. CASE ~ Finish(w, "refused")
  <2>1. /\ meta[Path(w)].cv > 0
        /\ cv' = [cv EXCEPT ![w] = meta[Path(w)].cv]
        /\ pc' = [pc EXCEPT ![w] = "writeDeleted"]
        /\ UNCHANGED <<req, todo, found, out>>
        /\ pc[w] = "deleteMeta"
    BY <1>3 DEF DeleteMeta, Goto
  <2>2. meta[Path(w)].cv \in VersionNumbers
    BY <2>1, MaxVerAssumption
       DEF Path, TypeInv, TypeOK, StoreTyped, LocalTyped, Requests, VersionNumbers
  <2>3. LocalTyped'
    BY <2>1, <2>2, MaxVerAssumption DEF TypeInv, TypeOK, LocalTyped, PCs, VersionNumbers
  <2>4. LocalOK'
    BY <2>1, <2>2 DEF TypeInv, TypeOK, LocalTyped, LocalOK
  <2> QED
    BY <1>1, <2>3, <2>4 DEF TypeInv, TypeOK
<1> QED
  BY <1>2, <1>3

LEMMA WriteDeletedTyped ==
    ASSUME NEW w \in Workers, WriteDeleted(w), TypeInv
    PROVE  TypeInv'
<1>1. StoreTyped' /\ HistoryTyped'
  BY DEF WriteDeleted, DeletedRecord, TypeInv, TypeOK, StoreTyped, LocalTyped,
         HistoryTyped, history
<1> QED
  BY <1>1, FinishTyped DEF WriteDeleted, TypeInv, TypeOK, Statuses

LEMMA ListMetaTyped ==
    ASSUME NEW w \in Workers, ListMeta(w), TypeInv
    PROVE  TypeInv'
<1>1. StoreTyped' /\ HistoryTyped'
  BY DEF ListMeta, TypeInv, TypeOK, StoreTyped, HistoryTyped, store, history
<1>2. CASE Finish(w, "refused")
  BY <1>1, <1>2, FinishTyped DEF TypeInv, TypeOK, Statuses
<1>3. CASE ~ Finish(w, "refused")
  <2>1. /\ meta[Path(w)].cv > 0
        /\ cv' = [cv EXCEPT ![w] = meta[Path(w)].cv]
        /\ todo' = [todo EXCEPT ![w] = Retained(meta[Path(w)].cv)]
        /\ pc' = [pc EXCEPT ![w] = "listVersions"]
        /\ UNCHANGED <<req, found, out>>
        /\ pc[w] = "listMeta"
    BY <1>3 DEF ListMeta, Goto
  <2>2. meta[Path(w)].cv \in VersionNumbers
    BY <2>1, MaxVerAssumption
       DEF Path, TypeInv, TypeOK, StoreTyped, LocalTyped, Requests, VersionNumbers
  <2>3. Retained(meta[Path(w)].cv) \subseteq VersionNumbers
    BY DEF Retained
  <2>4. LocalTyped'
    BY <2>1, <2>2, <2>3, MaxVerAssumption
       DEF TypeInv, TypeOK, LocalTyped, PCs, VersionNumbers
  <2>5. LocalOK'
    BY <2>1, <2>2 DEF TypeInv, TypeOK, LocalTyped, LocalOK
  <2> QED
    BY <1>1, <2>4, <2>5 DEF TypeInv, TypeOK
<1> QED
  BY <1>2, <1>3

LEMMA ListVersionTyped ==
    ASSUME NEW w \in Workers, ListVersion(w), TypeInv
    PROVE  TypeInv'
<1>1. StoreTyped' /\ HistoryTyped'
  BY DEF ListVersion, TypeInv, TypeOK, StoreTyped, HistoryTyped, store, history
<1>2. LocalTyped'
  BY DEF ListVersion, TypeInv, TypeOK, LocalTyped
<1>3. LocalOK'
  BY DEF ListVersion, TypeInv, LocalOK
<1> QED
  BY <1>1, <1>2, <1>3 DEF TypeInv, TypeOK

LEMMA ListDoneTyped ==
    ASSUME NEW w \in Workers, ListDone(w), TypeInv
    PROVE  TypeInv'
<1>1. StoreTyped' /\ HistoryTyped'
  BY DEF ListDone, TypeInv, TypeOK, StoreTyped, HistoryTyped, store, history
<1> QED
  BY <1>1, AnswerTyped DEF ListDone, TypeInv, TypeOK, Statuses

LEMMA ReadFailsTyped ==
    ASSUME NEW w \in Workers, ReadFails(w), TypeInv
    PROVE  TypeInv'
<1>1. StoreTyped' /\ HistoryTyped'
  BY DEF ReadFails, TypeInv, TypeOK, StoreTyped, HistoryTyped, store, history
<1>2. CASE Finish(w, "failed")
  BY <1>1, <1>2, FinishTyped DEF TypeInv, TypeOK, Statuses
<1>3. CASE ~ Finish(w, "failed")
  <2>1. PICK n \in todo[w] : todo' = [todo EXCEPT ![w] = @ \ {n}]
    BY <1>3 DEF ReadFails
  <2>2. UNCHANGED <<pc, req, cv, found, out>>
    BY <1>3 DEF ReadFails
  <2>3. LocalTyped' /\ LocalOK'
    BY <2>1, <2>2 DEF TypeInv, TypeOK, LocalTyped, LocalOK
  <2> QED
    BY <1>1, <2>3 DEF TypeInv, TypeOK
<1> QED
  BY <1>2, <1>3

LEMMA WriteFailsTyped ==
    ASSUME NEW w \in Workers, WriteFails(w), TypeInv
    PROVE  TypeInv'
<1>1. StoreTyped'
  BY DEF WriteFails, TypeInv, TypeOK, StoreTyped, store
<1>2. LocalTyped' /\ LocalOK'
  BY FinishTyped DEF WriteFails, TypeInv, TypeOK, Statuses
<1>3. HistoryTyped'
  <2>1. cv[w] \in Int
    BY DEF TypeInv, TypeOK, LocalTyped
  <2>2. PruneTarget(cv[w]) \in Int
    BY <2>1, WindowAssumption DEF PruneTarget
  <2> QED
    BY <2>2 DEF WriteFails, TypeInv, TypeOK, HistoryTyped
<1> QED
  BY <1>1, <1>2, <1>3 DEF TypeInv, TypeOK

LEMMA CrashTyped ==
    ASSUME Crash, TypeInv
    PROVE  TypeInv'
<1>1. StoreTyped'
  BY DEF Crash, TypeInv, TypeOK, StoreTyped, store
<1>2. LocalTyped' /\ LocalOK'
  BY MaxVerAssumption DEF Crash, LocalTyped, LocalOK, PCs, Statuses
<1>3. \A w \in Workers : PruneTarget(cv[w]) \in Int
  BY WindowAssumption DEF PruneTarget, TypeInv, TypeOK, LocalTyped
<1>4. HistoryTyped'
  BY <1>3 DEF Crash, TypeInv, TypeOK, HistoryTyped
<1> QED
  BY <1>1, <1>2, <1>4 DEF TypeInv, TypeOK

LEMMA NextTyped == TypeInv /\ [Next]_vars => TypeInv'
<1> SUFFICES ASSUME TypeInv, [Next]_vars PROVE TypeInv'
  OBVIOUS
<1>1. ASSUME NEW w \in Workers, Step(w) PROVE TypeInv'
  BY <1>1, GetMetaTyped, GetVersionTyped, SetMetaTyped, WriteVersionTyped,
     WriteMetaTyped, PruneTyped, DeleteMetaTyped, WriteDeletedTyped, ListMetaTyped,
     ListVersionTyped, ListDoneTyped DEF Step
<1>2. CASE UNCHANGED vars
  BY <1>2 DEF vars, store, local, history, TypeInv, TypeOK, StoreTyped, LocalTyped,
              HistoryTyped, LocalOK
<1> QED
  BY <1>1, <1>2, StartTyped, ReadFailsTyped, WriteFailsTyped, CrashTyped DEF Next

(* Every variable of the store keeps its type, whatever the requests,      *)
(* failures and crashes.                                                   *)
THEOREM TypeCorrect == Spec => []TypeOK
<1>1. Spec => []TypeInv
  BY InitTyped, NextTyped, PTL DEF Spec
<1>2. TypeInv => TypeOK
  BY DEF TypeInv
<1> QED
  BY <1>1, <1>2, PTL
-----------------------------------------------------------------------------
(***************************************************************************)
(* The newest window is never lost.  The invariant is inductive once it    *)
(* says what every worker in the middle of a request relies on: a set      *)
(* holds at most the version after the highest committed one, the version  *)
(* it is about to commit is stored if it would still be retained, and a    *)
(* prune was preceded by the commit that pushes its target out.            *)
(***************************************************************************)
WorkerSafe(w) ==
    /\ pc[w] \in {"getVersion", "prune", "writeDeleted", "listVersions"} =>
            cv[w] <= hi[Path(w)]
    /\ pc[w] \in {"writeVersion", "writeMeta"} => cv[w] <= hi[Path(w)] + 1
    /\ pc[w] = "writeMeta" /\ cv[w] > hi[Path(w)] - Window =>
            ver[Path(w)][cv[w]] # NoValue
    /\ pc[w] = "listVersions" /\ "read" \notin Faults =>
            Needed(w) \subseteq found[w] \cup todo[w]
    /\ pc[w] # "idle" => out[w] = "none"
    /\ out[w] \in {"missing", "listed"} => req[w] \in Requests
    /\ out[w] = "missing" => cv[w] <= hi[Path(w)] - Window
    /\ out[w] = "listed" /\ "read" \notin Faults => Needed(w) \subseteq found[w]

StoreSafe ==
    /\ \A p \in Paths : meta[p].cv <= hi[p]
    /\ NewestWindowStored

IInv == TypeInv /\ StoreSafe /\ \A w \in Workers : WorkerSafe(w)

(* What a step may do to the records other requests rely on.               *)
Gentle ==
    \A p \in Paths :
        /\ hi[p] <= hi'[p]
        /\ \A n \in VersionNumbers :
              ver[p][n] # NoValue /\ n > hi[p] - Window => ver'[p][n] # NoValue

Untouched(w) ==
    /\ pc'[w] = pc[w]
    /\ req'[w] = req[w]
    /\ cv'[w] = cv[w]
    /\ todo'[w] = todo[w]
    /\ found'[w] = found[w]
    /\ out'[w] = out[w]

LEMMA RetainedDef ==
    \A n, k : k \in Retained(n) <=> k \in VersionNumbers /\ k > n - Window /\ k <= n
BY DEF Retained

(* A gentle step of another worker keeps what a worker relies on.          *)
LEMMA Frame ==
    ASSUME TypeInv, TypeInv', Gentle, NEW w \in Workers, WorkerSafe(w), Untouched(w)
    PROVE  WorkerSafe(w)'
<1>1. Path(w)' = Path(w)
  BY DEF Path, Untouched
<1>2. pc[w] # "idle" \/ out[w] \in {"missing", "listed"} => Path(w) \in Paths
  BY DEF Path, WorkerSafe, TypeInv, TypeOK, LocalTyped, Requests
<1>3. ASSUME Path(w) \in Paths
      PROVE  /\ hi[Path(w)] \in Int /\ hi'[Path(w)] \in Int
             /\ hi[Path(w)] <= hi'[Path(w)]
             /\ Needed(w)' \subseteq Needed(w)
  <2>1. hi[Path(w)] \in Int /\ hi'[Path(w)] \in Int /\ hi[Path(w)] <= hi'[Path(w)]
    BY <1>3, MaxVerAssumption DEF Gentle, TypeInv, TypeOK, HistoryTyped
  <2>2. Needed(w)' = {n \in Retained(cv[w]) : n > hi'[Path(w)] - Window}
    BY <1>1 DEF Needed, Retained, VersionNumbers, Untouched
  <2>3. \A n \in VersionNumbers : n > hi'[Path(w)] - Window => n > hi[Path(w)] - Window
    BY <2>1, WindowAssumption, MaxVerAssumption DEF VersionNumbers
  <2> QED
    BY <2>1, <2>2, <2>3, RetainedDef DEF Needed
<1>4. cv[w] \in Int
  BY DEF TypeInv, TypeOK, LocalTyped
<1>5. ASSUME pc[w] = "writeMeta", cv[w] > hi'[Path(w)] - Window
      PROVE  ver'[Path(w)][cv[w]] # NoValue
  <2>1. cv[w] \in VersionNumbers
    BY <1>5 DEF TypeInv, LocalOK
  <2>2. cv[w] > hi[Path(w)] - Window
    BY <1>2, <1>3, <1>4, <1>5, WindowAssumption
  <2> QED
    BY <1>2, <1>5, <2>1, <2>2 DEF Gentle, WorkerSafe
<1> QED
  BY <1>1, <1>2, <1>3, <1>4, <1>5, WindowAssumption DEF WorkerSafe, Untouched

LEMMA Compose ==
    ASSUME IInv, TypeInv', Gentle, StoreSafe', NEW w \in Workers, WorkerSafe(w)',
           \A u \in Workers \ {w} : Untouched(u)
    PROVE  IInv'
<1>1. \A u \in Workers \ {w} : WorkerSafe(u)'
  BY Frame DEF IInv
<1> QED
  BY <1>1 DEF IInv

LEMMA ReadOnly ==
    ASSUME IInv, TypeInv', UNCHANGED <<store, hi>>
    PROVE  Gentle /\ StoreSafe'
<1>1. Gentle
  BY MaxVerAssumption DEF Gentle, store, IInv, TypeInv, TypeOK, HistoryTyped
<1>2. StoreSafe'
  BY DEF IInv, StoreSafe, NewestWindowStored, Stored, Retained, store
<1> QED
  BY <1>1, <1>2

LEMMA OthersUntouched ==
    ASSUME NEW w \in Workers, TypeInv, Step(w) \/ ReadFails(w) \/ WriteFails(w)
    PROVE  \A u \in Workers \ {w} : Untouched(u)
BY DEF Untouched, TypeInv, TypeOK, LocalTyped, Step, ReadFails, WriteFails, GetMeta,
       GetVersion, SetMeta, WriteVersion, WriteMeta, Prune, DeleteMeta, WriteDeleted,
       ListMeta, ListVersion, ListDone, Answer, Finish, Goto

(* A worker that has finished with nothing to report relies on nothing.    *)
LEMMA FinishSafe ==
    ASSUME NEW w \in Workers, NEW s \in {"done", "refused", "failed"}, TypeInv,
           Finish(w, s)
    PROVE  WorkerSafe(w)'
BY DEF Finish, Goto, WorkerSafe, TypeInv, TypeOK, LocalTyped

LEMMA StartSafe ==
    ASSUME IInv, TypeInv', NEW w \in Workers, NEW r \in Requests, Start(w, r)
    PROVE  IInv'
<1>1. Gentle /\ StoreSafe'
  BY ReadOnly DEF Start, store
<1>2. \A u \in Workers \ {w} : Untouched(u)
  BY DEF Start, Goto, Untouched, IInv, TypeInv, TypeOK, LocalTyped
<1>3. pc'[w] \in {"getMeta", "setMeta", "deleteMeta", "listMeta"} /\ out'[w] = "none"
  BY StartLabel DEF Start, Goto, IInv, TypeInv, TypeOK, LocalTyped
<1>4. WorkerSafe(w)'
  BY <1>3 DEF WorkerSafe
<1> QED
  BY <1>1, <1>2, <1>4, Compose

LEMMA PathTyped ==
    ASSUME TypeInv, NEW w \in Workers, pc[w] # "idle"
    PROVE  /\ Path(w) \in Paths
           /\ meta[Path(w)].cv \in 0..MaxVer
           /\ hi[Path(w)] \in 0..MaxVer
           /\ cv[w] \in 0..MaxVer
BY DEF Path, TypeInv, TypeOK, StoreTyped, LocalTyped, HistoryTyped, Requests

LEMMA GetMetaSafe ==
    ASSUME IInv, TypeInv', NEW w \in Workers, GetMeta(w)
    PROVE  IInv'
<1>1. Gentle /\ StoreSafe'
  BY ReadOnly DEF GetMeta, history
<1>2. \A u \in Workers \ {w} : Untouched(u)
  BY OthersUntouched DEF IInv, Step
<1>3. CASE Readable(w)
  <2>1. /\ cv'[w] = Wanted(w) /\ pc'[w] = "getVersion" /\ pc[w] = "getMeta"
        /\ req' = req /\ out' = out /\ hi' = hi
    BY <1>3 DEF GetMeta, Goto, IInv, TypeInv, TypeOK, LocalTyped, history
  <2>2. Wanted(w) <= hi[Path(w)]
    BY <1>3, <2>1, PathTyped DEF Readable, IInv, StoreSafe
  <2>3. WorkerSafe(w)'
    BY <2>1, <2>2 DEF WorkerSafe, IInv, Path
  <2> QED
    BY <1>1, <1>2, <2>3, Compose
<1>4. CASE ~ Readable(w)
  BY <1>1, <1>2, <1>4, FinishSafe, Compose DEF GetMeta, IInv
<1> QED
  BY <1>3, <1>4

LEMMA GetVersionSafe ==
    ASSUME IInv, TypeInv', NEW w \in Workers, GetVersion(w)
    PROVE  IInv'
<1>1. Gentle /\ StoreSafe'
  BY ReadOnly DEF GetVersion, history
<1>2. \A u \in Workers \ {w} : Untouched(u)
  BY OthersUntouched DEF IInv, Step
<1>3. /\ pc[w] = "getVersion" /\ hi' = hi
      /\ cv[w] \in VersionNumbers /\ cv[w] <= hi[Path(w)] /\ req[w] \in Requests
  BY DEF GetVersion, IInv, WorkerSafe, TypeInv, TypeOK, LocalTyped, LocalOK, history
<1>4. CASE Answer(w, "missing") /\ ver[Path(w)][cv[w]] = NoValue
  <2>1. cv[w] \notin Retained(hi[Path(w)])
    BY <1>3, <1>4, PathTyped DEF IInv, StoreSafe, NewestWindowStored, Stored
  <2>2. cv[w] <= hi[Path(w)] - Window
    BY <1>3, <2>1, PathTyped, RetainedDef, WindowAssumption DEF IInv, VersionNumbers
  <2>3. /\ pc'[w] = "idle" /\ out'[w] = "missing" /\ cv'[w] = cv[w]
        /\ req'[w] = req[w]
    BY <1>4 DEF Answer, Goto, IInv, TypeInv, TypeOK, LocalTyped
  <2>4. WorkerSafe(w)'
    BY <1>3, <2>2, <2>3 DEF WorkerSafe, Path
  <2> QED
    BY <1>1, <1>2, <2>4, Compose
<1>5. CASE Answer(w, "value")
  <2>1. pc'[w] = "idle" /\ out'[w] = "value"
    BY <1>5 DEF Answer, Goto, IInv, TypeInv, TypeOK, LocalTyped
  <2>2. WorkerSafe(w)'
    BY <2>1 DEF WorkerSafe
  <2> QED
    BY <1>1, <1>2, <2>2, Compose
<1>6. CASE Goto(w, "setMeta") /\ UNCHANGED <<cv, todo, found, out>>
  <2>1. pc'[w] = "setMeta" /\ out'[w] = "none"
    BY <1>3, <1>6 DEF Goto, IInv, WorkerSafe, TypeInv, TypeOK, LocalTyped
  <2>2. WorkerSafe(w)'
    BY <2>1 DEF WorkerSafe
  <2> QED
    BY <1>1, <1>2, <2>2, Compose
<1> QED
  BY <1>4, <1>5, <1>6 DEF GetVersion

LEMMA SetMetaSafe ==
    ASSUME IInv, TypeInv', NEW w \in Workers, SetMeta(w)
    PROVE  IInv'
<1>1. Gentle /\ StoreSafe'
  BY ReadOnly DEF SetMeta, history
<1>2. \A u \in Workers \ {w} : Untouched(u)
  BY OthersUntouched DEF IInv, Step
<1>3. /\ pc'[w] = "writeVersion" /\ out'[w] = out[w] /\ req'[w] = req[w]
      /\ cv'[w] = meta[Path(w)].cv + 1 /\ hi' = hi /\ pc[w] = "setMeta"
  BY DEF SetMeta, NextVersion, Goto, IInv, TypeInv, TypeOK, LocalTyped, history
<1>4. cv'[w] <= hi[Path(w)] + 1
  BY <1>3, PathTyped DEF IInv, StoreSafe
<1>5. WorkerSafe(w)'
  BY <1>3, <1>4 DEF WorkerSafe, IInv, Path
<1> QED
  BY <1>1, <1>2, <1>5, Compose

LEMMA WriteVersionSafe ==
    ASSUME IInv, TypeInv', NEW w \in Workers, WriteVersion(w)
    PROVE  IInv'
<1>1. /\ pc[w] = "writeVersion" /\ pc'[w] = "writeMeta" /\ out'[w] = out[w]
      /\ req'[w] = req[w] /\ cv'[w] = cv[w] /\ hi' = hi /\ meta' = meta
      /\ ver' = [ver EXCEPT ![Path(w)][cv[w]] = req[w].val]
  BY DEF WriteVersion, Goto, IInv, TypeInv, TypeOK, LocalTyped, history
<1>2. req[w].val # NoValue
  BY <1>1, NoValueAssumption DEF IInv, TypeInv, LocalOK
<1>3. /\ \A p \in Paths, n \in VersionNumbers :
            ver[p][n] # NoValue => ver'[p][n] # NoValue
      /\ ver'[Path(w)][cv[w]] # NoValue
  BY <1>1, <1>2, PathTyped DEF IInv, TypeInv, TypeOK, StoreTyped, LocalOK
<1>4. Gentle
  BY <1>1, <1>3, MaxVerAssumption DEF Gentle, IInv, TypeInv, TypeOK, HistoryTyped
<1>5. StoreSafe'
  BY <1>1, <1>3 DEF IInv, StoreSafe, NewestWindowStored, Stored, Retained
<1>6. \A u \in Workers \ {w} : Untouched(u)
  BY OthersUntouched DEF IInv, Step
<1>7. WorkerSafe(w)'
  BY <1>1, <1>3 DEF WorkerSafe, IInv, Path
<1> QED
  BY <1>4, <1>5, <1>6, <1>7, Compose

(* Committing version cv[w] raises hi by at most one, to a version that    *)
(* is stored: the newest window moves, and stays stored.                   *)
LEMMA WriteMetaSafe ==
    ASSUME IInv, TypeInv', NEW w \in Workers, WriteMeta(w)
    PROVE  IInv'
<1> DEFINE p == Path(w)
<1>1. /\ pc[w] = "writeMeta" /\ ver' = ver
      /\ meta' = [meta EXCEPT ![p] = [cv |-> cv[w], deleted |-> FALSE]]
      /\ hi' = [hi EXCEPT ![p] = Raise(hi[p], cv[w])]
  BY DEF WriteMeta
<1>2. /\ p \in Paths /\ cv[w] \in VersionNumbers
      /\ hi[p] \in 0..MaxVer /\ cv[w] <= hi[p] + 1
      /\ cv[w] > hi[p] - Window => ver[p][cv[w]] # NoValue
  BY <1>1, PathTyped DEF IInv, WorkerSafe, TypeInv, LocalOK
<1>3. /\ hi'[p] \in 0..MaxVer /\ hi[p] <= hi'[p] /\ cv[w] <= hi'[p]
      /\ hi'[p] = hi[p] \/ hi'[p] = cv[w]
      /\ meta'[p].cv = cv[w]
      /\ \A q \in Paths \ {p} : hi'[q] = hi[q] /\ meta'[q] = meta[q]
  BY <1>1, <1>2, MaxVerAssumption
     DEF Raise, IInv, TypeInv, TypeOK, StoreTyped, HistoryTyped, VersionNumbers
<1> HIDE DEF p
<1>4. Gentle
  BY <1>1, <1>3, MaxVerAssumption DEF Gentle, IInv, TypeInv, TypeOK, HistoryTyped
<1>5. Retained(hi'[p]) \subseteq Stored(p)
  <2> SUFFICES ASSUME NEW n \in Retained(hi'[p]) PROVE ver[p][n] # NoValue
    BY RetainedDef DEF Stored
  <2>1. n \in VersionNumbers /\ n > hi'[p] - Window /\ n <= hi'[p]
    BY RetainedDef
  <2>2. CASE n <= hi[p]
    <3>1. n \in Retained(hi[p])
      BY <1>2, <1>3, <2>1, <2>2, RetainedDef, WindowAssumption, MaxVerAssumption
         DEF VersionNumbers
    <3> QED
      BY <1>2, <3>1 DEF IInv, StoreSafe, NewestWindowStored, Stored
  <2>3. CASE n > hi[p]
    <3>1. n = cv[w] /\ n > hi[p] - Window
      BY <1>2, <1>3, <2>1, <2>3, WindowAssumption, MaxVerAssumption DEF VersionNumbers
    <3> QED
      BY <1>2, <3>1
  <2> QED
    BY <1>2, <2>1, <2>2, <2>3 DEF VersionNumbers
<1>6. StoreSafe'
  <2>1. \A q \in Paths : meta'[q].cv <= hi'[q]
    BY <1>3 DEF IInv, StoreSafe
  <2>2. \A q \in Paths : Retained(hi'[q]) \subseteq Stored(q)
    BY <1>3, <1>5 DEF IInv, StoreSafe, NewestWindowStored
  <2>3. \A q \in Paths : Retained(hi'[q]) = Retained(hi[q])' /\ Stored(q)' = Stored(q)
    BY <1>1 DEF Retained, Stored, VersionNumbers
  <2> QED
    BY <2>1, <2>2, <2>3 DEF StoreSafe, NewestWindowStored, Retained, Stored
<1>7. \A u \in Workers \ {w} : Untouched(u)
  BY OthersUntouched DEF IInv, Step
<1>8. WorkerSafe(w)'
  <2>1. CASE Finish(w, "done")
    BY <2>1, FinishSafe DEF IInv
  <2>2. CASE ~ Finish(w, "done")
    <3>1. /\ pc'[w] = "prune" /\ out'[w] = out[w] /\ cv'[w] = cv[w]
          /\ req'[w] = req[w]
      BY <2>2 DEF WriteMeta, Goto, IInv, TypeInv, TypeOK, LocalTyped
    <3>2. out'[w] = "none" /\ Path(w)' = p
      BY <1>1, <3>1 DEF IInv, WorkerSafe, Path, p
    <3> QED
      BY <1>3, <3>1, <3>2 DEF WorkerSafe
  <2> QED
    BY <2>1, <2>2
<1> QED
  BY <1>4, <1>6, <1>7, <1>8, Compose

(* A prune removes one version, Window or more below the highest one.      *)
LEMMA PruneSafe ==
    ASSUME IInv, TypeInv', NEW w \in Workers, Prune(w)
    PROVE  IInv'
<1> DEFINE p == Path(w)
<1>1. /\ pc[w] = "prune" /\ meta' = meta /\ hi' = hi
      /\ ver' = [ver EXCEPT ![p][PruneTarget(cv[w])] = NoValue]
  BY DEF Prune, history
<1>2. /\ p \in Paths /\ hi[p] \in 0..MaxVer /\ cv[w] \in 0..MaxVer /\ cv[w] <= hi[p]
  BY <1>1, PathTyped DEF IInv, WorkerSafe
<1>3. PruneTarget(cv[w]) <= hi[p] - Window
  BY <1>2, WindowAssumption DEF PruneTarget
<1> HIDE DEF p
<1>4. \A q \in Paths, n \in VersionNumbers :
         n > hi[q] - Window => ver'[q][n] = ver[q][n]
  BY <1>1, <1>2, <1>3, WindowAssumption, MaxVerAssumption
     DEF IInv, TypeInv, TypeOK, StoreTyped, VersionNumbers, PruneTarget
<1>5. Gentle
  BY <1>1, <1>4, MaxVerAssumption DEF Gentle, IInv, TypeInv, TypeOK, HistoryTyped
<1>6. StoreSafe'
  BY <1>1, <1>4 DEF IInv, StoreSafe, NewestWindowStored, Stored, Retained
<1>7. \A u \in Workers \ {w} : Untouched(u)
  BY OthersUntouched DEF IInv, Step
<1>8. WorkerSafe(w)'
  BY FinishSafe DEF Prune, IInv
<1> QED
  BY <1>5, <1>6, <1>7, <1>8, Compose

LEMMA DeleteMetaSafe ==
    ASSUME IInv, TypeInv', NEW w \in Workers, DeleteMeta(w)
    PROVE  IInv'
<1>1. Gentle /\ StoreSafe'
  BY ReadOnly DEF DeleteMeta, history
<1>2. \A u \in Workers \ {w} : Untouched(u)
  BY OthersUntouched DEF IInv, Step
<1>3. CASE Finish(w, "refused")
  BY <1>1, <1>2, <1>3, FinishSafe, Compose DEF IInv
<1>4. CASE ~ Finish(w, "refused")
  <2>1. /\ pc[w] = "deleteMeta" /\ pc'[w] = "writeDeleted" /\ out'[w] = out[w]
        /\ req'[w] = req[w] /\ cv'[w] = meta[Path(w)].cv /\ hi' = hi
    BY <1>4 DEF DeleteMeta, Goto, IInv, TypeInv, TypeOK, LocalTyped, history
  <2>2. cv'[w] <= hi[Path(w)]
    BY <2>1, PathTyped DEF IInv, StoreSafe
  <2>3. WorkerSafe(w)'
    BY <2>1, <2>2 DEF WorkerSafe, IInv, Path
  <2> QED
    BY <1>1, <1>2, <2>3, Compose
<1> QED
  BY <1>3, <1>4

LEMMA WriteDeletedSafe ==
    ASSUME IInv, TypeInv', NEW w \in Workers, WriteDeleted(w)
    PROVE  IInv'
<1>1. /\ pc[w] = "writeDeleted" /\ ver' = ver /\ hi' = hi
      /\ meta' = [meta EXCEPT ![Path(w)] = DeletedRecord(cv[w])]
  BY DEF WriteDeleted, history
<1>2. cv[w] <= hi[Path(w)]
  BY <1>1 DEF IInv, WorkerSafe
<1>3. Gentle
  BY <1>1, MaxVerAssumption DEF Gentle, IInv, TypeInv, TypeOK, HistoryTyped
<1>4. StoreSafe'
  <2>1. \A p \in Paths : meta'[p].cv <= hi'[p]
    BY <1>1, <1>2 DEF DeletedRecord, IInv, StoreSafe, TypeInv, TypeOK, StoreTyped
  <2> QED
    BY <1>1, <2>1 DEF IInv, StoreSafe, NewestWindowStored, Stored, Retained
<1>5. \A u \in Workers \ {w} : Untouched(u)
  BY OthersUntouched DEF IInv, Step
<1>6. WorkerSafe(w)'
  BY FinishSafe DEF WriteDeleted, IInv
<1> QED
  BY <1>3, <1>4, <1>5, <1>6, Compose

LEMMA ListMetaSafe ==
    ASSUME IInv, TypeInv', NEW w \in Workers, ListMeta(w)
    PROVE  IInv'
<1>1. Gentle /\ StoreSafe'
  BY ReadOnly DEF ListMeta, history
<1>2. \A u \in Workers \ {w} : Untouched(u)
  BY OthersUntouched DEF IInv, Step
<1>3. CASE Finish(w, "refused")
  BY <1>1, <1>2, <1>3, FinishSafe, Compose DEF IInv
<1>4. CASE ~ Finish(w, "refused")
  <2>1. /\ pc[w] = "listMeta" /\ pc'[w] = "listVersions" /\ out'[w] = out[w]
        /\ req'[w] = req[w] /\ cv'[w] = meta[Path(w)].cv /\ hi' = hi
        /\ todo'[w] = Retained(cv'[w])
    BY <1>4 DEF ListMeta, Goto, IInv, TypeInv, TypeOK, LocalTyped, history
  <2>2. cv'[w] <= hi[Path(w)]
    BY <2>1, PathTyped DEF IInv, StoreSafe
  <2>3. Needed(w)' \subseteq todo'[w]
    BY <2>1 DEF Needed, Retained, VersionNumbers
  <2>4. WorkerSafe(w)'
    BY <2>1, <2>2, <2>3 DEF WorkerSafe, IInv, Path
  <2> QED
    BY <1>1, <1>2, <2>4, Compose
<1> QED
  BY <1>3, <1>4

(* A version the listing still needs is stored when its turn comes.        *)
LEMMA ListVersionSafe ==
    ASSUME IInv, TypeInv', NEW w \in Workers, ListVersion(w)
    PROVE  IInv'
<1>1. Gentle /\ StoreSafe'
  BY ReadOnly DEF ListVersion, history
<1>2. \A u \in Workers \ {w} : Untouched(u)
  BY OthersUntouched DEF IInv, Step
<1>3. PICK n \in todo[w] :
         /\ todo' = [todo EXCEPT ![w] = @ \ {n}]
         /\ found' = [found EXCEPT ![w] =
                        IF ver[Path(w)][n] # NoValue THEN @ \cup {n} ELSE @]
  BY DEF ListVersion
<1>4. /\ pc[w] = "listVersions" /\ pc' = pc /\ req' = req /\ cv' = cv /\ out' = out
      /\ hi' = hi
  BY DEF ListVersion, history
<1>5. /\ todo'[w] = todo[w] \ {n}
      /\ found'[w] = IF ver[Path(w)][n] # NoValue THEN found[w] \cup {n} ELSE found[w]
  BY <1>3 DEF IInv, TypeInv, TypeOK, LocalTyped
<1>6. cv[w] <= hi[Path(w)] /\ cv[w] \in 0..MaxVer /\ hi[Path(w)] \in 0..MaxVer
      /\ Path(w) \in Paths
  BY <1>4, PathTyped DEF IInv, WorkerSafe
<1>7. n \in Needed(w) => ver[Path(w)][n] # NoValue
  <2>1. n \in Needed(w) => n \in Retained(hi[Path(w)])
    BY <1>6, RetainedDef, MaxVerAssumption DEF Needed, VersionNumbers
  <2> QED
    BY <1>6, <2>1 DEF IInv, StoreSafe, NewestWindowStored, Stored
<1>8. Needed(w)' = Needed(w)
  BY <1>4 DEF Needed, Retained, Path, VersionNumbers
<1>9. "read" \notin Faults => Needed(w)' \subseteq found'[w] \cup todo'[w]
  BY <1>4, <1>5, <1>7, <1>8 DEF IInv, WorkerSafe
<1>10. WorkerSafe(w)'
  BY <1>4, <1>6, <1>9 DEF WorkerSafe, IInv, Path
<1> QED
  BY <1>1, <1>2, <1>10, Compose

LEMMA ListDoneSafe ==
    ASSUME IInv, TypeInv', NEW w \in Workers, ListDone(w)
    PROVE  IInv'
<1>1. Gentle /\ StoreSafe'
  BY ReadOnly DEF ListDone, history
<1>2. \A u \in Workers \ {w} : Untouched(u)
  BY OthersUntouched DEF IInv, Step
<1>3. /\ pc[w] = "listVersions" /\ pc'[w] = "idle" /\ out'[w] = "listed"
      /\ todo[w] = {} /\ req' = req /\ cv' = cv /\ found' = found /\ hi' = hi
  BY DEF ListDone, Answer, Goto, IInv, TypeInv, TypeOK, LocalTyped, history
<1>4. req[w] \in Requests
  BY <1>3 DEF IInv, TypeInv, TypeOK, LocalTyped
<1>5. Needed(w)' = Needed(w)
  BY <1>3 DEF Needed, Retained, Path, VersionNumbers
<1>6. WorkerSafe(w)'
  BY <1>3, <1>4, <1>5 DEF WorkerSafe, IInv
<1> QED
  BY <1>1, <1>2, <1>6, Compose

LEMMA ReadFailsSafe ==
    ASSUME IInv, TypeInv', NEW w \in Workers, ReadFails(w)
    PROVE  IInv'
<1>1. Gentle /\ StoreSafe'
  BY ReadOnly DEF ReadFails, history
<1>2. \A u \in Workers \ {w} : Untouched(u)
  BY OthersUntouched DEF IInv
<1>3. CASE Finish(w, "failed")
  BY <1>1, <1>2, <1>3, FinishSafe, Compose DEF IInv
<1>4. CASE ~ Finish(w, "failed")
  <2>1. /\ pc[w] = "listVersions" /\ pc' = pc /\ req' = req /\ cv' = cv
        /\ out' = out /\ hi' = hi /\ "read" \in Faults
    BY <1>4 DEF ReadFails, history
  <2>2. WorkerSafe(w)'
    BY <2>1 DEF WorkerSafe, IInv, Path
  <2> QED
    BY <1>1, <1>2, <2>2, Compose
<1> QED
  BY <1>3, <1>4

LEMMA WriteFailsSafe ==
    ASSUME IInv, TypeInv', NEW w \in Workers, WriteFails(w)
    PROVE  IInv'
<1>1. Gentle /\ StoreSafe'
  BY ReadOnly DEF WriteFails
<1>2. \A u \in Workers \ {w} : Untouched(u)
  BY OthersUntouched DEF IInv
<1>3. WorkerSafe(w)'
  BY FinishSafe DEF WriteFails, IInv
<1> QED
  BY <1>1, <1>2, <1>3, Compose

LEMMA CrashSafe ==
    ASSUME IInv, TypeInv', Crash
    PROVE  IInv'
<1>1. StoreSafe'
  BY ReadOnly DEF Crash
<1>2. ASSUME NEW w \in Workers PROVE WorkerSafe(w)'
  <2>1. pc'[w] = "idle" /\ out'[w] = "none"
    BY DEF Crash
  <2> QED
    BY <2>1 DEF WorkerSafe
<1> QED
  BY <1>1, <1>2 DEF IInv

LEMMA InitSafe == Init => IInv
<1> SUFFICES ASSUME Init PROVE IInv
  OBVIOUS
<1>1. StoreSafe
  BY WindowAssumption, MaxVerAssumption, RetainedDef
     DEF Init, StoreSafe, NewestWindowStored, Stored, VersionNumbers
<1>2. \A w \in Workers : WorkerSafe(w)
  BY DEF Init, WorkerSafe
<1> QED
  BY <1>1, <1>2, InitTyped DEF IInv

LEMMA NextSafe == IInv /\ [Next]_vars => IInv'
<1> SUFFICES ASSUME IInv, [Next]_vars PROVE IInv'
  OBVIOUS
<1>1. TypeInv'
  BY NextTyped DEF IInv
<1>2. ASSUME NEW w \in Workers, Step(w) PROVE IInv'
  BY <1>1, <1>2, GetMetaSafe, GetVersionSafe, SetMetaSafe, WriteVersionSafe,
     WriteMetaSafe, PruneSafe, DeleteMetaSafe, WriteDeletedSafe, ListMetaSafe,
     ListVersionSafe, ListDoneSafe DEF Step
<1>3. CASE UNCHANGED vars
  <2>1. StoreSafe'
    BY <1>1, <1>3, ReadOnly DEF vars, store, history
  <2>2. \A w \in Workers : WorkerSafe(w)'
    BY <1>3 DEF IInv, WorkerSafe, Needed, Retained, Path, VersionNumbers, vars, store,
                local, history
  <2> QED
    BY <1>1, <2>1, <2>2 DEF IInv
<1> QED
  BY <1>1, <1>2, <1>3, StartSafe, ReadFailsSafe, WriteFailsSafe, CrashSafe DEF Next

LEMMA Inductive == Spec => []IInv
BY InitSafe, NextSafe, PTL DEF Spec

(* The newest window of every path is stored, under every interleaving of  *)
(* the requests of any number of workers, failed calls and crashes.        *)
THEOREM NewestWindowKept == Spec => []NewestWindowStored
<1>1. IInv => NewestWindowStored
  BY DEF IInv, StoreSafe
<1> QED
  BY <1>1, Inductive, PTL

(* A read that finds the metadata and misses the version asked for one     *)
(* that is no longer retained.                                             *)
THEOREM MissesAreOld == Spec => []MissingIsOld
<1>1. IInv => MissingIsOld
  BY DEF IInv, WorkerSafe, MissingIsOld
<1> QED
  BY <1>1, Inductive, PTL

(* A listing that met no read error leaves out no version still retained.  *)
THEOREM ListingsComplete == Spec => []ListingComplete
<1>1. IInv => ListingComplete
  BY DEF IInv, WorkerSafe, ListingComplete
<1> QED
  BY <1>1, Inductive, PTL
-----------------------------------------------------------------------------
(***************************************************************************)
(* One writer per path.  While a writer is between reading the metadata    *)
(* and writing it nobody else moves the records of its path, so that the   *)
(* version number it holds is not stale when it is used.                   *)
(***************************************************************************)
Writing(w) ==
    \/ pc[w] \in {"setMeta", "writeVersion", "writeMeta", "prune", "deleteMeta",
                  "writeDeleted"}
    \/ pc[w] \in {"getMeta", "getVersion"} /\ req[w].op = "rollback"

WriterOK(w) ==
    /\ Writing(w) => w \in Writers[Path(w)]
    /\ pc[w] \in {"writeVersion", "writeMeta"} => cv[w] = meta[Path(w)].cv + 1
    /\ pc[w] \in {"prune", "writeDeleted"} => cv[w] = meta[Path(w)].cv
    /\ pc[w] = "writeMeta" => ver[Path(w)][cv[w]] = req[w].val

Unrivalled == \A p \in Paths : meta[p].cv = hi[p]

SInv == IInv /\ Unrivalled /\ \A w \in Workers : WriterOK(w)

OnlyPath(w) ==
    \/ UNCHANGED store
    \/ /\ w \in Writers[Path(w)]
       /\ \A q \in Paths \ {Path(w)} : meta'[q] = meta[q] /\ ver'[q] = ver[q]

LEMMA WriterFrame ==
    ASSUME SingleWriter, SInv, NEW w \in Workers, OnlyPath(w),
           NEW u \in Workers \ {w}, Untouched(u)
    PROVE  WriterOK(u)'
<1>1. Path(u)' = Path(u) /\ Writing(u)' = Writing(u)
  BY DEF Untouched, Path, Writing
<1>2. Writing(u) => Path(u) \in Paths /\ u \in Writers[Path(u)]
  BY PathTyped DEF Writing, SInv, IInv, WriterOK
<1>3. Writing(u) => meta'[Path(u)] = meta[Path(u)] /\ ver'[Path(u)] = ver[Path(u)]
  <2> SUFFICES ASSUME Writing(u)
               PROVE  meta'[Path(u)] = meta[Path(u)] /\ ver'[Path(u)] = ver[Path(u)]
    OBVIOUS
  <2>1. CASE UNCHANGED store
    BY <2>1 DEF store
  <2>2. CASE ~ UNCHANGED store
    <3>1. Path(u) # Path(w)
      BY <1>2, <2>2 DEF OnlyPath, SingleWriter
    <3> QED
      BY <1>2, <2>2, <3>1 DEF OnlyPath
  <2> QED
    BY <2>1, <2>2
<1> QED
  BY <1>1, <1>2, <1>3 DEF WriterOK, Untouched, Writing, SInv

LEMMA WriterCompose ==
    ASSUME SingleWriter, SInv, IInv', NEW w \in Workers, OnlyPath(w),
           \A u \in Workers \ {w} : Untouched(u), Unrivalled', WriterOK(w)'
    PROVE  SInv'
<1>1. \A u \in Workers \ {w} : WriterOK(u)'
  BY WriterFrame
<1> QED
  BY <1>1 DEF SInv

(* The effect on the store of the steps that change it.                    *)
LEMMA WriterSteps ==
    ASSUME SingleWriter, SInv, NEW w \in Workers,
           WriteVersion(w) \/ WriteMeta(w) \/ Prune(w) \/ WriteDeleted(w)
    PROVE  /\ OnlyPath(w)
           /\ Path(w) \in Paths
           /\ w \in Writers[Path(w)]
<1>1. pc[w] \in {"writeVersion", "writeMeta", "prune", "writeDeleted"}
  BY DEF WriteVersion, WriteMeta, Prune, WriteDeleted
<1>2. Path(w) \in Paths /\ w \in Writers[Path(w)]
  BY <1>1, PathTyped DEF SInv, IInv, WriterOK, Writing
<1>3. \A q \in Paths \ {Path(w)} : meta'[q] = meta[q] /\ ver'[q] = ver[q]
  BY DEF WriteVersion, WriteMeta, Prune, WriteDeleted, SInv, IInv, TypeInv, TypeOK,
         StoreTyped
<1> QED
  BY <1>2, <1>3 DEF OnlyPath

LEMMA IdleWriterOK ==
    ASSUME NEW w \in Workers, pc'[w] = "idle"
    PROVE  WriterOK(w)'
BY DEF WriterOK, Writing

LEMMA FinishIdle ==
    ASSUME NEW w \in Workers, NEW s, TypeInv, Finish(w, s) \/ Answer(w, s)
    PROVE  pc'[w] = "idle"
BY DEF Finish, Answer, Goto, TypeInv, TypeOK, LocalTyped

LEMMA NextWriter == SingleWriter /\ SInv /\ [Next]_vars => SInv'
<1> SUFFICES ASSUME SingleWriter, SInv, [Next]_vars PROVE SInv'
  OBVIOUS
<1>1. IInv'
  BY NextSafe DEF SInv
<1> USE <1>1
<1>2. TypeInv
  BY DEF SInv, IInv
<1>3. ASSUME UNCHANGED <<store, hi>> PROVE Unrivalled' /\ \A w \in Workers : OnlyPath(w)
  BY <1>3 DEF SInv, Unrivalled, OnlyPath, store
<1>4. ASSUME NEW w \in Workers, Step(w) \/ ReadFails(w) \/ WriteFails(w)
      PROVE  \A u \in Workers \ {w} : Untouched(u)
  BY <1>2, <1>4, OthersUntouched
<1>5. ASSUME NEW w \in Workers, NEW r \in Requests, Start(w, r) PROVE SInv'
  <2>1. \A u \in Workers \ {w} : Untouched(u)
    BY <1>2, <1>5 DEF Start, Goto, Untouched, TypeInv, TypeOK, LocalTyped
  <2>2. pc'[w] = FirstCall(r.op) /\ req'[w] = r
    BY <1>2, <1>5 DEF Start, Goto, TypeInv, TypeOK, LocalTyped
  <2>3. r.op \in {"set", "delete", "rollback"} => w \in Writers[r.path]
    BY <1>5 DEF Start, Mutations
  <2>4. FirstCall(r.op) = "deleteMeta" => r.op = "delete"
    BY DEF FirstCall, Requests, Ops, Mutations
  <2>5. WriterOK(w)'
    BY <1>5, <2>2, <2>3, <2>4, StartLabel DEF WriterOK, Writing, Path
  <2> QED
    BY <1>3, <1>5, <2>1, <2>5, WriterCompose DEF Start
<1>6. ASSUME NEW w \in Workers, GetMeta(w) PROVE SInv'
  <2>1. UNCHANGED <<store, hi>>
    BY <1>6 DEF GetMeta, history
  <2>2. WriterOK(w)'
    <3>1. CASE Finish(w, "refused")
      BY <1>2, <3>1, FinishIdle, IdleWriterOK
    <3>2. CASE ~ Finish(w, "refused")
      <4>1. pc[w] = "getMeta" /\ pc'[w] = "getVersion" /\ req'[w] = req[w]
        BY <1>2, <1>6, <3>2 DEF GetMeta, Goto, TypeInv, TypeOK, LocalTyped
      <4> QED
        BY <4>1 DEF SInv, WriterOK, Writing, Path
    <3> QED
      BY <3>1, <3>2
  <2> QED
    BY <1>3, <1>4, <1>6, <2>1, <2>2, WriterCompose DEF Step
<1>7. ASSUME NEW w \in Workers, GetVersion(w) PROVE SInv'
  <2>1. UNCHANGED <<store, hi>>
    BY <1>7 DEF GetVersion, history
  <2>2. WriterOK(w)'
    <3>1. CASE Answer(w, "missing") \/ Answer(w, "value")
      BY <1>2, <3>1, FinishIdle, IdleWriterOK
    <3>2. CASE ~ (Answer(w, "missing") \/ Answer(w, "value"))
      <4>1. /\ pc[w] = "getVersion" /\ pc'[w] = "setMeta" /\ req[w].op = "rollback"
            /\ req' = [req EXCEPT ![w].val = ver[Path(w)][cv[w]]]
            /\ req[w] \in Requests
        BY <1>2, <1>7, <3>2 DEF GetVersion, Goto, TypeInv, TypeOK, LocalTyped
      <4>2. req'[w].path = req[w].path
        BY <1>2, <4>1 DEF TypeInv, TypeOK, LocalTyped, Requests
      <4> QED
        BY <4>1, <4>2 DEF SInv, WriterOK, Writing, Path
    <3> QED
      BY <3>1, <3>2
  <2> QED
    BY <1>3, <1>4, <1>7, <2>1, <2>2, WriterCompose DEF Step
<1>8. ASSUME NEW w \in Workers, SetMeta(w) PROVE SInv'
  <2>1. UNCHANGED <<store, hi>>
    BY <1>8 DEF SetMeta, history
  <2>2. /\ pc[w] = "setMeta" /\ pc'[w] = "writeVersion" /\ req'[w] = req[w]
        /\ cv'[w] = meta[Path(w)].cv + 1
    BY <1>2, <1>8 DEF SetMeta, NextVersion, Goto, TypeInv, TypeOK, LocalTyped
  <2>3. WriterOK(w)'
    BY <2>1, <2>2 DEF SInv, WriterOK, Writing, Path, store
  <2> QED
    BY <1>3, <1>4, <1>8, <2>1, <2>3, WriterCompose DEF Step
<1>9. ASSUME NEW w \in Workers, WriteVersion(w) PROVE SInv'
  <2>1. OnlyPath(w) /\ Path(w) \in Paths /\ w \in Writers[Path(w)]
    BY <1>9, WriterSteps
  <2>2. Unrivalled'
    BY <1>9 DEF WriteVersion, history, SInv, Unrivalled
  <2>3. /\ pc[w] = "writeVersion" /\ pc'[w] = "writeMeta" /\ req' = req /\ cv' = cv
        /\ meta' = meta /\ ver' = [ver EXCEPT ![Path(w)][cv[w]] = req[w].val]
    BY <1>2, <1>9 DEF WriteVersion, Goto, TypeInv, TypeOK, LocalTyped
  <2>4. ver'[Path(w)][cv[w]] = req[w].val
    BY <1>2, <2>1, <2>3 DEF TypeInv, TypeOK, StoreTyped, LocalOK
  <2>5. WriterOK(w)'
    BY <2>1, <2>3, <2>4 DEF SInv, WriterOK, Writing, Path
  <2> QED
    BY <1>4, <1>9, <2>1, <2>2, <2>5, WriterCompose DEF Step
<1>10. ASSUME NEW w \in Workers, WriteMeta(w) PROVE SInv'
  <2>1. OnlyPath(w) /\ Path(w) \in Paths /\ w \in Writers[Path(w)]
    BY <1>10, WriterSteps
  <2>2. /\ pc[w] = "writeMeta"
        /\ meta' = [meta EXCEPT ![Path(w)] = [cv |-> cv[w], deleted |-> FALSE]]
        /\ hi' = [hi EXCEPT ![Path(w)] = Raise(hi[Path(w)], cv[w])]
    BY <1>10 DEF WriteMeta
  <2>3. cv[w] = hi[Path(w)] + 1 /\ hi[Path(w)] \in Int
    BY <1>2, <2>1, <2>2, PathTyped DEF SInv, WriterOK, Unrivalled
  <2>4. Raise(hi[Path(w)], cv[w]) = cv[w]
    BY <2>3 DEF Raise
  <2>5. Unrivalled' /\ meta'[Path(w)].cv = cv[w]
    BY <1>2, <2>1, <2>2, <2>4
       DEF SInv, Unrivalled, TypeInv, TypeOK, StoreTyped, HistoryTyped
  <2>6. WriterOK(w)'
    <3>1. CASE Finish(w, "done")
      BY <1>2, <3>1, FinishIdle, IdleWriterOK
    <3>2. CASE ~ Finish(w, "done")
      <4>1. pc'[w] = "prune" /\ req' = req /\ cv' = cv
        BY <1>2, <1>10, <3>2 DEF WriteMeta, Goto, TypeInv, TypeOK, LocalTyped
      <4> QED
        BY <2>1, <2>5, <4>1 DEF WriterOK, Writing, Path
    <3> QED
      BY <3>1, <3>2
  <2> QED
    BY <1>4, <1>10, <2>1, <2>5, <2>6, WriterCompose DEF Step
<1>11. ASSUME NEW w \in Workers, Prune(w) PROVE SInv'
  <2>1. OnlyPath(w)
    BY <1>11, WriterSteps
  <2>2. Unrivalled'
    BY <1>11 DEF Prune, history, SInv, Unrivalled
  <2>3. WriterOK(w)'
    BY <1>2, <1>11, FinishIdle, IdleWriterOK DEF Prune
  <2> QED
    BY <1>4, <1>11, <2>1, <2>2, <2>3, WriterCompose DEF Step
<1>12. ASSUME NEW w \in Workers, DeleteMeta(w) PROVE SInv'
  <2>1. UNCHANGED <<store, hi>>
    BY <1>12 DEF DeleteMeta, history
  <2>2. WriterOK(w)'
    <3>1. CASE Finish(w, "refused")
      BY <1>2, <3>1, FinishIdle, IdleWriterOK
    <3>2. CASE ~ Finish(w, "refused")
      <4>1. /\ pc[w] = "deleteMeta" /\ pc'[w] = "writeDeleted" /\ req'[w] = req[w]
            /\ cv'[w] = meta[Path(w)].cv
        BY <1>2, <1>12, <3>2 DEF DeleteMeta, Goto, TypeInv, TypeOK, LocalTyped
      <4> QED
        BY <2>1, <4>1 DEF SInv, WriterOK, Writing, Path, store
    <3> QED
      BY <3>1, <3>2
  <2> QED
    BY <1>3, <1>4, <1>12, <2>1, <2>2, WriterCompose DEF Step
<1>13. ASSUME NEW w \in Workers, WriteDeleted(w) PROVE SInv'
  <2>1. OnlyPath(w)
    BY <1>13, WriterSteps
  <2>2. /\ pc[w] = "writeDeleted" /\ hi' = hi
        /\ meta' = [meta EXCEPT ![Path(w)] = DeletedRecord(cv[w])]
    BY <1>13 DEF WriteDeleted, history
  <2>3. cv[w] = meta[Path(w)].cv
    BY <2>2 DEF SInv, WriterOK
  <2>4. Unrivalled'
    BY <1>2, <2>2, <2>3
       DEF DeletedRecord, SInv, Unrivalled, TypeInv, TypeOK, StoreTyped
  <2>5. WriterOK(w)'
    BY <1>2, <1>13, FinishIdle, IdleWriterOK DEF WriteDeleted
  <2> QED
    BY <1>4, <1>13, <2>1, <2>4, <2>5, WriterCompose DEF Step
<1>14. ASSUME NEW w \in Workers, ListMeta(w) PROVE SInv'
  <2>1. UNCHANGED <<store, hi>>
    BY <1>14 DEF ListMeta, history
  <2>2. WriterOK(w)'
    <3>1. CASE Finish(w, "refused")
      BY <1>2, <3>1, FinishIdle, IdleWriterOK
    <3>2. CASE ~ Finish(w, "refused")
      <4>1. pc'[w] = "listVersions"
        BY <1>2, <1>14, <3>2 DEF ListMeta, Goto, TypeInv, TypeOK, LocalTyped
      <4> QED
        BY <4>1 DEF WriterOK, Writing
    <3> QED
      BY <3>1, <3>2
  <2> QED
    BY <1>3, <1>4, <1>14, <2>1, <2>2, WriterCompose DEF Step
<1>15. ASSUME NEW w \in Workers, ListVersion(w) PROVE SInv'
  <2>1. UNCHANGED <<store, hi>>
    BY <1>15 DEF ListVersion, history
  <2>2. WriterOK(w)'
    BY <1>15 DEF ListVersion, WriterOK, Writing
  <2> QED
    BY <1>3, <1>4, <1>15, <2>1, <2>2, WriterCompose DEF Step
<1>16. ASSUME NEW w \in Workers, ListDone(w) PROVE SInv'
  <2>1. UNCHANGED <<store, hi>>
    BY <1>16 DEF ListDone, history
  <2>2. WriterOK(w)'
    BY <1>2, <1>16, FinishIdle, IdleWriterOK DEF ListDone
  <2> QED
    BY <1>3, <1>4, <1>16, <2>1, <2>2, WriterCompose DEF Step
<1>17. ASSUME NEW w \in Workers, ReadFails(w) PROVE SInv'
  <2>1. UNCHANGED <<store, hi>>
    BY <1>17 DEF ReadFails, history
  <2>2. WriterOK(w)'
    <3>1. CASE Finish(w, "failed")
      BY <1>2, <3>1, FinishIdle, IdleWriterOK
    <3>2. CASE ~ Finish(w, "failed")
      BY <1>17, <3>2 DEF ReadFails, WriterOK, Writing
    <3> QED
      BY <3>1, <3>2
  <2> QED
    BY <1>3, <1>4, <1>17, <2>1, <2>2, WriterCompose
<1>18. ASSUME NEW w \in Workers, WriteFails(w) PROVE SInv'
  <2>1. UNCHANGED <<store, hi>>
    BY <1>18 DEF WriteFails
  <2>2. WriterOK(w)'
    BY <1>2, <1>18, FinishIdle, IdleWriterOK DEF WriteFails
  <2> QED
    BY <1>3, <1>4, <1>18, <2>1, <2>2, WriterCompose
<1>19. CASE Crash
  <2>1. Unrivalled'
    BY <1>3, <1>19 DEF Crash
  <2>2. \A w \in Workers : WriterOK(w)'
    BY <1>19, IdleWriterOK DEF Crash
  <2> QED
    BY <2>1, <2>2 DEF SInv
<1>20. CASE UNCHANGED vars
  BY <1>20 DEF vars, store, local, history, SInv, Unrivalled, WriterOK, Writing, Path
<1> QED
  BY <1>5, <1>6, <1>7, <1>8, <1>9, <1>10, <1>11, <1>12, <1>13, <1>14, <1>15, <1>16,
     <1>17, <1>18, <1>19, <1>20 DEF Next, Step

LEMMA InitWriter == Init => SInv
<1> SUFFICES ASSUME Init PROVE SInv
  OBVIOUS
<1>1. Unrivalled /\ \A w \in Workers : WriterOK(w)
  BY DEF Init, Unrivalled, WriterOK, Writing
<1> QED
  BY <1>1, InitSafe DEF SInv

LEMMA WriterInductive ==
    ASSUME SingleWriter
    PROVE  Spec => []SInv
<1>1. SInv /\ [Next]_vars => SInv'
  BY NextWriter
<1> QED
  BY <1>1, InitWriter, PTL DEF Spec

(* With one writer per path the current version of every secret, and the   *)
(* window behind it, can be read.                                          *)
THEOREM CurrentWindowKept ==
    ASSUME SingleWriter
    PROVE  Spec => []CurrentWindowStored
<1>1. SInv => CurrentWindowStored
  BY DEF SInv, IInv, StoreSafe, Unrivalled, NewestWindowStored, CurrentWindowStored
<1> QED
  BY <1>1, WriterInductive, PTL

(* The steps that write a version record, and what they leave alone.       *)
LEMMA VersionWrites ==
    ASSUME SInv, [Next]_vars
    PROVE  \/ UNCHANGED ver
           \/ \E w \in Workers : WriteVersion(w) \/ Prune(w)
BY DEF Next, Step, Start, GetMeta, GetVersion, SetMeta, WriteMeta, DeleteMeta,
       WriteDeleted, ListMeta, ListVersion, ListDone, ReadFails, WriteFails, Crash,
       vars, store

(* With one writer per path a committed version never changes: it is only  *)
(* ever pruned.                                                            *)
THEOREM HistoryKept ==
    ASSUME SingleWriter
    PROVE  Spec => CommittedImmutable
<1> DEFINE Immutable ==
      \A p \in Paths, n \in VersionNumbers :
          /\ n <= hi[p]
          /\ ver[p][n] # NoValue
          => ver'[p][n] \in {ver[p][n], NoValue}
<1>1. SInv /\ [Next]_vars => [Immutable]_vars
  <2> SUFFICES ASSUME SInv, [Next]_vars PROVE Immutable
    OBVIOUS
  <2>1. CASE UNCHANGED ver
    BY <2>1
  <2>2. ASSUME NEW w \in Workers, WriteVersion(w) PROVE Immutable
    <3>1. /\ pc[w] = "writeVersion"
          /\ ver' = [ver EXCEPT ![Path(w)][cv[w]] = req[w].val]
      BY <2>2 DEF WriteVersion
    <3>2. cv[w] = hi[Path(w)] + 1 /\ hi[Path(w)] \in Int
      BY <3>1, PathTyped DEF SInv, IInv, WriterOK, Unrivalled
    <3>3. ~ (cv[w] <= hi[Path(w)])
      BY <3>2
    <3> QED
      BY <3>1, <3>3 DEF SInv, IInv, TypeInv, TypeOK, StoreTyped
  <2>3. ASSUME NEW w \in Workers, Prune(w) PROVE Immutable
    BY <2>3 DEF Prune, SInv, IInv, TypeInv, TypeOK, StoreTyped
  <2> QED
    BY <2>1, <2>2, <2>3, VersionWrites
<1>2. Spec => []SInv
  BY WriterInductive
<1> QED
  BY <1>1, <1>2, PTL DEF Spec, CommittedImmutable

-----------------------------------------------------------------------------
(***************************************************************************)
(* A read of the latest version.  The highest committed version only grows *)
(* while the request is on its way to the metadata, and the metadata names *)
(* it, so the version the request then looks up is no older than the one   *)
(* that was committed when it arrived.                                     *)
(***************************************************************************)
ReaderFresh(w) ==
    /\ pc[w] = "getMeta" => floor[w] <= hi[Path(w)]
    /\ pc[w] = "getVersion" /\ req[w].version = 0 => cv[w] >= floor[w]
    /\ out[w] = "value" /\ req[w].version = 0 => cv[w] >= floor[w]

HighestGrows == \A p \in Paths : hi[p] <= hi'[p]

LEMMA HighestOnlyGrows ==
    ASSUME IInv, [Next]_vars
    PROVE  HighestGrows
<1>1. CASE UNCHANGED hi
  BY <1>1, MaxVerAssumption DEF HighestGrows, IInv, TypeInv, TypeOK, HistoryTyped
<1>2. ASSUME NEW w \in Workers, WriteMeta(w) PROVE HighestGrows
  BY <1>2, MaxVerAssumption
     DEF WriteMeta, Raise, HighestGrows, IInv, TypeInv, TypeOK, HistoryTyped, LocalTyped
<1> QED
  BY <1>1, <1>2
     DEF Next, Step, Start, GetMeta, GetVersion, SetMeta, WriteVersion, Prune, DeleteMeta,
         WriteDeleted, ListMeta, ListVersion, ListDone, ReadFails, WriteFails, Crash,
         vars, history

(* What another worker holds stays fresh as the store moves on.            *)
LEMMA FreshFrame ==
    ASSUME IInv, IInv', HighestGrows, NEW w \in Workers, ReaderFresh(w),
           Untouched(w), floor'[w] = floor[w]
    PROVE  ReaderFresh(w)'
<1>1. pc[w] = "getMeta" => Path(w) \in Paths
  BY PathTyped DEF IInv
<1>2. Path(w)' = Path(w)
  BY DEF Path, Untouched
<1>3. pc[w] = "getMeta" => floor[w] <= hi'[Path(w)]
  <2> SUFFICES ASSUME pc[w] = "getMeta" PROVE floor[w] <= hi'[Path(w)]
    OBVIOUS
  <2>1. /\ floor[w] \in Int /\ hi[Path(w)] \in Int /\ hi'[Path(w)] \in Int
        /\ hi[Path(w)] <= hi'[Path(w)] /\ floor[w] <= hi[Path(w)]
    BY <1>1, MaxVerAssumption
       DEF HighestGrows, ReaderFresh, IInv, TypeInv, TypeOK, HistoryTyped
  <2> QED
    BY <2>1
<1> QED
  BY <1>2, <1>3 DEF ReaderFresh, Untouched

LEMMA StartFresh ==
    ASSUME SInv, NEW w \in Workers, NEW r \in Requests, Start(w, r)
    PROVE  ReaderFresh(w)'
<1>1. /\ pc'[w] \in {"getMeta", "setMeta", "deleteMeta", "listMeta"}
      /\ req'[w] = r /\ out'[w] = "none" /\ hi' = hi
      /\ floor'[w] = IF r.op = "get" THEN hi[r.path] ELSE 0
  BY StartLabel
     DEF Start, Goto, SInv, IInv, TypeInv, TypeOK, LocalTyped, HistoryTyped
<1>2. r.path \in Paths /\ hi[r.path] \in 0..MaxVer
  BY DEF Requests, SInv, IInv, TypeInv, TypeOK, HistoryTyped
<1> QED
  BY <1>1, <1>2, MaxVerAssumption DEF ReaderFresh, Path

LEMMA GetMetaFresh ==
    ASSUME SInv, NEW w \in Workers, ReaderFresh(w), GetMeta(w)
    PROVE  ReaderFresh(w)'
<1> USE DEF SInv, IInv, TypeInv, TypeOK, LocalTyped
<1>1. pc[w] = "getMeta" /\ out[w] = "none" /\ Path(w) \in Paths
  BY PathTyped DEF GetMeta, WorkerSafe
<1>2. CASE Readable(w)
  <2>1. /\ cv'[w] = Wanted(w) /\ pc'[w] = "getVersion" /\ req'[w] = req[w]
        /\ out'[w] = "none" /\ floor' = floor
    BY <1>1, <1>2 DEF GetMeta, Goto, history
  <2>2. req[w].version = 0 => Wanted(w) >= floor[w]
    BY <1>1, MaxVerAssumption
       DEF Wanted, Unrivalled, ReaderFresh, HistoryTyped, StoreTyped
  <2> QED
    BY <2>1, <2>2 DEF ReaderFresh
<1>3. CASE ~ Readable(w)
  BY <1>1, <1>3 DEF GetMeta, Finish, Goto, ReaderFresh
<1> QED
  BY <1>2, <1>3

LEMMA GetVersionFresh ==
    ASSUME SInv, NEW w \in Workers, ReaderFresh(w), GetVersion(w)
    PROVE  ReaderFresh(w)'
<1> USE DEF SInv, IInv, TypeInv, TypeOK, LocalTyped
<1>1. pc[w] = "getVersion" /\ out[w] = "none" /\ floor' = floor
  BY DEF GetVersion, WorkerSafe, history
<1>2. CASE Answer(w, "missing") \/ Answer(w, "value")
  BY <1>1, <1>2 DEF Answer, Goto, ReaderFresh
<1>3. CASE ~ (Answer(w, "missing") \/ Answer(w, "value"))
  BY <1>1, <1>3 DEF GetVersion, Goto, ReaderFresh
<1> QED
  BY <1>2, <1>3

(* Every other step of a worker ends without a value, at no call of a read.*)
LEMMA OthersFresh ==
    ASSUME SInv, NEW w \in Workers, ReadFails(w) \/ WriteFails(w) \/ Step(w),
           ~ GetMeta(w), ~ GetVersion(w)
    PROVE  ReaderFresh(w)'
<1>1. pc[w] # "idle"
  BY DEF Step, ReadFails, WriteFails, SetMeta, WriteVersion, WriteMeta, Prune, DeleteMeta,
         WriteDeleted, ListMeta, ListVersion, ListDone
<1>2. out[w] = "none"
  BY <1>1 DEF SInv, IInv, WorkerSafe
<1>3. pc'[w] \notin {"getMeta", "getVersion"} /\ out'[w] # "value"
  BY <1>2 DEF SInv, IInv, TypeInv, TypeOK, LocalTyped, Step, ReadFails, WriteFails,
       SetMeta, WriteVersion, WriteMeta, Prune, DeleteMeta, WriteDeleted, ListMeta,
       ListVersion, ListDone, Answer, Finish, Goto
<1> QED
  BY <1>3 DEF ReaderFresh

LEMMA FreshStep ==
    ASSUME SInv, SInv', [Next]_vars, \A w \in Workers : ReaderFresh(w)
    PROVE  \A w \in Workers : ReaderFresh(w)'
<1>1. IInv /\ IInv' /\ TypeInv /\ HighestGrows
  BY HighestOnlyGrows DEF SInv, IInv
<1>2. ASSUME NEW w \in Workers, NEW r \in Requests, Start(w, r), NEW u \in Workers
      PROVE  ReaderFresh(u)'
  <2>1. CASE u = w
    BY <1>2, <2>1, StartFresh
  <2>2. CASE u # w
    <3>1. Untouched(u) /\ floor'[u] = floor[u]
      BY <1>1, <1>2, <2>2
         DEF Start, Goto, Untouched, TypeInv, TypeOK, LocalTyped, HistoryTyped
    <3> QED
      BY <1>1, <3>1, FreshFrame
  <2> QED
    BY <2>1, <2>2
<1>3. ASSUME NEW w \in Workers, Step(w) \/ ReadFails(w) \/ WriteFails(w), NEW u \in Workers
      PROVE  ReaderFresh(u)'
  <2>1. CASE u = w
    BY <1>3, <2>1, GetMetaFresh, GetVersionFresh, OthersFresh
  <2>2. CASE u # w
    <3>1. floor' = floor
      BY <1>3 DEF Step, GetMeta, GetVersion, SetMeta, WriteVersion, WriteMeta, Prune,
           DeleteMeta, WriteDeleted, ListMeta, ListVersion, ListDone, ReadFails,
           WriteFails, history
    <3> QED
      BY <1>1, <1>3, <2>2, <3>1, OthersUntouched, FreshFrame
  <2> QED
    BY <2>1, <2>2
<1>4. ASSUME Crash, NEW u \in Workers PROVE ReaderFresh(u)'
  BY <1>4 DEF Crash, ReaderFresh
<1>5. ASSUME UNCHANGED vars, NEW u \in Workers PROVE ReaderFresh(u)'
  BY <1>5 DEF ReaderFresh, Path, vars, store, local, history
<1> QED
  BY <1>2, <1>3, <1>4, <1>5 DEF Next

(* With one writer per path a read of the latest version is never stale.   *)
THEOREM ReadsAreFresh ==
    ASSUME SingleWriter
    PROVE  Spec => []LatestIsFresh
<1> DEFINE Fresh == \A w \in Workers : ReaderFresh(w)
<1>1. Init => Fresh
  BY DEF Init, ReaderFresh
<1>2. Fresh /\ SInv /\ SInv' /\ [Next]_vars => Fresh'
  BY FreshStep
<1>3. Spec => []SInv
  BY WriterInductive
<1>4. Fresh => LatestIsFresh
  BY DEF ReaderFresh, LatestIsFresh
<1> QED
  BY <1>1, <1>2, <1>3, <1>4, PTL DEF Spec

-----------------------------------------------------------------------------
(***************************************************************************)
(* What is stored is what is retained.  The invariant accounts for every   *)
(* version: it is in the window, was left behind by a prune that did not   *)
(* happen, or is the target of the prune under way; nothing left behind is *)
(* ever that target, since numbering never goes back.                      *)
(***************************************************************************)
Pruning(p) == \E w \in Workers : pc[w] = "prune" /\ Path(w) = p

Accounted(p, n) ==
    \/ n \in Retained(meta[p].cv)
    \/ n \in leaked[p]
    \/ Pruning(p) /\ n = PruneTarget(meta[p].cv)

Exact(p) ==
    /\ \A n \in VersionNumbers :
          n <= meta[p].cv => (ver[p][n] # NoValue <=> Accounted(p, n))
    /\ \A n \in VersionNumbers : ver[p][n] # NoValue => n <= meta[p].cv + 1
    /\ \A n \in leaked[p] :
          /\ n \in VersionNumbers
          /\ n <= PruneTarget(meta[p].cv)
          /\ Pruning(p) => n # PruneTarget(meta[p].cv)

(* Whether a prune is under way depends on the workers at a prune only.    *)
LEMMA PruningFrame ==
    ASSUME NEW p \in Paths, NEW w \in Workers, \A u \in Workers \ {w} : Untouched(u),
           pc[w] = "prune" => Path(w) # p, pc'[w] = "prune" => Path(w)' # p
    PROVE  Pruning(p)' <=> Pruning(p)
BY DEF Pruning, Untouched, Path

LEMMA ExactFrame ==
    ASSUME NEW p \in Paths, Exact(p), Pruning(p)' <=> Pruning(p),
           ver'[p] = ver[p], meta'[p].cv = meta[p].cv, leaked'[p] = leaked[p]
    PROVE  Exact(p)'
BY DEF Exact, Accounted, Retained, PruneTarget, VersionNumbers

(* The writer of a path is the only one who can be pruning it.             *)
LEMMA OnePruner ==
    ASSUME SingleWriter, SInv, NEW w \in Workers, Writing(w), Pruning(Path(w))
    PROVE  pc[w] = "prune"
<1>1. PICK u \in Workers : pc[u] = "prune" /\ Path(u) = Path(w)
  BY DEF Pruning
<1>2. Path(w) \in Paths
  BY PathTyped DEF Writing, SInv, IInv
<1>3. u \in Writers[Path(w)] /\ w \in Writers[Path(w)]
  BY <1>1 DEF SInv, WriterOK, Writing
<1> QED
  BY <1>1, <1>2, <1>3 DEF SingleWriter

LEMMA WriteVersionExact ==
    ASSUME SingleWriter, SInv, NEW w \in Workers, WriteVersion(w),
           NEW p \in Paths, Exact(p)
    PROVE  Exact(p)'
<1>t. TypeInv
  BY DEF SInv, IInv
<1>1. /\ pc[w] = "writeVersion" /\ pc'[w] = "writeMeta"
      /\ meta' = meta /\ leaked' = leaked
      /\ ver' = [ver EXCEPT ![Path(w)][cv[w]] = req[w].val]
  BY <1>t DEF WriteVersion, Goto, history, TypeInv, TypeOK, LocalTyped
<1>2. Pruning(p)' <=> Pruning(p)
  BY <1>t, <1>1, OthersUntouched, PruningFrame DEF Step
<1>3. CASE p # Path(w)
  BY <1>t, <1>1, <1>2, <1>3, ExactFrame DEF TypeInv, TypeOK, StoreTyped
<1>4. CASE p = Path(w)
  <2>1. cv[w] = meta[p].cv + 1 /\ meta[p].cv \in Int
    BY <1>t, <1>1, <1>4 DEF SInv, WriterOK, TypeInv, TypeOK, StoreTyped
  <2>2. \A n \in VersionNumbers : n # cv[w] => ver'[p][n] = ver[p][n]
    BY <1>t, <1>1, <1>4 DEF TypeInv, TypeOK, StoreTyped
  <2>3. \A n : Accounted(p, n)' <=> Accounted(p, n)
    BY <1>1, <1>2 DEF Accounted, Retained, PruneTarget, VersionNumbers
  <2>4. \A n \in VersionNumbers :
           n <= meta[p].cv => (ver'[p][n] # NoValue <=> Accounted(p, n)')
    BY <2>1, <2>2, <2>3 DEF Exact, VersionNumbers
  <2>5. \A n \in VersionNumbers : ver'[p][n] # NoValue => n <= meta[p].cv + 1
    BY <2>1, <2>2 DEF Exact, VersionNumbers
  <2> QED
    BY <1>1, <1>2, <2>4, <2>5 DEF Exact, PruneTarget, VersionNumbers
<1> QED
  BY <1>3, <1>4

LEMMA WindowMoves ==
    ASSUME NEW c \in Nat, NEW n \in Int, n >= 1
    PROVE  \/ n > c + 1 - Window /\ n <= c + 1
           \/ c + 1 > Window /\ n = c + 1 - Window
           <=> n = c + 1 \/ (n > c - Window /\ n <= c)
BY WindowAssumption

LEMMA WriteMetaExact ==
    ASSUME SingleWriter, SInv, NEW w \in Workers, WriteMeta(w),
           NEW p \in Paths, Exact(p)
    PROVE  Exact(p)'
<1>t. TypeInv
  BY DEF SInv, IInv
<1>1. /\ pc[w] = "writeMeta" /\ ver' = ver /\ leaked' = leaked
      /\ meta' = [meta EXCEPT ![Path(w)] = [cv |-> cv[w], deleted |-> FALSE]]
      /\ Path(w) \in Paths /\ cv[w] \in VersionNumbers
  BY <1>t, PathTyped DEF WriteMeta, TypeInv, LocalOK
<1>2. \/ cv[w] > Window /\ pc'[w] = "prune" /\ req'[w] = req[w]
      \/ cv[w] <= Window /\ pc'[w] = "idle"
  BY <1>t DEF WriteMeta, Goto, Finish, TypeInv, TypeOK, LocalTyped
<1>3. CASE p # Path(w)
  <2>1. Pruning(p)' <=> Pruning(p)
    BY <1>t, <1>1, <1>2, <1>3, OthersUntouched, PruningFrame DEF Step, Path
  <2> QED
    BY <1>t, <1>1, <1>3, <2>1, ExactFrame DEF TypeInv, TypeOK, StoreTyped
<1>4. CASE p = Path(w)
  <2>0. PICK c \in Nat : c = meta[p].cv
    BY <1>t, MaxVerAssumption DEF TypeInv, TypeOK, StoreTyped
  <2>1. /\ cv[w] = c + 1 /\ meta'[p].cv = c + 1
        /\ ver[p][c + 1] # NoValue
    BY <1>t, <1>1, <1>4, <2>0, NoValueAssumption
       DEF SInv, WriterOK, TypeInv, TypeOK, StoreTyped, LocalOK
  <2>2. ~ Pruning(p)
    BY <1>1, <1>4, OnePruner DEF Writing
  <2>3. Pruning(p)' <=> c + 1 > Window
    <3>1. ASSUME c + 1 > Window PROVE Pruning(p)'
      <4>1. pc'[w] = "prune" /\ Path(w)' = p
        BY <1>2, <1>4, <2>1, <3>1, WindowAssumption DEF Path
      <4> QED
        BY <4>1 DEF Pruning
    <3>2. ASSUME c + 1 <= Window PROVE ~ Pruning(p)'
      <4>1. pc'[w] = "idle"
        BY <1>2, <2>1, <3>2, WindowAssumption
      <4> QED
        BY <1>t, <1>1, <2>2, <4>1, OthersUntouched, PruningFrame DEF Step
    <3> QED
      BY <2>1, <3>1, <3>2, WindowAssumption
  <2>4. \A n \in VersionNumbers : n <= c + 1 =>
           (Accounted(p, n)' <=> n = c + 1 \/ Accounted(p, n))
    <3> SUFFICES ASSUME NEW n \in VersionNumbers, n <= c + 1
                 PROVE  Accounted(p, n)' <=> n = c + 1 \/ Accounted(p, n)
      OBVIOUS
    <3>1. Accounted(p, n)' <=> \/ n > c + 1 - Window /\ n <= c + 1
                               \/ n \in leaked[p]
                               \/ c + 1 > Window /\ n = c + 1 - Window
      <4>1. n \in Retained(meta'[p].cv) <=> n > c + 1 - Window /\ n <= c + 1
        BY <2>1, WindowAssumption, MaxVerAssumption DEF Retained, VersionNumbers
      <4>2. PruneTarget(meta'[p].cv) = c + 1 - Window
        BY <2>1, WindowAssumption DEF PruneTarget
      <4> QED
        BY <1>1, <2>3, <4>1, <4>2 DEF Accounted
    <3>2. Accounted(p, n) <=> (n > c - Window /\ n <= c) \/ n \in leaked[p]
      BY <2>0, <2>2 DEF Accounted, Retained
    <3>3. n \in Int /\ n >= 1
      BY DEF VersionNumbers
    <3>4. (n > c + 1 - Window /\ n <= c + 1) \/ (c + 1 > Window /\ n = c + 1 - Window)
          <=> n = c + 1 \/ (n > c - Window /\ n <= c)
      BY <3>3, WindowMoves
    <3> QED
      BY <3>1, <3>2, <3>4
  <2>5. \A n \in VersionNumbers :
           n <= c + 1 => (ver[p][n] # NoValue <=> Accounted(p, n)')
    BY <2>0, <2>1, <2>4 DEF Exact, VersionNumbers
  <2>6. \A n \in VersionNumbers : ver[p][n] # NoValue => n <= c + 1 + 1
    BY <2>0 DEF Exact, VersionNumbers
  <2>7. \A n \in leaked[p] :
           n \in VersionNumbers /\ n <= c + 1 - Window /\ n # c + 1 - Window
    BY <2>0, WindowAssumption DEF Exact, PruneTarget, VersionNumbers
  <2> QED
    BY <1>1, <2>1, <2>5, <2>6, <2>7, WindowAssumption, MaxVerAssumption
       DEF Exact, PruneTarget, VersionNumbers
<1> QED
  BY <1>3, <1>4

(* The prune of a path ends, by removing its target or by leaving it.      *)
LEMMA PruneEnds ==
    ASSUME SingleWriter, SInv, NEW w \in Workers, pc[w] = "prune", pc'[w] = "idle",
           \A u \in Workers \ {w} : Untouched(u), NEW p, p = Path(w)
    PROVE  /\ p \in Paths /\ cv[w] = meta[p].cv
           /\ meta[p].cv \in Nat /\ PruneTarget(cv[w]) \in VersionNumbers
           /\ Pruning(p) /\ ~ Pruning(p)'
<1>1. /\ p \in Paths /\ cv[w] = meta[p].cv /\ cv[w] \in VersionNumbers
      /\ cv[w] > Window
  BY PathTyped DEF SInv, IInv, WriterOK, TypeInv, LocalOK
<1>2. PruneTarget(cv[w]) \in VersionNumbers
  BY <1>1, WindowAssumption, MaxVerAssumption DEF PruneTarget, VersionNumbers
<1>3. \A u \in Workers \ {w} : ~ (pc[u] = "prune" /\ Path(u) = p)
  BY <1>1 DEF SInv, WriterOK, Writing, SingleWriter
<1>4. ~ Pruning(p)'
  <2> SUFFICES ASSUME NEW u \in Workers, pc'[u] = "prune", Path(u)' = p
               PROVE  FALSE
    BY DEF Pruning
  <2>1. u # w
    OBVIOUS
  <2>2. Untouched(u)
    BY <2>1
  <2> QED
    BY <1>3, <2>1, <2>2 DEF Untouched, Path
<1> QED
  BY <1>1, <1>2, <1>4, MaxVerAssumption DEF Pruning, VersionNumbers

LEMMA PruneExact ==
    ASSUME SingleWriter, SInv, NEW w \in Workers, Prune(w), NEW p \in Paths, Exact(p)
    PROVE  Exact(p)'
<1>t. TypeInv
  BY DEF SInv, IInv
<1>1. /\ pc[w] = "prune" /\ pc'[w] = "idle" /\ meta' = meta /\ leaked' = leaked
      /\ ver' = [ver EXCEPT ![Path(w)][PruneTarget(cv[w])] = NoValue]
  BY <1>t DEF Prune, Finish, Goto, history, TypeInv, TypeOK, LocalTyped
<1>2. \A u \in Workers \ {w} : Untouched(u)
  BY <1>t, OthersUntouched DEF Step
<1>3. CASE p # Path(w)
  BY <1>t, <1>1, <1>2, <1>3, PruningFrame, ExactFrame DEF TypeInv, TypeOK, StoreTyped
<1>4. CASE p = Path(w)
  <2> DEFINE t == PruneTarget(meta[p].cv)
  <2>1. /\ t \in VersionNumbers /\ meta[p].cv \in Nat /\ cv[w] = meta[p].cv
        /\ Pruning(p) /\ ~ Pruning(p)'
    BY <1>1, <1>2, <1>4, PruneEnds
  <2>2. /\ ver'[p][t] = NoValue
        /\ \A n \in VersionNumbers : n # t => ver'[p][n] = ver[p][n]
    BY <1>t, <1>1, <1>4, <2>1 DEF TypeInv, TypeOK, StoreTyped
  <2>3. t \notin Retained(meta[p].cv) /\ t \notin leaked[p]
    BY <2>1, WindowAssumption DEF Exact, Retained, PruneTarget
  <2>4. \A n : Accounted(p, n)' <=> n # t /\ Accounted(p, n)
    BY <1>1, <2>1, <2>3 DEF Accounted, Retained, VersionNumbers
  <2> HIDE DEF t
  <2>5. \A n \in VersionNumbers :
           n <= meta[p].cv => (ver'[p][n] # NoValue <=> Accounted(p, n)')
    BY <2>2, <2>4 DEF Exact
  <2>6. \A n \in VersionNumbers : ver'[p][n] # NoValue => n <= meta[p].cv + 1
    BY <2>2 DEF Exact
  <2> QED
    BY <1>1, <2>1, <2>5, <2>6 DEF Exact, PruneTarget, VersionNumbers
<1> QED
  BY <1>3, <1>4

LEMMA WriteFailsExact ==
    ASSUME SingleWriter, SInv, NEW w \in Workers, WriteFails(w), NEW p \in Paths, Exact(p)
    PROVE  Exact(p)'
<1>t. TypeInv
  BY DEF SInv, IInv
<1>1. /\ pc'[w] = "idle" /\ meta' = meta /\ ver' = ver
      /\ \/ pc[w] # "prune" /\ leaked' = leaked
         \/ /\ pc[w] = "prune"
            /\ leaked' = [leaked EXCEPT ![Path(w)] = @ \cup {PruneTarget(cv[w])}]
  BY <1>t DEF WriteFails, Finish, Goto, store, TypeInv, TypeOK, LocalTyped
<1>2. \A u \in Workers \ {w} : Untouched(u)
  BY <1>t, OthersUntouched
<1>3. CASE pc[w] # "prune" \/ p # Path(w)
  <2>1. leaked'[p] = leaked[p]
    BY <1>t, <1>1, <1>3 DEF TypeInv, TypeOK, HistoryTyped
  <2> QED
    BY <1>1, <1>2, <1>3, <2>1, PruningFrame, ExactFrame
<1>4. CASE pc[w] = "prune" /\ p = Path(w)
  <2> DEFINE t == PruneTarget(meta[p].cv)
  <2>1. t \in VersionNumbers /\ cv[w] = meta[p].cv /\ Pruning(p) /\ ~ Pruning(p)'
    BY <1>1, <1>2, <1>4, PruneEnds
  <2>2. leaked'[p] = leaked[p] \cup {t}
    BY <1>t, <1>1, <1>4, <2>1 DEF TypeInv, TypeOK, HistoryTyped
  <2>3. \A n : Accounted(p, n)' <=> Accounted(p, n)
    BY <1>1, <2>1, <2>2 DEF Accounted, Retained, VersionNumbers
  <2>4. t <= PruneTarget(meta[p].cv)
    BY <2>1 DEF VersionNumbers
  <2> QED
    BY <1>1, <2>1, <2>2, <2>3, <2>4 DEF Exact, PruneTarget, VersionNumbers
<1> QED
  BY <1>3, <1>4

LEMMA CrashExact ==
    ASSUME SingleWriter, SInv, Crash, NEW p \in Paths, Exact(p)
    PROVE  Exact(p)'
<1>t. TypeInv
  BY DEF SInv, IInv
<1> DEFINE t == PruneTarget(meta[p].cv)
<1>1. meta' = meta /\ ver' = ver /\ ~ Pruning(p)'
  BY DEF Crash, store, Pruning
<1>2. \A w \in Workers : pc[w] = "prune" /\ Path(w) = p =>
          PruneTarget(cv[w]) = t /\ t \in VersionNumbers
  <2> SUFFICES ASSUME NEW w \in Workers, pc[w] = "prune", Path(w) = p
               PROVE  PruneTarget(cv[w]) = t /\ t \in VersionNumbers
    OBVIOUS
  <2>1. cv[w] = meta[p].cv /\ cv[w] \in VersionNumbers /\ cv[w] > Window
    BY <1>t DEF SInv, WriterOK, TypeInv, LocalOK
  <2> QED
    BY <2>1, WindowAssumption, MaxVerAssumption DEF PruneTarget, VersionNumbers
<1>3. leaked'[p] = leaked[p] \cup {PruneTarget(cv[w]) : w \in {u \in Workers :
                                              pc[u] = "prune" /\ Path(u) = p}}
  BY DEF Crash
<1> HIDE DEF t
<1>4. \A n : n \in leaked'[p] <=> n \in leaked[p] \/ (Pruning(p) /\ n = t)
  BY <1>2, <1>3 DEF Pruning
<1>5. \A n : Accounted(p, n)' <=> Accounted(p, n)
  BY <1>1, <1>4 DEF Accounted, Retained, VersionNumbers, t
<1>6. Pruning(p) => t \in VersionNumbers
  BY <1>2 DEF Pruning
<1>7. \A n \in leaked'[p] : n \in VersionNumbers /\ n <= t
  BY <1>4, <1>6 DEF Exact, t, VersionNumbers
<1> QED
  BY <1>1, <1>5, <1>7 DEF Exact, t, PruneTarget, VersionNumbers

(* The other steps touch neither the versions nor a prune.                 *)
LEMMA CalmExact ==
    ASSUME SInv, NEW w \in Workers,
           \/ \E r \in Requests : Start(w, r)
           \/ ReadFails(w)
           \/ Step(w) /\ ~ WriteVersion(w) /\ ~ WriteMeta(w) /\ ~ Prune(w),
           NEW p \in Paths, Exact(p)
    PROVE  Exact(p)'
<1>t. TypeInv
  BY DEF SInv, IInv
<1>1. pc[w] # "prune" /\ ver' = ver /\ leaked' = leaked
  BY <1>t DEF Step, Start, ReadFails, GetMeta, GetVersion, SetMeta, DeleteMeta,
     WriteDeleted, ListMeta, ListVersion, ListDone, history, store
<1>2. pc'[w] # "prune"
  BY <1>t, <1>1, StartLabel
     DEF Step, Start, ReadFails, GetMeta, GetVersion, SetMeta, DeleteMeta, WriteDeleted,
         ListMeta, ListVersion, ListDone, Answer, Finish, Goto, TypeInv, TypeOK, LocalTyped
<1>3. \A u \in Workers \ {w} : Untouched(u)
  <2>1. CASE \E r \in Requests : Start(w, r)
    BY <1>t, <2>1 DEF Start, Goto, Untouched, TypeInv, TypeOK, LocalTyped
  <2> QED
    BY <1>t, <2>1, OthersUntouched
<1>4. meta'[p].cv = meta[p].cv
  <2>1. CASE UNCHANGED meta
    BY <2>1
  <2>2. CASE WriteDeleted(w)
    BY <1>t, <2>2 DEF WriteDeleted, DeletedRecord, SInv, WriterOK, TypeInv, TypeOK, StoreTyped
  <2> QED
    BY <2>1, <2>2 DEF Step, Start, ReadFails, GetMeta, GetVersion, SetMeta, DeleteMeta,
       ListMeta, ListVersion, ListDone, store
<1> QED
  BY <1>1, <1>2, <1>3, <1>4, PruningFrame, ExactFrame

LEMMA ExactStep ==
    ASSUME SingleWriter, SInv, [Next]_vars, NEW p \in Paths, Exact(p)
    PROVE  Exact(p)'
<1>1. CASE UNCHANGED vars
  <2>1. Pruning(p)' <=> Pruning(p)
    BY <1>1 DEF Pruning, Path, vars, local
  <2> QED
    BY <1>1, <2>1, ExactFrame DEF vars, store, history
<1> QED
  BY <1>1, WriteVersionExact, WriteMetaExact, PruneExact, WriteFailsExact, CrashExact,
     CalmExact DEF Next

(* With one writer per path, nothing but the window and what an ignored or *)
(* interrupted prune left behind is ever stored between requests.          *)
THEOREM RetentionIsExact ==
    ASSUME SingleWriter
    PROVE  Spec => []RetentionExact
<1> DEFINE AllExact == \A p \in Paths : Exact(p)
<1>1. Init => AllExact
  BY DEF Init, Exact, VersionNumbers
<1>2. AllExact /\ SInv /\ [Next]_vars => AllExact'
  BY ExactStep
<1>3. Spec => []SInv
  BY WriterInductive
<1>4. AllExact /\ SInv => RetentionExact
  <2> SUFFICES ASSUME AllExact, SInv, NEW p \in Paths,
                      \A w \in Workers : pc[w] # "idle" => Path(w) # p
               PROVE  /\ {n \in Stored(p) : n <= meta[p].cv} =
                           Retained(meta[p].cv) \cup leaked[p]
                      /\ \A n \in Stored(p) : n <= meta[p].cv + 1
    BY DEF RetentionExact
  <2>1. ~ Pruning(p)
    BY DEF Pruning
  <2>2. meta[p].cv \in Nat
    BY MaxVerAssumption DEF SInv, IInv, TypeInv, TypeOK, StoreTyped
  <2>3. \A n \in leaked[p] : n \in VersionNumbers /\ n <= meta[p].cv
    BY <2>2, WindowAssumption DEF Exact, PruneTarget, VersionNumbers
  <2>4. \A n : n \in VersionNumbers /\ n <= meta[p].cv /\ ver[p][n] # NoValue
               <=> n \in Retained(meta[p].cv) \cup leaked[p]
    BY <2>1, <2>3 DEF Exact, Accounted, Retained
  <2> QED
    BY <2>4 DEF Exact, Stored
<1> QED
  BY <1>1, <1>2, <1>3, <1>4, PTL DEF Spec

(***************************************************************************)
(* KVStore implements KVAbstract.  Writing the metadata is the step that   *)
(* appends a version or deletes the secret, the prune prunes, and every    *)
(* other step changes nothing the abstract log shows.                      *)
(***************************************************************************)
current == [p \in Paths |-> meta[p].cv]
hidden == [p \in Paths |-> meta[p].deleted]
log == [p \in Paths |-> Committed(p)]

LEMMA AppendImplemented ==
    ASSUME SInv, NEW w \in Workers, WriteMeta(w)
    PROVE  Abstract!Next
<1>p. PICK p \in Paths : p = Path(w)
  BY PathTyped DEF WriteMeta, SInv, IInv
<1>v. PICK v \in Values : v = req[w].val
  BY DEF WriteMeta, SInv, IInv, TypeInv, LocalOK
<1>1. /\ pc[w] = "writeMeta" /\ ver' = ver
      /\ meta' = [meta EXCEPT ![p] = [cv |-> cv[w], deleted |-> FALSE]]
  BY <1>p DEF WriteMeta
<1>2. /\ p \in Paths /\ meta[p].cv \in 0..MaxVer /\ cv[w] \in VersionNumbers
      /\ cv[w] = meta[p].cv + 1 /\ ver[p][cv[w]] = v
  BY <1>p, <1>v, <1>1, PathTyped DEF SInv, IInv, WriterOK, TypeInv, LocalOK
<1>3. current[p] = meta[p].cv /\ current[p] < MaxVer
  BY <1>2, MaxVerAssumption DEF current, VersionNumbers
<1>4. current' = [current EXCEPT ![p] = @ + 1]
  BY <1>1, <1>2 DEF current, SInv, IInv, TypeInv, TypeOK, StoreTyped
<1>5. hidden' = [hidden EXCEPT ![p] = FALSE]
  BY <1>1, <1>2 DEF hidden, SInv, IInv, TypeInv, TypeOK, StoreTyped
<1>6. \A q \in Paths \ {p} : Committed(q)' = Committed(q)
  BY <1>1 DEF Committed, SInv, IInv, TypeInv, TypeOK, StoreTyped, VersionNumbers
<1>7. Committed(p)' = [Committed(p) EXCEPT ![meta[p].cv + 1] = v]
  <2>1. Committed(p)' = [n \in VersionNumbers |-> IF n <= cv[w] THEN ver[p][n]
                                                                ELSE NoValue]
    BY <1>1, <1>2 DEF Committed, SInv, IInv, TypeInv, TypeOK, StoreTyped, VersionNumbers
  <2>2. \A n \in VersionNumbers : n <= cv[w] <=> n <= meta[p].cv \/ n = cv[w]
    BY <1>2, MaxVerAssumption DEF VersionNumbers
  <2>3. meta[p].cv + 1 \in VersionNumbers /\ ~ (cv[w] <= meta[p].cv)
    BY <1>2
  <2> QED
    BY <1>2, <2>1, <2>2, <2>3 DEF Committed
<1>8. log' = [log EXCEPT ![p][current[p] + 1] = v]
  BY <1>2, <1>3, <1>6, <1>7 DEF log
<1> QED
  <2>1. Abstract!Append(p, v)
    BY <1>3, <1>4, <1>5, <1>8 DEF Abstract!Append, current, hidden, log
  <2> QED
    BY <2>1 DEF Abstract!Next

LEMMA PruneImplemented ==
    ASSUME SInv, NEW w \in Workers, Prune(w)
    PROVE  Abstract!Next
<1>p. PICK p \in Paths : p = Path(w)
  BY PathTyped DEF Prune, SInv, IInv
<1>n. PICK n \in Int : n = PruneTarget(cv[w])
  BY WindowAssumption DEF PruneTarget, SInv, IInv, TypeInv, TypeOK, LocalTyped
<1>1. /\ pc[w] = "prune" /\ meta' = meta
      /\ ver' = [ver EXCEPT ![p][n] = NoValue]
  BY <1>p, <1>n DEF Prune
<1>2. /\ p \in Paths /\ meta[p].cv \in 0..MaxVer /\ cv[w] = meta[p].cv
      /\ cv[w] > Window
  BY <1>p, <1>1, PathTyped DEF SInv, IInv, WriterOK, TypeInv, LocalOK
<1>3. n \in 1..(meta[p].cv - Window) /\ n \in VersionNumbers /\ n <= meta[p].cv
  BY <1>n, <1>2, WindowAssumption, MaxVerAssumption DEF PruneTarget, VersionNumbers
<1>4. current' = current /\ hidden' = hidden /\ current[p] = meta[p].cv
  BY <1>1, <1>2 DEF current, hidden
<1>5. \A q \in Paths \ {p} : Committed(q)' = Committed(q)
  BY <1>1 DEF Committed, SInv, IInv, TypeInv, TypeOK, StoreTyped, VersionNumbers
<1>6. Committed(p)' = [Committed(p) EXCEPT ![n] = NoValue]
  BY <1>1, <1>2, <1>3
     DEF Committed, SInv, IInv, TypeInv, TypeOK, StoreTyped, VersionNumbers
<1>7. log' = [log EXCEPT ![p][n] = NoValue]
  BY <1>2, <1>5, <1>6 DEF log
<1> QED
  <2>1. Abstract!Prune(p, n)
    BY <1>3, <1>4, <1>7 DEF Abstract!Prune, current, hidden, log
  <2> QED
    BY <1>3, <2>1 DEF Abstract!Next, VersionNumbers

LEMMA SoftDeleteImplemented ==
    ASSUME SInv, NEW w \in Workers, WriteDeleted(w)
    PROVE  Abstract!Next
<1>p. PICK p \in Paths : p = Path(w)
  BY PathTyped DEF WriteDeleted, SInv, IInv
<1>1. /\ pc[w] = "writeDeleted" /\ ver' = ver
      /\ meta' = [meta EXCEPT ![p] = DeletedRecord(cv[w])]
  BY <1>p DEF WriteDeleted
<1>2. p \in Paths /\ cv[w] \in VersionNumbers /\ cv[w] = meta[p].cv
  BY <1>p, <1>1, PathTyped DEF SInv, IInv, WriterOK, TypeInv, LocalOK
<1>3. current' = current /\ current[p] > 0
  BY <1>1, <1>2, MaxVerAssumption
     DEF current, DeletedRecord, SInv, IInv, TypeInv, TypeOK, StoreTyped, VersionNumbers
<1>4. hidden' = [hidden EXCEPT ![p] = TRUE]
  BY <1>1, <1>2 DEF hidden, DeletedRecord, SInv, IInv, TypeInv, TypeOK, StoreTyped
<1>5. log' = log
  BY <1>1, <1>2
     DEF log, Committed, DeletedRecord, SInv, IInv, TypeInv, TypeOK, StoreTyped,
         VersionNumbers
<1> QED
  <2>1. Abstract!SoftDelete(p)
    BY <1>3, <1>4, <1>5 DEF Abstract!SoftDelete, current, hidden, log
  <2> QED
    BY <2>1 DEF Abstract!Next

(* The record a set writes before its metadata is not part of the log.     *)
LEMMA WriteVersionHidden ==
    ASSUME SInv, NEW w \in Workers, WriteVersion(w)
    PROVE  UNCHANGED <<current, hidden, log>>
<1>1. /\ pc[w] = "writeVersion" /\ meta' = meta
      /\ ver' = [ver EXCEPT ![Path(w)][cv[w]] = req[w].val]
  BY DEF WriteVersion
<1>2. cv[w] = meta[Path(w)].cv + 1 /\ meta[Path(w)].cv \in Int
  BY <1>1, PathTyped DEF SInv, IInv, WriterOK
<1>3. ~ (cv[w] <= meta[Path(w)].cv)
  BY <1>2
<1>4. \A p \in Paths : Committed(p)' = Committed(p)
  BY <1>1, <1>3 DEF Committed, SInv, IInv, TypeInv, TypeOK, StoreTyped, VersionNumbers
<1> QED
  BY <1>1, <1>4 DEF current, hidden, log

LEMMA StepImplemented ==
    SingleWriter /\ SInv /\ [Next]_vars => [Abstract!Next]_(Abstract!vars)
<1> SUFFICES ASSUME SInv, [Next]_vars PROVE Abstract!Next \/ UNCHANGED <<current, hidden, log>>
  BY DEF Abstract!vars, current, hidden, log
<1>1. CASE UNCHANGED store
  BY <1>1 DEF store, current, hidden, log, Committed, VersionNumbers
<1>2. ASSUME NEW w \in Workers, WriteVersion(w)
      PROVE  UNCHANGED <<current, hidden, log>>
  BY <1>2, WriteVersionHidden
<1>3. ASSUME NEW w \in Workers, WriteMeta(w) \/ Prune(w) \/ WriteDeleted(w)
      PROVE  Abstract!Next
  BY <1>3, AppendImplemented, PruneImplemented, SoftDeleteImplemented
<1> QED
  BY <1>1, <1>2, <1>3
     DEF Next, Step, Start, GetMeta, GetVersion, SetMeta, DeleteMeta, ListMeta,
         ListVersion, ListDone, ReadFails, WriteFails, Crash, vars

LEMMA InitImplemented == Init => Abstract!Init
BY MaxVerAssumption DEF Init, Abstract!Init, Committed, VersionNumbers

(* With one writer per path the store implements the abstract log: every   *)
(* step is an append, a prune, a deletion or invisible.                    *)
THEOREM Refinement ==
    ASSUME SingleWriter
    PROVE  Spec => AbstractSpec
<1>1. SInv /\ [Next]_vars => [Abstract!Next]_(Abstract!vars)
  BY StepImplemented
<1>2. Spec => []SInv
  BY WriterInductive
<1> QED
  BY <1>1, <1>2, InitImplemented, PTL DEF Spec, AbstractSpec, Abstract!Spec
=============================================================================
