------------------------------- MODULE Audit -------------------------------
(***************************************************************************)
(* The audit log: internal/audit/audit.go.                                 *)
(*                                                                         *)
(* A request that has been handled is logged by the goroutine that served  *)
(* it.  Log draws an id, stores the entry under a key that ends in that id *)
(* and then appends a line to a file; it is called by many goroutines at   *)
(* once and only the append is under a mutex.  A query reads all entries   *)
(* of the store into a Go map and walks it.                                *)
(*                                                                         *)
(* Each action here is one step of one call of Log.  The process it runs   *)
(* in, and with it the store and the file being open, is module Server.    *)
(***************************************************************************)
EXTENDS Integers, FiniteSets, Sequences, SequencesExt

CONSTANTS
    MaxRequests,  \* bound on the requests ever received
    NoEntry       \* no entry

ASSUME RequestsAssumption == MaxRequests \in Nat

(* A request is known by its number, and so are the goroutine that serves  *)
(* it and, as long as no other goroutine draws at the same time, the key   *)
(* its entry is stored under.                                              *)
Requests == 1..MaxRequests
Operations == {"write", "login", "query"}
Entries == [request : Requests, op : Operations, status : {"allowed", "denied", "error"}]

ASSUME NoEntryAssumption == NoEntry \notin Entries

VARIABLES
    trail,    \* trail[k]: the entry stored under key k, or NoEntry
    lines,    \* the entries in the file
    logOpen,  \* the file is open
    step,     \* step[r]: the step of Log that r's goroutine is about to take
    entry,    \* entry[r]: the entry it logs
    key,      \* key[r]: the key it has drawn
    rivals,   \* rivals[r]: requests whose goroutines drew while it was drawing
    (* History, read by properties only. *)
    written,  \* entries that have been stored
    dropped,  \* requests whose entry could not be stored, or not under a key of its own
    cut       \* stored entries whose line could not be written

destinations == <<trail, lines>>
calls == <<step, entry, key, rivals>>
logHistory == <<written, dropped, cut>>
auditVars == <<destinations, logOpen, calls, logHistory>>

Stored == {trail[k] : k \in {j \in Requests : trail[j] # NoEntry}}

(* The stored entries whose line is about to be written.                   *)
Pending == {entry[r] : r \in {x \in Requests : step[x] = "append"}}

AuditTypeOK ==
    /\ trail \in [Requests -> Entries \cup {NoEntry}]
    /\ lines \subseteq Entries
    /\ logOpen \in BOOLEAN
    /\ step \in [Requests -> {"none", "draw", "set", "append"}]
    /\ entry \in [Requests -> Entries \cup {NoEntry}]
    /\ key \in [Requests -> Requests \cup {0}]
    /\ rivals \in [Requests -> SUBSET Requests]
    /\ written \subseteq Entries
    /\ dropped \subseteq Requests
    /\ cut \subseteq Entries
    /\ \A r \in Requests :
         /\ step[r] # "none" => entry[r] \in Entries /\ entry[r].request = r
         /\ step[r] \in {"set", "append"} => key[r] \in Requests

(* A log that holds the entries of earlier requests.                       *)
AuditInit(earlier) ==
    /\ trail = [k \in Requests |->
                  IF \E e \in earlier : e.request = k
                  THEN CHOOSE e \in earlier : e.request = k
                  ELSE NoEntry]
    /\ lines = earlier
    /\ logOpen = FALSE
    /\ step = [r \in Requests |-> "none"]
    /\ entry = [r \in Requests |-> NoEntry]
    /\ key = [r \in Requests |-> 0]
    /\ rivals = [r \in Requests |-> {}]
    /\ written = earlier
    /\ dropped = {}
    /\ cut = {}

(* The call of Log returns.                                                *)
Returns(r) ==
    /\ step' = [step EXCEPT ![r] = "none"]
    /\ entry' = [entry EXCEPT ![r] = NoEntry]
    /\ key' = [key EXCEPT ![r] = 0]
    /\ rivals' = [rivals EXCEPT ![r] = {}]

(* The process is gone, and with it the calls in flight.                   *)
CallsLost ==
    /\ step' = [r \in Requests |-> "none"]
    /\ entry' = [r \in Requests |-> NoEntry]
    /\ key' = [r \in Requests |-> 0]
    /\ rivals' = [r \in Requests |-> {}]
    /\ cut' = cut \cup Pending
    /\ logOpen' = FALSE
    /\ UNCHANGED <<destinations, written, dropped>>

(***************************************************************************)
(* Log: draw an id.  The source of random numbers is shared and not        *)
(* locked, so two draws that overlap race: each may give its own id or the *)
(* id of the other, or panic.                                              *)
(***************************************************************************)
BeginLog(r, e) ==
    LET drawing == {x \in Requests : step[x] = "draw"}
    IN  /\ step' = [step EXCEPT ![r] = "draw"]
        /\ entry' = [entry EXCEPT ![r] = e]
        /\ rivals' = [x \in Requests |->
              CASE x = r -> drawing
                [] x \in drawing -> rivals[x] \cup {r}
                [] OTHER -> rivals[x]]
        /\ UNCHANGED <<destinations, logOpen, key, logHistory>>

(* Mutant: the key is the day of the entry, without its id (audit.go:72).  *)
OwnKey_Day(r) == 1
OwnKey(r) == r

Draw(r) ==
    /\ step[r] = "draw"
    /\ step' = [step EXCEPT ![r] = "set"]
    /\ \E k \in {OwnKey(r)} \cup {OwnKey(x) : x \in rivals[r]} :
          /\ key' = [key EXCEPT ![r] = k]
          /\ dropped' = IF k = OwnKey(r) THEN dropped ELSE dropped \cup {r, k}
    /\ rivals' = [rivals EXCEPT ![r] = {}]
    /\ UNCHANGED <<destinations, logOpen, entry, written, cut>>

(* The panic ends the request: net/http recovers and drops the connection. *)
DrawPanics(r) ==
    /\ step[r] = "draw"
    /\ rivals[r] # {}
    /\ Returns(r)
    /\ UNCHANGED <<destinations, logOpen, logHistory>>

(***************************************************************************)
(* Log: store the entry, then append its line.  A failure ends the call;   *)
(* no caller looks at the error.                                           *)
(***************************************************************************)
StoreEntry(r) ==
    /\ step[r] = "set"
    /\ trail' = [trail EXCEPT ![key[r]] = entry[r]]
    /\ written' = written \cup {entry[r]}
    /\ step' = [step EXCEPT ![r] = "append"]
    /\ UNCHANGED <<lines, logOpen, entry, key, rivals, dropped, cut>>

StoreEntryFails(r) ==
    /\ step[r] = "set"
    /\ dropped' = dropped \cup {r}
    /\ Returns(r)
    /\ UNCHANGED <<destinations, logOpen, written, cut>>

AppendLine(r) ==
    /\ step[r] = "append"
    /\ logOpen
    /\ lines' = lines \cup {entry[r]}
    /\ Returns(r)
    /\ UNCHANGED <<trail, logOpen, logHistory>>

AppendLineFails(r) ==
    /\ step[r] = "append"
    /\ cut' = cut \cup {entry[r]}
    /\ Returns(r)
    /\ UNCHANGED <<destinations, logOpen, written, dropped>>

(***************************************************************************)
(* NewLogger and Close.  Mutant: the file is truncated when it is opened   *)
(* (os.O_TRUNC for os.O_APPEND, audit.go:40).                              *)
(***************************************************************************)
Opened_Truncated == {}
Opened == lines

OpenLog ==
    /\ logOpen' = TRUE
    /\ lines' = Opened
    /\ UNCHANGED <<trail, calls, logHistory>>

CloseLog ==
    /\ logOpen' = FALSE
    /\ UNCHANGED <<destinations, calls, logHistory>>

(***************************************************************************)
(* Query.  Its filters (caller, path, earliest time) have one form: an     *)
(* entry is skipped unless it has the value asked for.  One filter, on the *)
(* operation, stands for the three.  A limit of 0 is no limit.             *)
(***************************************************************************)
AnyOperation == "any"
QueryOptions == [op : Operations \cup {AnyOperation}, limit : {0, 1}]

Matches(e, q) == q.op = AnyOperation \/ e.op = q.op

Full(found, q) == q.limit > 0 /\ Cardinality(found) >= q.limit

(* Mutant: the limit is applied before the filters.                        *)
Walk_LimitFirst(order, q) ==
    LET n == IF q.limit > 0 /\ q.limit < Len(order) THEN q.limit ELSE Len(order)
    IN  {order[i] : i \in {j \in 1..n : Matches(order[j], q)}}

Walk(order, q) ==
    LET walk[n \in 0..Len(order)] ==
          IF n = 0 THEN {}
          ELSE IF Matches(order[n], q) /\ ~ Full(walk[n - 1], q)
               THEN walk[n - 1] \cup {order[n]}
               ELSE walk[n - 1]
    IN  walk[Len(order)]

(* What the query may answer: the walk over the map in any order.          *)
Results(q) == {Walk(order, q) : order \in SetToSeqs(Stored)}
=============================================================================
