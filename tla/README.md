# Lockr, specified in TLA+

Lockr is a single-binary secrets server in Go: an HTTPS API over an embedded
BadgerDB, with versioned key-value secrets, transit encryption keys, three kinds
of caller (services, users, administrators), file-based policies and an audit
log. This directory models the parts that keep state and serve requests
concurrently, checks them with TLC, and proves the most important results for
every value of the constants with TLAPS.

One fact shapes the whole project. **Every request runs in its own goroutine and
reaches the store through `db.Get`, `db.Set` and `db.Delete`, each of which is
one Badger transaction; no lock and no transaction spans two of them.** So a
handler that reads, decides and writes is several atomic steps, and the models
make each store call one action.

## 1. Inventory

| Component | Source | State it keeps | Operations |
|---|---|---|---|
| KV store and handlers | `internal/secrets/kv.go`, `internal/api/kv_handlers.go` | per path a metadata record (current version, deleted flag) and one record per retained version (10 of them) | get, set, soft delete, rollback, list versions, list directory |
| Transit keys | `internal/secrets/transit.go`, `internal/api/transit_handlers.go` | per name one record with all versions of the key and the current number | create, rotate, encrypt, decrypt, info |
| User accounts | `internal/auth/user.go`, `internal/api/user_handlers.go` | per name one record: Argon2id hash, policy, disabled flag | create, list, delete, change password, change policy, verify |
| Service challenge-response | `internal/auth/ed25519.go`, `internal/api/auth_handlers.go` | per service one record with its public key; in memory, under a mutex, the pending challenges | enrol, revoke, challenge, verify, prune |
| Sessions | `internal/auth/session.go` | per token one record with its expiry and a time to live of the store | issue, validate, revoke |
| Policy engine | `internal/policy/policy.go`, reload in `sys_handlers.go` and `server.go` | in memory, under an RWMutex, the map of policies read from a directory | load all, decide |
| Admin tokens | `internal/auth/admin.go`, `main.go` (init) | per administrator one record with the Argon2id hash of one token | create, verify (list, then read one by one), delete, "is there one" |
| TOTP | `internal/auth/totp.go` | per service one record with its secret, beside the one with its public key | enrol, verify, revoke |
| Middleware, router | `internal/api/middleware.go`, `router.go` | none of its own; the caller in the request's context | token, admin and policy checks; an audit entry once the handler is done; a short answer leaves after it, a long one before |
| Audit log | `internal/audit/audit.go` | one record per entry, and a file | log, query |
| Storage, encryption at rest | `internal/storage/badger.go`, `crypto.go` | Badger; secrets and keys encrypted under a master key, which the stores share in memory and which a file keeps, itself encrypted | get, set, set with time to live, delete, list, scan; generate, save, load, zero the key |
| Server | `internal/server/server.go` | start-up order, what Run has deferred, SIGTERM and SIGHUP | start, serve, stop within ten seconds |
| Command line | `cmd/lockr` | none; init writes key file, certificates, first administrator | init, serve, and one process per client command |
| Client | `pkg/client/client.go` | the token it sends | authenticate, get, set, delete, encrypt, decrypt; 15 seconds for each answer |
| Configuration, answers | `internal/config`, `internal/api/response.go` | constants read once; none | |

**How they interact.** The router authenticates a request (a session token is
validated through *Sessions*; an admin token through *Admin tokens*), asks the
*policy engine* whether the caller's policy allows the capability on the path,
and calls one operation of one store. Logins verify a user, a signed challenge or
a code, and then issue a session that carries the policy's name as it was read.
All stores share one Badger database under disjoint key prefixes. The policy
reload runs from a handler or from the goroutine that waits for SIGHUP. When a handler
is done, the middleware (for a login, the handler itself) stores an audit entry and
appends it to the file. A short answer waits in the buffers of `net/http` and leaves after
that; one that outgrows them, the answer to an audit query without a limit for example,
leaves while the handler writes it, before the request is logged. Stopping the server
waits for the requests in flight, ten seconds at most, and then takes the log, the key
and the store away from whoever is left. A client that gives up does not stop its
request: no handler looks at the request's context.

**What is hard.** Read-then-write windows in every mutating handler; records that
have to change together and are written one after the other (KV version,
metadata, prune); store errors that some callers take for "not found" (`Create`
of users and of transit keys), others answer as a denial (the token check, the logins of
services) and others drop (a prune, a logout's delete); a
restart in any of these windows; an in-memory map of challenges that dies with
the process and is pruned by goroutines with old readings of the clock; two
clocks that decide when a session ends, one of them in whole seconds; answers that leave
before they are logged; one-time codes at the edge of their step;
reloads that overlap edits and each other; audit ids drawn from one unlocked source;
requests that outlive `Run`; an `init` beside a running server; calls that a client
has given up. PROJECT.json lists these at their lines as `hazards`.

**What makes each component correct.**

- KV: a version once committed keeps its value until the prune removes it; the
  newest window is always stored; a read sees at least what was committed when it
  arrived; what is stored beyond the window is accounted for; old versions go.
- Transit: nothing that was ever encrypted becomes undecryptable; an acknowledged
  rotation stays in force; a key record is never left without its current version.
- Users: the account is what acknowledged changes made of it; a login is granted
  only against an account that was in force while it ran; a create replaces nothing.
- Services: a challenge buys at most one session; grants and denials are both
  justified by what was enrolled and by the clock; expired challenges go.
- Sessions: no dead session is served; a live one is denied only in its last second or
  when the store cannot be read.
- Policy: a deny wins wherever it stands; after a clean reload exactly the files
  are in force.
- Admin tokens: the scan lets in nobody whose token is out of force and misses no
  token in force; the bootstrap without a token is the first administrator's only.
- TOTP: a code is accepted within one step of the clock and refused only outside
  it; a login is granted or denied by a secret that was, or was not, in force.
- Audit: an answered request has, or is about to have, exactly one entry, with its outcome;
  the file follows the store; a query shows what matches and hides nothing but by its limit.
- Server: whatever was stored stays readable; a server told to stop stops.
- Client: a call that is served was permitted; a value that is read was there; a
  client loses its token only to a refused login.

## 2. Modules

| Module | Models | State and actions against the code |
|---|---|---|
| `KVStore` | `kv.go` | `meta`, `ver`: the records. `pc[w]` names the store call goroutine `w` makes next; `req`, `cv`, `todo`, `found` are its locals. `GetMeta`/`GetVersion` are Get (and the Get inside Rollback); `SetMeta`, `WriteVersion`, `WriteMeta`, `Prune` are Set; `DeleteMeta`, `WriteDeleted` are Delete; `ListMeta`, `ListVersion`, `ListDone` are Versions. |
| `KVAbstract` | what a client is promised about a path | an append-only log, a mark that hides it, a prune outside the window |
| `KVStoreProofs` | | proofs about `KVStore`, and the refinement of `KVAbstract` |
| `Transit` | `transit.go` | `record`: current number and versions; `acked`: the greatest version any answer has acknowledged. Create and rotate are a load and a save (`LoadForCreate`, `SaveNew`, `LoadForRotate`, `SaveRotated`); encrypt and decrypt load once and are one step. Keys are numbers never drawn before. |
| `TransitAbstract` | what transit keys promise | a ring of keys that grows by one with each rotation, and ciphertexts made with its newest key; loose rings may lose versions |
| `TransitProofs` | | proofs about `Transit`, and the refinement of `TransitAbstract` |
| `Users` | `user.go`, `handleUserLogin` | `record`: password and policy. Each request is `Load` and then `Apply` (a change) or `IssueSession` (a login). `Proceeds` is the check after the read, `Changed` what the write makes of the record that was read. |
| `UsersAbstract` | what the accounts promise | each change of an account in one instant, each login on the account of one instant; loose accounts may become anything |
| `UsersProofs` | | proofs about `Users`, and the refinement of `UsersAbstract` |
| `ServiceAuth` | `ed25519.go`, `totp.go`, their handlers | `service`, `totp`: the two records of each service; `info`, `pending`: the map of challenges; `spawned`, `stamps`: pruning goroutines before and after they read the clock. Verify is `Take` (under the mutex), `LookAtClock`, `GetService`, `Issue` or `Deny`; a TOTP login is `StartTotp`, `GetTotp`, `CompareCodes`, `Issue` or `Deny`. A read of either record that fails goes to `Deny` too (`ReadFails`), a session that cannot be stored ends the login with 500 (`IssueFails`). `Enroll` and `Revoke` write one of the two records. |
| `ServiceAuthProofs` | | proofs about `ServiceAuth` |
| `Sessions` | `session.go`, logout | `expiry` in the record, `dropped` the store's own deadline, a whole second (`DropTime`). Issue is `Stamp`, `StoreSession`; Validate is `GetRecord`, `Check`; a logout goes on to `Revoke`. `ReadFails` is a Get that fails, answered as a denial; `WriteFails` a session that cannot be stored. |
| `SessionsAbstract` | what a session token promises | good from when it is handed out until its time has come or a logout ends it; a request is answered by the last look taken at its token; a look that fails denies and changes nothing else |
| `Admins` | `admin.go`, the token checks of `middleware.go` and `router.go`, admin handlers | `admins`: the records. A request is looked into (`HasAdmins`; `Validate` for a session; `List` and one `ReadAdmin` per record, `ScanDone`) and then handled (`Create`; `GetForDelete`, `Remove`; `IssueSession`). `FirstCall` is the choice authMiddleware makes by the token's prefix. `Init` is what `lockr init` leaves, with or without the first administrator. |
| `AdminsProofs` | | proofs about `Admins` |
| `Policy` | `policy.go`, reload | `files`, `policies`. LoadAll is `BeginReload` (list the directory), one `ReadFile` per file, `Swap`; `Edit` is the operator. `Allowed`, `Decide`, `Verdict`, `Matches` are the decision. |
| `PolicyProofs` | | proofs about `Policy` |
| `Audit` | `audit.go` | `trail`: entries in the store by key; `lines`: those in the file; `step`, `entry`, `key`: where each goroutine is in Log. Log is `BeginLog`, `Draw` (or `DrawPanics`), `StoreEntry`, `AppendLine` and their failures; `OpenLog`, `CloseLog`. Query is `Walk`, over the map in any order, and `Results`. Its actions are steps of `Server`. |
| `Server` (extends `Audit`) | `server.go`, `crypto.go`, init's key file, `auditMiddleware`, `logAuthAttempt` | `phase`: how far Run or its deferred calls have come (`OpenStore`, `LoadMasterKey`, `NewLogger`, `Listen`, `Terminate`, `Drained` or `GivesUp`, `DeferredCloseLog`, `DeferredZeroBytes`, `DeferredCloseStore`, `Exit`; `Crash` at any point). `keyFile`, `masterKey`; `InitTruncates`, `InitWrites`, `InitDies`. A request is `Arrive`, `Refuse` or its work (`LookUp`, `Put`; `Login`; `QueryAudit`), and then `DrawId`, `LogToStore`, `LogToFile`; its answer counts from then on (`Answer`), but that of a query, which stands for every operation with a long answer, may be out before (`HandledEarly`). Overwriting the key is two steps, so that a request may derive keys from a torn one (`Torn`). |
| `ServerProofs` | | proofs about `Server` and `Audit` |
| `Client` | `client.go`, and what a request passes on the server: `authMiddleware`, the handler's policy check, its store call, its answer | `clientToken`, `waits`: the client; `stage`, `req`, `policy`, `answer`: the requests, on the network or in a handler; `live`, `service`, `pending`, `grants`, `secret`: sessions, the client's enrolment, challenges, policies and the store as seen from outside. `Call`, `Authenticate`, `Challenged`, `Verified`, `Return`, `Fail` are the client's; `Validate`, `Decide`, `Serve`, `IssueChallenge`, `Verify` the server's; `Lose` the network's; `End`, `Enroll`, `Reload` what others do. |
| `SessionsClientProofs` | | proofs about `Sessions`, the refinement of `SessionsAbstract`, and proofs about `Client` |
| `MC...` | | constants, symmetry and, for `ServiceAuth`, a bound on the states for TLC |

Conventions. A worker is a goroutine serving requests one after the other.
History variables (marked as such) are read by properties only and never by a
guard. Faults are a constant: `"read"` and `"write"` let a store call fail,
`"crash"` restarts the process (the store stays, memory and requests are gone).
A failed call has no effect on the store. Mutants, named `<Definition>_<Fault>`,
stand before the definition they replace and are used by nothing else.

Abstractions. Secret values, passwords, policies, tokens, keys and challenges are
opaque: a hash verifies under its own password only, a ciphertext opens under
its own key only, a signature verifies under the enrolled key only, random draws
never repeat. Encryption at rest is not visible above the store, except in `Server`,
where the key may change under it. Time is a counter. Paths of a policy are sequences of segments, so `prefix/*` covers the
prefix itself and everything below it, as `matchPath` does. A one-time code is known
by its secret and counter: that two agree by chance is left out. Whether an answer fits
the buffers of `net/http`, and so leaves when the handler and the middleware around it have
returned or earlier, is a choice of the model for queries; the other answers of `Server` are
a few bytes. Requests with malformed bodies and paths that the mux would redirect are left
out.

## 3. Assumptions the properties carry

Several correctness claims of the code hold only when requests on one record do
not overlap; the code has no lock that would ensure it. The modules say so in the
property, so that one run can show both that the condition suffices and what
still holds without it.

- `SingleWriter` (KVStore): each path has at most one worker that writes it; any
  number read.
- `Orderly(k)` (Transit), `Orderly(u)` (Users): changes of `k` come from one worker
  (`Managers[k]`), and no create has taken a failed read for "not there"
  (`misread`). Both creates ignore the kind of error of their load, so after such a
  read an existing record is replaced; the model lets that happen and the
  properties exclude the record from then on.
- `overlapped` (Policy): two reloads have been under way at once.
- `contended` (Admins): a create has been at its write while another one was. The
  check for the first administrator and the write are two transactions, so two
  creates without a token can both pass the check.
- `unstored`, `dropped`, `cut`, `replaced`, `abandoned` (Server, Audit): logins whose
  session could not be stored (they are answered with 500 and not logged); requests
  whose entry the store did not take, or not under a key of its own because two
  draws of an id raced; entries whose line in the file was not written; keys that
  `init` has replaced; requests that were in flight when `Run` returned. Each property
  names the one it needs, and no other way to break it is left.
- `unread` (ServiceAuth, Sessions): the store failed to read the record a request needs.
  The code answers 401, as for a wrong key or a dead session; the properties count that as
  a reason to deny, and do not count the token or the challenge as dead for it.
- `Second` (Sessions): Badger keeps the end of a time to live in whole seconds, so a session
  may be gone up to a second before its stamped expiry. Nothing may end it earlier.
- `Unentered`, `unlogged` (Server): requests answered before they were logged, whose call
  of `Log` is still going on, or was cut short by the end of the process or a panic.
- One goroutine per `Client` (Client): the type has no lock for its token.

The two violation runs drop these conditions and show the disagreement with the
documents (section 6).

## 4. Runs

| Run | What it checks | Bounds, and why they are enough |
|---|---|---|
| `kv_concurrent` | what survives *any* interleaving: the newest window stays stored, a read misses only versions older than it, listings are complete | two workers that both write and read one path, window 2, four versions, failed writes and restarts. Four versions are twice the window: both workers can prune, and a held-up set can meet versions already pruned. `"read"` faults are off because a failed read is one of the reasons a listing may skip a version. Values are not told apart by these properties: one is enough. |
| `kv_single_writer` | freshness, exact retention, immutability, refinement of `KVAbstract`, eventual pruning | one writer, one reader, window 1, three versions, two values, every fault. With window 1 every set from the second on prunes. |
| `kv_lost_update` | violation of `CommittedImmutable` | two writers, no faults |
| `transit` | usable records under every race; no ciphertext lost and no rotation undone for an orderly key; refinement of `TransitAbstract` | key `k1` managed by one worker, `k2` by both, four keys drawn, every fault: three rotations of one key, or a create raced by another and two rotations |
| `users` | the record keeps the acknowledged changes; logins are honest; refinement of `UsersAbstract`, in which a create replaces nothing | one account, its manager and one more worker that logs in, two passwords, two policies, every fault. Accounts never share a record, so one is enough. |
| `users_race` | violation of `DeletedCannotLogIn` | two managers, no faults |
| `service_auth` | one use, justified grants and denials of both methods, a new challenge clears the map of expired ones | one service, enrolled for both methods, two workers, two key pairs or secrets (so one can be replaced), two challenges, one TOTP login in flight, lifetime 1, step 1, clock 0..2, codes of step 0 (in their step at time 0, one step late at 1, out of the window at 2; that the window also opens one step early is left to the proof, which holds for every counter), every fault. With the second challenge drawn the run no longer follows what the other method does (the constraint `SecondChallengeAlone`): the methods share no record and no memory, and each is interleaved with a challenge of the other all along. 1,171,225 states. Two challenges let the second one's pruning goroutine meet the first, expired or not, and overtake the first one's; two verifies of one challenge, a revocation of one method or the other, a replaced key and a failed read all occur. Services share nothing but the map of challenges, in which each challenge is its own key. |
| `sessions` | no dead session served; none denied but in its last second, after a logout or for a failed read; refinement of `SessionsAbstract`: a validation answers as if it had looked once | two tokens, two workers, TTL 2, a second of 2, clock 0..4: a session issued at 0, 1 or 2 outlives both expiries within the bound, one issued at 1 is dropped by the store a tick before its expiry, and one stored later than it was stamped after it; every fault: 541,893 states |
| `admins` | admissions and denials are justified whatever the scan interleaves with; the bootstrap is the first administrator's | two names, three tokens ever drawn, two workers, every fault and lost answers: enough for a token to be replaced or removed on either side of a scan, and for a bootstrap after the last administrator is gone |
| `policy` | decisions agree with the documented rule semantics; a reload puts exactly the files in force | two files, three contents, removed and broken files, two reloading goroutines, six paths in and out of an exception |
| `server` | secrets stay readable, answered requests are logged once, sooner or later, the file follows the store, queries are honest, a server told to stop stops | four requests, two of them served by an earlier process (a login and a write), one path, two master keys, so one `init` beside or between processes; crashes at every step. `"write"` faults are off: a request that outlives `Run` meets a closed store and a closed file and takes the same branches. Two requests in flight are what a race of draws, a stop and a query need. An answer to a query may leave before its entry is made, and a write may meet the key half overwritten. 874,006 states. |
| `client` | calls served were permitted, values read were there, the token is lost to a refused login only | one client, three requests (a login and a call with its token, or three calls with an admin token), a policy that allows everything or only reads, reloaded at will, every fault. Three requests let two that were given up run beside the one the client waits for. 102,512 states. |

`sessions` sets `CHECK_DEADLOCK FALSE` because tokens and clock run out under the
bounds. Everywhere else TLC checks that the system never stops.

**Fairness.** `KVStore` assumes weak fairness of each worker's next store call: the
Go scheduler runs every goroutine, and a call to Badger returns. It does not
assume that a call succeeds. `Server` assumes weak fairness of `Stop`,
the steps `Run` takes by itself once it has been told to stop, among them that the
context of ten seconds ends; nothing is assumed of the requests it waits for, so
`ShutdownEnds` does not depend on them. The other modules state safety only and
assume no fairness.

`ExpiredPruned` promises exactly what the code gives: the map is pruned when a
*later* challenge is asked for, and is clear of what had expired by then once the
goroutines have run. It is stated as an invariant of the states in which none is under
way, so it needs no fairness. Without another request an expired challenge stays in
memory; that is not an error in the code but a bound on what it promises.

## 5. Proofs

TLAPS checks every theorem below for all constants that satisfy the modules'
`ASSUME`s (any number of workers, paths, names, versions and keys, any window,
every subset of the faults).

**KVStoreProofs.** `TypeInv` (types, and that a request holds a legal version
number at each store call) is inductive. For the concurrent properties
`IInv` adds `StoreSafe`, the newest window is stored and nothing above `hi` is
named by any metadata, and per worker `WorkerSafe`, what the goroutine knows at
its program counter: a set about to write metadata holds a version whose record is
there, unless it is older than the window; a set about to prune has seen its
metadata committed; a read or a listing holds a number that was current. The step
from `NewestWindowStored` to `IInv` is needed because a prune is harmless only if
the set that prunes has raised `hi` first. *Gentle* steps (which keep `hi` and the
newest window) preserve what every other worker knows, and each action is shown to
be gentle and to keep its own worker's knowledge. With `SingleWriter`, `SInv` adds
that what the writer holds is the store's current version, which gives
`CurrentWindowStored`, `CommittedImmutable` and the refinement
`Spec => AbstractSpec`: metadata writes are appends (`WriteMeta`) or soft deletes,
prunes are prunes and every other step stutters. Two more invariants stand on
`SInv`: `ReaderFresh`, the number a read holds is at least the one committed when it
arrived, gives `LatestIsFresh`; `Exact` with `Accounted`, every stored version is in the
window, `leaked`, or in the hands of a request that has yet to commit or to prune
it, gives `RetentionExact`.

**TransitProofs.** `IInv` is `TypeOK`, `Sound` (no number outruns the keys drawn, and
every record, stored or held by a goroutine, has a key for exactly the versions
`1..current`) and `Faithful` (a manager of an orderly key holds the stored record
when it saves; every ciphertext's key is still under its number; the current
version is at least the greatest one ever acknowledged, which a stale save would undo). It gives the invariants of the run and
`VersionsOnlyGrow`. The refinement of `TransitAbstract` maps a record to the sequence of its
keys (`Ring`). Loads are invisible, or loosen a key they misread; the save is the instant at
which a create or a rotation happens, because for an orderly key the record held is the one
stored. For any other key a rotation appends to a ring it has held: that this is a ring of
keys already drawn needs one more invariant, `Owned`. `RingNew` and `RingRotated` turn the
two saves into `Append`.

**UsersProofs.** `IInv` adds to `TypeOK` that changes in flight belong to managers of
the account; that for an orderly account the stored record is the promised one;
that the record a manager holds when it applies a change is the stored one; and
that the promised account, and what a login holds, are among those `witnessed`
since it arrived. It gives `PromiseKept`, `LoginHonest` and `CreateIsFresh`. In the refinement
of `UsersAbstract` a change happens when it is written, and a login passes when it reads the
record. Since `IInv` says that an orderly account still is what its manager read, the write
of a changed copy is a change of the account itself (`ApplyImplemented`); an account that is
not orderly is `Loose`, and any write to it an `Overwrite`.

**SessionsClientProofs, the sessions.** `IInv` adds to `TypeOK` that the store drops a record
less than a second before the expiry in it or later (`Registered`, from `RoundedDown`: a
multiple of a second is less than a second below what it was rounded from), that a token is refused or ended only once no
read will find it good again (`Gone`), that no two logins hold one token (`Distinct`), and
what each request knows at its step: at `store` its token is nobody else's, at `check` or
`revoke` it found a record when it looked (`Caught`), and its answer is justified
(`Justified`). It gives the two invariants of the run.

The refinement of `SessionsAbstract` maps the good tokens to those handed out whose record is
still found and not expired (`Good`), and a request to what it has seen: nothing before the
read of its record, then what the clock makes of the record, or that it could not be read
(`Progress`). Validation reads
the record first and the clock later, so the instant at which it has looked is not a step of
its own: a record found is "good" until its expiry passes, and turns "bad" with the tick
that makes it so. That is why a tick is `Expire` with a second look for the requests at
`check`, and why a logout that deletes the record between another request's read and its
look at the clock leaves that one accepted, as the abstract `Accept` allows. A restart and a
failed write are `Leave`, a failed read is `RefuseUnread`, which leaves the token as it was;
a tick that reaches the end of a time to live is `Expire` as well; `Stamp` and a deletion of an expired record are invisible. From
`Registered` comes that a deletion by a `check` takes nothing from `Good`, and that
`StoreSession` adds its token at most once.

**SessionsClientProofs, the client.** `ClientIInv` is the types and, per request, `Shaped` (it
is whole from its sending until its answer is read, a request past the token check is a
call, and a granted login has a token in its answer) and `Permitted` (the policy in its
context is among those its token has carried since it was sent, and once past the policy
check one of these has allowed it); per client, `Follows` (the request it waits for is its
own, the secret of the moment is in `seen`, and so is the value in an answer that is there)
and `Real` (so is the value it has returned). `Permitted` gives `ServedIsPermitted`: the
policy that `Decide` asks may have lost its session or its service by then, but it was
carried once, and it allows the call now. `Follows` gives `ReadsAreReal`: a handler answers the
client that waits for it in the step that reads the store, and a client that has given up and
called again waits for another number. `Shaped` gives `TokenLostByRefusal`: an answer without
a token to a login is a refusal. Steps that leave a request, or what a client waits for,
alone preserve these by the lemmas `ShapedFrame`, `PermittedFrame` and `FollowsFrame`.

The two components share no state; their proofs stand in one module because they are two
ends of one token's life. `Client` names its initial condition, next-state relation and
specification `ClientInit`, `ClientNext` and `ClientSpec`, so that one module can extend both.

**AdminsProofs.** `IInv` adds to `TypeOK`: `Unique`, a token belongs to one
administrator (tokens are never drawn twice); `Alone`, two creates at their writes
know of each other; and per worker `Informed` (what the request is entitled to now
is among what has been `witnessed`), `Unread` (a scan whose token has been in force
all along, and whose record it did not fail to read, still has that record before
it) and `Justified`. `Unique` is what makes the scan sound: a token cannot move from
a record the scan has not reached to one it has passed. Steps that leave the records
alone are `Quiet` for every other worker; the two writes have one lemma, `StoreKeeps`.

**ServiceAuthProofs.** `IInv` is `TypeOK`, `Placed(c)` (a challenge is pending, spent or
lost, never two of them, and has bought a session only if spent) and `Safe(w)`, what
each worker knows: a key that is in force or not is recorded in `held` and `kept`
(`Watched`); a verify that took its challenge is the only one to hold it
(`VerifyKnows`); a TOTP login past the clock knows whether its code was in the window
at some moment since it arrived (`TotpKnows`, by `StepsGrow`: the step of a later time
is not smaller); and at `Issue` and `Deny` the grant or the denial is justified
(`GrantAt`, `DenialAt`); a denial may also come from a record that could not be read. It
gives the first four properties of the run for every lifetime and step length.
`ExpiredPruned` has an invariant of its own, `PruneInv`: until the map is `Cleared` of what
had expired when the latest challenge was drawn, some goroutine has yet to read the clock,
or holds a reading that is not earlier than that moment.

**PolicyProofs.** The loop of `Allowed` is a recursive function over positions in a list
of rules. That it exists and equals "some rule grants and none denies" is proved by
well-founded induction in its set form (the theorem `Induct`: a set of numbers that
contains each number whose predecessors it contains is all of them), which needs no
operator as a parameter. `DenyOverrides` follows for any list, path and capability.
`FromFiles`, what the files say, is well defined because of the files with a name there
is a last one; `ReloadOK` says that a reload begun after the last edit holds what the
files it has read say (`Follows`), which gives `InForceAfterReload`.

**ServerProofs.** Three invariants. `KeyInv`: the key in memory is the one in the file, a
replaced one, torn or zeros, and one of the last two only once `Run` is over, when every request still served
is `abandoned`; it gives `SecretsReadable`. `FileInv`: what was stored is in the file, about to be, or `cut`; it
gives `FileFollowsStore`. `AnswerInv`: where a request stands in `Log` determines how many
keys hold its entry, and a key is shared only by rivals; one that was answered early has
none until `LogToStore`, and none for ever if its call was cut short (`Unstored`). It gives
`AnsweredIsLogged`.
For `QueriesAreHonest`, `WalkHonest` shows by induction on the length (`Induct` again)
that a walk in an order that reaches every key collects matching entries only, and
all of them unless the limit stops it; that a permutation reaches every key is
where `FiniteSetTheorems` comes in.

**Only model-checked.** `PrunedEventually` and `ShutdownEnds`: liveness
under fairness is beyond this prover. Every other property of the passing runs is a
theorem, and so is type correctness of `Transit`, `Users`, `Policy`, `Admins` and `Sessions`,
which their runs leave to the proof.

## 6. Where the code and its documents disagree

Shown by a run:

- `kv_lost_update`: two concurrent sets of a path take the same version number; the
  second replaces a value the first has acknowledged (`docs/kv-secrets.md`: "History
  is never deleted").
- `users_race`: a policy or password change that overlaps a delete brings the account
  back (`docs/admin-and-audit.md`: "Deleted users cannot log in").

Read from the code while modelling, without a run: a prune that fails is never
repeated; a logout answers "logged out" although the delete failed; revoking a
service leaves its TOTP enrolment; an empty list of capabilities denies nothing; two
creates without a token that overlap both succeed, although `PRODUCT.md` allows that
"only while no admin tokens exist"; rotating a transit key needs no admin token;
`Run` overwrites the master key under requests that outlive it, and what they store can
never be read; a login whose session cannot be stored is not logged, and neither is a
request whose long answer went out just before the process ended; a query compares
paths for equality, where `FEATURES.md` says prefix; a `KVSet`, `KVDelete` or `Authenticate`
of the client that the server refuses returns nil, and such an `Authenticate` replaces
the token by an empty one; two concurrent rotations of a transit key lose a version,
and every ciphertext made with it (`transit.go:59`: "old versions are retained").
PROJECT.json `findings` quotes each line.

## 7. Not modelled, and why

- Reads that change nothing and that no property is about: directory listings,
  `Info`, `List` of users. `Disabled` is never set by the code.
- `SetPolicy` and `LoadPolicy` are called by tests only. Without a policy directory a
  reload changes nothing, so the model has one.
- Cryptography, encodings, formatting of answers, argument parsing, configuration and
  TLS set-up, the client's included: no state of the system, or pure input and output.
- Routing by method and path, but for which handlers pass which checks.
- Of `init`, the certificates; of the command line, the commands that are one request of
  a client. `ListDirect`, which only reads. Service names that contain a slash.
- Badger itself: modelled from its use, as atomic calls that can fail.
- Dev mode, which turns every check off and keeps the store in memory.

## 8. Plan

Done, in this order: KVStore with KVAbstract, Transit with TransitAbstract, Users with
UsersAbstract, ServiceAuth, Sessions with SessionsAbstract, Policy, Admins, TOTP beside
ServiceAuth, Audit, Server, Client with the request pipeline; proofs for all of them.

Left:

1. Abstract specifications of the logins of services (a challenge is exchanged for at most
   one session) and of the scan of admin tokens (one look at all of them), which
   `ServiceAuth` and `Admins` would implement.
2. The directory listing of secrets beside writes, if a promise about it is ever made.
