------------------------------- MODULE Policy -------------------------------
(***************************************************************************)
(* The policy engine: internal/policy/policy.go, as handlePolicyReload and *)
(* the SIGHUP goroutine of internal/server/server.go reload it.            *)
(*                                                                         *)
(* A policy is a list of rules, read from a YAML file.  A reload lists the *)
(* directory, reads the files one after the other into a map of its own    *)
(* and, if all of them could be read, puts that map in the place of the    *)
(* engine's, under the lock.  Nothing keeps two reloads, or a reload and   *)
(* the editing of a file, apart.  Allowed takes one policy out of the map  *)
(* under the lock and decides on it.                                       *)
(*                                                                         *)
(* Paths are sequences of segments.  The policy directory exists: without  *)
(* it a reload changes nothing.                                            *)
(***************************************************************************)
EXTENDS Integers, Sequences, SequencesExt

CONSTANTS
    Segments,   \* what paths are made of
    Paths,      \* paths that requests ask for
    Contents,   \* what a policy file can hold: a name and a list of rules
    MaxFile,    \* files are numbered 1..MaxFile in the order of their names
    Workers,    \* goroutines that reload: handlers and the SIGHUP goroutine
    NoFile,     \* there is no file of that name
    Broken,     \* a file that cannot be parsed, or has no policy name
    NoPolicy    \* the engine has no policy of that name

Capabilities == {"read", "write", "delete", "list", "encrypt", "decrypt"}

Files == 1..MaxFile

ASSUME MaxFileAssumption == MaxFile \in Nat
(* A rule's pattern is a path, or (below) a path and everything below it.  *)
Rules == [prefix : Seq(Segments), below : BOOLEAN,
          capabilities : SUBSET Capabilities, deny : BOOLEAN]

ASSUME SegmentsAssumption == {"secrets", "kv", "transit"} \subseteq Segments
ASSUME PathsAssumption == Paths \subseteq Seq(Segments)
ASSUME ContentsAssumption ==
    \A c \in Contents : c.name \in STRING /\ c.rules \in Seq(Rules)
ASSUME DistinctAssumption == NoFile # Broken /\ {NoFile, Broken} \cap Contents = {}

RuleLists == {c.rules : c \in Contents}

ASSUME NoPolicyAssumption == NoPolicy \notin RuleLists

(***************************************************************************)
(* The built-in policies, in force where no file has the same name.        *)
(***************************************************************************)
Allow(prefix, capabilities) ==
    [prefix |-> prefix, below |-> TRUE, capabilities |-> capabilities, deny |-> FALSE]

KV == <<"secrets", "kv">>
Transit == <<"secrets", "transit">>

Builtins ==
    [readonly  |-> <<Allow(KV, {"read", "list"})>>,
     readwrite |-> <<Allow(KV, {"read", "write", "delete", "list"}),
                     Allow(Transit, {"encrypt", "decrypt"})>>,
     admin     |-> <<Allow(KV, {"read", "write", "delete", "list"}),
                     Allow(Transit, {"encrypt", "decrypt"})>>]

Names == {c.name : c \in Contents} \cup DOMAIN Builtins

VARIABLES
    files,       \* files[f]: what the file holds
    policies,    \* the engine's map
    pc,          \* pc[w]: "reading" while a reload is under way
    todo,        \* todo[w]: files it has listed and not read yet
    loaded,      \* loaded[w]: the map it is filling
    (* History, read by properties only. *)
    clean,       \* clean[w]: no file was edited since it listed the directory
    fresh,       \* no file was edited since the start of a reload that is done
    overlapped   \* two reloads have been under way at once

vars == <<files, policies, pc, todo, loaded, clean, fresh, overlapped>>

Maps == [Names -> RuleLists \cup {NoPolicy}]

Unloaded == [n \in Names |-> NoPolicy]

TypeOK ==
    /\ files \in [Files -> Contents \cup {NoFile, Broken}]
    /\ policies \in Maps
    /\ pc \in [Workers -> {"idle", "reading"}]
    /\ todo \in [Workers -> SUBSET Files]
    /\ loaded \in [Workers -> Maps]
    /\ clean \in [Workers -> BOOLEAN]
    /\ fresh \in BOOLEAN
    /\ overlapped \in BOOLEAN

(***************************************************************************)
(* LoadAll: list the directory; read the files in order, the last one to   *)
(* name a policy wins; give up at the first that cannot be read; swap.     *)
(***************************************************************************)
(* Mutant: a reload adds to the policies in force.                         *)
Blank_InForce == policies
Blank == Unloaded

BeginReload(w) ==
    /\ pc[w] = "idle"
    /\ pc' = [pc EXCEPT ![w] = "reading"]
    /\ todo' = [todo EXCEPT ![w] = {f \in Files : files[f] # NoFile}]
    /\ loaded' = [loaded EXCEPT ![w] = Blank]
    /\ clean' = [clean EXCEPT ![w] = TRUE]
    /\ overlapped' = (overlapped \/ \E v \in Workers : pc[v] = "reading")
    /\ UNCHANGED <<files, policies, fresh>>

IsNext(f, fs) == f \in fs /\ \A g \in fs : f <= g

Finish(w) ==
    /\ pc' = [pc EXCEPT ![w] = "idle"]
    /\ todo' = [todo EXCEPT ![w] = {}]
    /\ loaded' = [loaded EXCEPT ![w] = Unloaded]
    /\ clean' = [clean EXCEPT ![w] = FALSE]

ReadFile(w) ==
    /\ pc[w] = "reading"
    /\ \E f \in todo[w] :
         /\ IsNext(f, todo[w])
         /\ \/ /\ files[f] \in Contents
               /\ todo' = [todo EXCEPT ![w] = @ \ {f}]
               /\ loaded' = [loaded EXCEPT ![w][files[f].name] = files[f].rules]
               /\ UNCHANGED <<pc, clean>>
            \/ /\ files[f] \notin Contents
               /\ Finish(w)
    /\ UNCHANGED <<files, policies, fresh, overlapped>>

Swap(w) ==
    /\ pc[w] = "reading"
    /\ todo[w] = {}
    /\ policies' = loaded[w]
    /\ fresh' = (fresh \/ clean[w])
    /\ Finish(w)
    /\ UNCHANGED <<files, overlapped>>

(* Somebody writes, breaks or removes a policy file.                       *)
Edit(f, c) ==
    /\ files[f] # c
    /\ files' = [files EXCEPT ![f] = c]
    /\ clean' = [w \in Workers |-> FALSE]
    /\ fresh' = FALSE
    /\ UNCHANGED <<policies, pc, todo, loaded, overlapped>>

(* What the engine is left with once the files have been read in order.    *)
FromFiles ==
    [n \in Names |->
        IF \E f \in Files : files[f] \in Contents /\ files[f].name = n
        THEN LET last == CHOOSE f \in Files :
                            /\ files[f] \in Contents /\ files[f].name = n
                            /\ \A g \in Files :
                                 files[g] \in Contents /\ files[g].name = n => g <= f
             IN  files[last].rules
        ELSE NoPolicy]

(* The server starts once the policy files have been loaded.               *)
Init ==
    /\ files \in [Files -> Contents \cup {NoFile}]
    /\ policies = FromFiles
    /\ pc = [w \in Workers |-> "idle"]
    /\ todo = [w \in Workers |-> {}]
    /\ loaded = [w \in Workers |-> Unloaded]
    /\ clean = [w \in Workers |-> FALSE]
    /\ fresh = TRUE
    /\ overlapped = FALSE

Next ==
    \/ \E w \in Workers : BeginReload(w) \/ ReadFile(w) \/ Swap(w)
    \/ \E f \in Files, c \in Contents \cup {NoFile, Broken} : Edit(f, c)

Spec == Init /\ [][Next]_vars

(***************************************************************************)
(* Allowed: the policy in force, its rules one after the other.            *)
(***************************************************************************)
Matches(rule, path) ==
    IF rule.below THEN IsPrefix(rule.prefix, path) ELSE rule.prefix = path

(* Mutants: the last rule that says something wins; a deny only counts for *)
(* the capabilities it lists.                                              *)
Verdict_LastWins(rule, soFar, cap) ==
    CASE rule.deny                   -> "no"
      [] rule.capabilities # {}      -> IF cap \in rule.capabilities THEN "yes" ELSE soFar
      [] OTHER                       -> soFar
Verdict_DenyListed(rule, soFar, cap) ==
    CASE rule.deny /\ cap \in rule.capabilities   -> "denied"
      [] ~ rule.deny /\ cap \in rule.capabilities -> "yes"
      [] OTHER                                    -> soFar

(* What a matching rule makes of the verdict so far; "denied" is final.    *)
Verdict(rule, soFar, cap) ==
    CASE rule.deny                                -> "denied"
      [] ~ rule.deny /\ cap \in rule.capabilities -> "yes"
      [] OTHER                                    -> soFar

Decide(rules, path, cap) ==
    LET verdict[i \in 0..Len(rules)] ==
          IF i = 0 THEN "no"
          ELSE IF verdict[i - 1] = "denied" \/ ~ Matches(rules[i], path)
          THEN verdict[i - 1]
          ELSE Verdict(rules[i], verdict[i - 1], cap)
    IN  verdict[Len(rules)] = "yes"

InForce(name) ==
    IF name \in Names /\ policies[name] # NoPolicy THEN policies[name]
    ELSE IF name \in DOMAIN Builtins THEN Builtins[name]
    ELSE NoPolicy

Allowed(name, path, cap) ==
    \/ name = "root"
    \/ /\ InForce(name) # NoPolicy
       /\ Decide(InForce(name), path, cap)

-----------------------------------------------------------------------------
(* "An explicit deny returns false immediately - it overrides any allow    *)
(* rule" (docs/policies.md:99): whatever the order of the rules, a policy  *)
(* allows what one of its rules grants and none that matches denies.       *)
Grants(rules, path, cap) ==
    /\ \E i \in DOMAIN rules :
          Matches(rules[i], path) /\ ~ rules[i].deny /\ cap \in rules[i].capabilities
    /\ ~ \E i \in DOMAIN rules : Matches(rules[i], path) /\ rules[i].deny

DenyOverrides ==
    \A name \in Names \ {"root"}, path \in Paths, cap \in Capabilities :
        Allowed(name, path, cap) <=>
            InForce(name) # NoPolicy /\ Grants(InForce(name), path, cap)

(* Unless two reloads have overlapped: from the end of a reload that began *)
(* after the last edit, until the next edit, the engine holds exactly what *)
(* the files say, nothing of an older load and nothing of one that failed  *)
(* (LoadAll, policy.go:82-107).                                            *)
InForceAfterReload == fresh /\ ~ overlapped => policies = FromFiles
=============================================================================
