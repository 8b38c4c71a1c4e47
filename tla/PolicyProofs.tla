---------------------------- MODULE PolicyProofs ----------------------------
(***************************************************************************)
(* What holds of Policy for every set of files, contents, paths and        *)
(* workers, with proofs.                                                   *)
(***************************************************************************)
EXTENDS Policy, TLAPS, WellFoundedInduction

(* Induction on a set of numbers: a set with 0 that has n + 1 when it has  *)
(* n has them all, since nothing could be the least number missing.        *)
LEMMA Induct ==
    ASSUME NEW P, 0 \in P, \A n \in Nat : n \in P => n + 1 \in P
    PROVE  Nat \subseteq P
<1> DEFINE Less == {ss \in Nat \X Nat : ss[1] < ss[2]}
           Missing == Nat \ P
<1>1. IsWellFoundedOn(Less, Nat)
  BY NatLessThanWellFounded, Zenon DEF OpToRel
<1>0. \A i, j \in Nat : i < j => <<i, j>> \in Less
  OBVIOUS
<1> HIDE DEF Less
<1>2. ASSUME Missing # {} PROVE FALSE
  <2>1. PICK m \in Missing : \A k \in Missing : ~ (<<k, m>> \in Less)
    BY <1>1, <1>2, WFMin, Zenon
  <2>2. m # 0 /\ m \in Nat /\ m - 1 \in Nat /\ m - 1 < m /\ (m - 1) + 1 = m
    BY <2>1
  <2>3. <<m - 1, m>> \in Less
    BY <1>0, <2>2
  <2>4. m - 1 \notin Missing
    BY <2>1, <2>3
  <2> QED
    BY <2>1, <2>2, <2>4
<1> QED
  BY <1>2

-----------------------------------------------------------------------------
(***************************************************************************)
(* Allowed.  The loop over the rules ends with "denied" when one of those  *)
(* it went through denies, and with "yes" when none does and one grants.   *)
(***************************************************************************)
LEMMA Scan ==
    ASSUME NEW L \in Nat, NEW D, NEW G, NEW f, f[0] = "no",
           \A i \in 1..L :
              f[i] = IF f[i - 1] = "denied" \/ i \in D THEN "denied"
                     ELSE IF i \in G THEN "yes" ELSE f[i - 1]
    PROVE  /\ f[L] = "denied" <=> \E j \in 1..L : j \in D
           /\ f[L] = "yes" <=> (\E j \in 1..L : j \in G) /\ ~ \E j \in 1..L : j \in D
<1> DEFINE Means(n) ==
      /\ f[n] = "denied" <=> \E j \in 1..n : j \in D
      /\ f[n] = "yes" <=> (\E j \in 1..n : j \in G) /\ ~ \E j \in 1..n : j \in D
<1> DEFINE P == {n \in Nat : n <= L => Means(n)}
<1>1. 0 \in P
  OBVIOUS
<1>2. ASSUME NEW n \in Nat, n \in P PROVE n + 1 \in P
  <2> SUFFICES ASSUME n + 1 <= L PROVE Means(n + 1)
    OBVIOUS
  <2>1. Means(n) /\ n + 1 \in 1..L /\ (n + 1) - 1 = n
    BY <1>2
  <2>2. \A j : j \in 1..(n + 1) <=> j \in 1..n \/ j = n + 1
    OBVIOUS
  <2>3. f[n + 1] = IF f[n] = "denied" \/ n + 1 \in D THEN "denied"
                   ELSE IF n + 1 \in G THEN "yes" ELSE f[n]
    BY <2>1
  <2> QED
    BY <2>1, <2>2, <2>3
<1> HIDE DEF P
<1>3. L \in P
  BY <1>1, <1>2, Induct
<1> QED
  BY <1>3 DEF P

(* The function the loop computes exists: by induction on the number of    *)
(* rules it has gone through.                                              *)
Scans(g, n, D, G) ==
    g = [i \in 0..n |-> IF i = 0 THEN "no"
                        ELSE IF g[i - 1] = "denied" \/ i \in D THEN "denied"
                        ELSE IF i \in G THEN "yes" ELSE g[i - 1]]

LEMMA ScanExists ==
    ASSUME NEW L \in Nat, NEW D, NEW G
    PROVE  \E g : Scans(g, L, D, G)
<1> DEFINE P == {n \in Nat : \E g : Scans(g, n, D, G)}
<1>1. 0 \in P
  <2>1. Scans([i \in 0..0 |-> "no"], 0, D, G)
    BY DEF Scans
  <2> QED
    BY <2>1
<1>2. ASSUME NEW n \in Nat, n \in P PROVE n + 1 \in P
  <2>1. PICK g : Scans(g, n, D, G)
    BY <1>2
  <2> DEFINE last == IF g[n] = "denied" \/ n + 1 \in D THEN "denied"
                     ELSE IF n + 1 \in G THEN "yes" ELSE g[n]
             h == [i \in 0..(n + 1) |-> IF i = n + 1 THEN last ELSE g[i]]
             turn == [i \in 0..(n + 1) |->
                        IF i = 0 THEN "no"
                        ELSE IF h[i - 1] = "denied" \/ i \in D THEN "denied"
                        ELSE IF i \in G THEN "yes" ELSE h[i - 1]]
  <2>2. ASSUME NEW i \in 0..(n + 1) PROVE h[i] = turn[i]
    <3>1. CASE i = 0
      BY <2>1, <3>1 DEF Scans
    <3>2. CASE i = n + 1
      <4>1. i # 0 /\ i - 1 = n /\ n \in 0..(n + 1) /\ n # n + 1
        BY <3>2
      <4>2. h[i - 1] = g[n] /\ h[i] = last
        BY <3>2, <4>1
      <4> HIDE DEF h
      <4> QED
        BY <3>2, <4>1, <4>2
    <3>3. CASE i # 0 /\ i # n + 1
      <4>1. i \in 0..n /\ i - 1 \in 0..(n + 1) /\ i - 1 # n + 1
        BY <3>3
      <4>2. h[i] = g[i] /\ h[i - 1] = g[i - 1]
        BY <3>3, <4>1
      <4>3. g[i] = IF g[i - 1] = "denied" \/ i \in D THEN "denied"
                   ELSE IF i \in G THEN "yes" ELSE g[i - 1]
        BY <2>1, <3>3, <4>1 DEF Scans
      <4> HIDE DEF h
      <4> QED
        BY <3>3, <4>2, <4>3
    <3> QED
      BY <3>1, <3>2, <3>3
  <2>3. h = turn
    <3> HIDE DEF last
    <3>1. h = [i \in 0..(n + 1) |-> h[i]] /\ turn = [i \in 0..(n + 1) |-> turn[i]]
      OBVIOUS
    <3> HIDE DEF h, turn
    <3> QED
      BY <2>2, <3>1
  <2> HIDE DEF h
  <2>4. Scans(h, n + 1, D, G)
    BY <2>3 DEF Scans
  <2> QED
    BY <2>4
<1> HIDE DEF P
<1>3. L \in P
  BY <1>1, <1>2, Induct
<1> QED
  BY <1>3 DEF P

(* A list of rules allows what one of them grants and none of them denies. *)
LEMMA DecideGrants ==
    ASSUME NEW rules \in Seq(Rules), NEW path, NEW cap
    PROVE  Decide(rules, path, cap) <=> Grants(rules, path, cap)
<1> DEFINE L == Len(rules)
           D == {i \in 1..L : Matches(rules[i], path) /\ rules[i].deny}
           G == {i \in 1..L : Matches(rules[i], path) /\ ~ rules[i].deny
                               /\ cap \in rules[i].capabilities}
           verdict == CHOOSE g : g = [i \in 0..L |->
              IF i = 0 THEN "no"
              ELSE IF g[i - 1] = "denied" \/ ~ Matches(rules[i], path)
              THEN g[i - 1]
              ELSE Verdict(rules[i], g[i - 1], cap)]
<1>1. L \in Nat /\ DOMAIN rules = 1..L /\ \A i \in 1..L : rules[i] \in Rules
  OBVIOUS
<1>2. ASSUME NEW g, NEW i \in 1..L
      PROVE  (IF g[i - 1] = "denied" \/ ~ Matches(rules[i], path)
              THEN g[i - 1]
              ELSE Verdict(rules[i], g[i - 1], cap))
             = IF g[i - 1] = "denied" \/ i \in D THEN "denied"
               ELSE IF i \in G THEN "yes" ELSE g[i - 1]
  <2>1. rules[i].deny \in BOOLEAN
    BY <1>1 DEF Rules
  <2> QED
    BY <2>1 DEF Verdict
<1>3. PICK g : Scans(g, L, D, G)
  <2> HIDE DEF D, G, L
  <2> QED
    BY <1>1, ScanExists
<1>4. g = [i \in 0..L |->
              IF i = 0 THEN "no"
              ELSE IF g[i - 1] = "denied" \/ ~ Matches(rules[i], path)
              THEN g[i - 1]
              ELSE Verdict(rules[i], g[i - 1], cap)]
  <2> DEFINE old == [i \in 0..L |->
              IF i = 0 THEN "no"
              ELSE IF g[i - 1] = "denied" \/ i \in D THEN "denied"
              ELSE IF i \in G THEN "yes" ELSE g[i - 1]]
             new == [i \in 0..L |->
              IF i = 0 THEN "no"
              ELSE IF g[i - 1] = "denied" \/ ~ Matches(rules[i], path)
              THEN g[i - 1]
              ELSE Verdict(rules[i], g[i - 1], cap)]
  <2>1. \A i \in 0..L : i = 0 \/ i \in 1..L
    BY <1>1
  <2>2. ASSUME NEW i \in 0..L PROVE old[i] = new[i]
    <3> HIDE DEF D, G, L
    <3> QED
      BY <1>2, <2>1
  <2>3. old = new
    <3>1. old = [i \in 0..L |-> old[i]] /\ new = [i \in 0..L |-> new[i]]
      <4> HIDE DEF D, G, L
      <4> QED
        OBVIOUS
    <3> HIDE DEF old, new
    <3> QED
      BY <2>2, <3>1
  <2> QED
    BY <1>3, <2>3 DEF Scans
<1>5. verdict = [i \in 0..L |->
              IF i = 0 THEN "no"
              ELSE IF verdict[i - 1] = "denied" \/ ~ Matches(rules[i], path)
              THEN verdict[i - 1]
              ELSE Verdict(rules[i], verdict[i - 1], cap)]
  <2> HIDE DEF L
  <2> QED
    BY <1>4
<1>6. Decide(rules, path, cap) <=> verdict[L] = "yes"
  BY DEF Decide
<1> HIDE DEF verdict
<1>7. /\ verdict[0] = "no"
      /\ \A i \in 1..L : verdict[i] = IF verdict[i - 1] = "denied" \/ i \in D THEN "denied"
                                      ELSE IF i \in G THEN "yes" ELSE verdict[i - 1]
  <2>1. \A i \in 1..L : i \in 0..L /\ i # 0
    BY <1>1
  <2> HIDE DEF D, G, L
  <2> QED
    BY <1>1, <1>2, <1>5, <2>1
<1>8. verdict[L] = "yes" <=> (\E j \in 1..L : j \in G) /\ ~ \E j \in 1..L : j \in D
  <2> HIDE DEF D, G, L
  <2> QED
    BY <1>1, <1>7, Scan
<1> QED
  <2> HIDE DEF L
  <2> QED
    BY <1>1, <1>6, <1>8 DEF Grants

(* The built-in policies are lists of rules like any other.                *)
LEMMA BuiltinsTyped ==
    ASSUME NEW name \in DOMAIN Builtins
    PROVE  Builtins[name] \in Seq(Rules)
<1>1. KV \in Seq(Segments) /\ Transit \in Seq(Segments)
  BY SegmentsAssumption DEF KV, Transit
<1>2. \A prefix \in Seq(Segments), caps \in SUBSET Capabilities : Allow(prefix, caps) \in Rules
  BY DEF Allow, Rules
<1>3. /\ {"read", "list"} \in SUBSET Capabilities
      /\ {"read", "write", "delete", "list"} \in SUBSET Capabilities
      /\ {"encrypt", "decrypt"} \in SUBSET Capabilities
  BY DEF Capabilities
<1>4. /\ Allow(KV, {"read", "list"}) \in Rules
      /\ Allow(KV, {"read", "write", "delete", "list"}) \in Rules
      /\ Allow(Transit, {"encrypt", "decrypt"}) \in Rules
  BY <1>1, <1>2, <1>3
<1>5. \A r, s \in Rules : <<r>> \in Seq(Rules) /\ <<r, s>> \in Seq(Rules)
  OBVIOUS
<1>6. name \in {"readonly", "readwrite", "admin"}
  BY DEF Builtins
<1>7. /\ Builtins["readonly"] = <<Allow(KV, {"read", "list"})>>
      /\ Builtins["readwrite"] = <<Allow(KV, {"read", "write", "delete", "list"}),
                                  Allow(Transit, {"encrypt", "decrypt"})>>
      /\ Builtins["admin"] = <<Allow(KV, {"read", "write", "delete", "list"}),
                              Allow(Transit, {"encrypt", "decrypt"})>>
  BY DEF Builtins
<1>8. /\ Builtins["readonly"] \in Seq(Rules)
      /\ Builtins["readwrite"] \in Seq(Rules)
      /\ Builtins["admin"] \in Seq(Rules)
  BY <1>4, <1>5, <1>7, Zenon
<1> QED
  BY <1>6, <1>8

LEMMA InForceTyped ==
    ASSUME policies \in Maps, NEW name
    PROVE  InForce(name) = NoPolicy \/ InForce(name) \in Seq(Rules)
<1>1. CASE name \in Names /\ policies[name] # NoPolicy
  <2>1. policies[name] \in RuleLists
    BY <1>1 DEF Maps
  <2>2. PICK c \in Contents : policies[name] = c.rules
    BY <2>1 DEF RuleLists
  <2> QED
    BY <1>1, <2>2, ContentsAssumption DEF InForce
<1>2. CASE ~ (name \in Names /\ policies[name] # NoPolicy)
  BY <1>2, BuiltinsTyped DEF InForce
<1> QED
  BY <1>1, <1>2

LEMMA DeniesOverride ==
    ASSUME policies \in Maps
    PROVE  DenyOverrides
<1> SUFFICES ASSUME NEW name \in Names \ {"root"}, NEW path \in Paths,
                    NEW cap \in Capabilities
             PROVE  Allowed(name, path, cap) <=>
                      InForce(name) # NoPolicy /\ Grants(InForce(name), path, cap)
  BY DEF DenyOverrides
<1> DEFINE rules == InForce(name)
<1>1. rules # NoPolicy => (Decide(rules, path, cap) <=> Grants(rules, path, cap))
  <2>1. rules = NoPolicy \/ rules \in Seq(Rules)
    BY InForceTyped
  <2> HIDE DEF rules
  <2> QED
    BY <2>1, DecideGrants
<1> QED
  BY <1>1 DEF Allowed

-----------------------------------------------------------------------------
(***************************************************************************)
(* The policies and the reloads keep their types.                          *)
(***************************************************************************)

(* A set of files has a last one.                                          *)
LEMMA LastFile ==
    ASSUME NEW S \in SUBSET Files, S # {}
    PROVE  \E last \in S : \A f \in S : f <= last
<1> DEFINE P == {n \in Nat : \A T \in SUBSET (1..n) :
                    T # {} => \E last \in T : \A f \in T : f <= last}
<1>1. 0 \in P
  <2>1. 1..0 = {}
    OBVIOUS
  <2> QED
    BY <2>1
<1>2. ASSUME NEW n \in Nat, n \in P PROVE n + 1 \in P
  <2> SUFFICES ASSUME NEW T \in SUBSET (1..(n + 1)), T # {}
               PROVE  \E last \in T : \A f \in T : f <= last
    OBVIOUS
  <2>1. CASE n + 1 \in T
    BY <2>1
  <2>2. CASE n + 1 \notin T
    <3>1. T \in SUBSET (1..n)
      BY <2>2
    <3> QED
      BY <1>2, <3>1
  <2> QED
    BY <2>1, <2>2
<1> HIDE DEF P
<1>3. MaxFile \in P
  BY <1>1, <1>2, Induct, MaxFileAssumption
<1> QED
  BY <1>3 DEF P, Files

(* The engine holds, under a name, the rules of the last file to name it.  *)
IsLast(f, n, fs) ==
    /\ f \in fs
    /\ files[f].name = n
    /\ \A g \in fs : files[g].name = n => g <= f

Readable == {f \in Files : files[f] \in Contents}

LEMMA FromFilesIs ==
    ASSUME NEW n \in Names
    PROVE  /\ \A f : IsLast(f, n, Readable) => FromFiles[n] = files[f].rules
           /\ (\A f \in Readable : files[f].name # n) => FromFiles[n] = NoPolicy
           /\ \/ \E f : IsLast(f, n, Readable)
              \/ \A f \in Readable : files[f].name # n
<1> DEFINE Named == {f \in Files : files[f] \in Contents /\ files[f].name = n}
           last == CHOOSE f \in Files :
                      /\ files[f] \in Contents /\ files[f].name = n
                      /\ \A g \in Files :
                           files[g] \in Contents /\ files[g].name = n => g <= f
<1>1. FromFiles[n] = IF \E f \in Files : files[f] \in Contents /\ files[f].name = n
                     THEN files[last].rules ELSE NoPolicy
  BY DEF FromFiles
<1>2. ASSUME NEW f, IsLast(f, n, Readable) PROVE FromFiles[n] = files[f].rules
  <2>1. /\ f \in Files /\ files[f] \in Contents /\ files[f].name = n
        /\ \A g \in Files : files[g] \in Contents /\ files[g].name = n => g <= f
    BY <1>2 DEF IsLast, Readable
  <2>2. /\ last \in Files /\ files[last] \in Contents /\ files[last].name = n
        /\ \A g \in Files : files[g] \in Contents /\ files[g].name = n => g <= last
    BY <2>1
  <2> HIDE DEF last
  <2>3. f <= last /\ last <= f /\ f \in Int /\ last \in Int
    BY <2>1, <2>2 DEF Files
  <2>4. last = f
    BY <2>3
  <2> QED
    BY <1>1, <2>1, <2>4
<1>3. ASSUME \A f \in Readable : files[f].name # n PROVE FromFiles[n] = NoPolicy
  BY <1>1, <1>3 DEF Readable
<1>4. ASSUME NEW f \in Readable, files[f].name = n PROVE \E g : IsLast(g, n, Readable)
  <2>1. PICK g \in Named : \A h \in Named : h <= g
    BY <1>4, LastFile DEF Readable
  <2> QED
    BY <2>1 DEF IsLast, Readable
<1> QED
  BY <1>2, <1>3, <1>4

LEMMA FromFilesTyped == FromFiles \in Maps
<1>1. ASSUME NEW n \in Names PROVE FromFiles[n] \in RuleLists \cup {NoPolicy}
  BY FromFilesIs DEF IsLast, Readable, RuleLists
<1>2. FromFiles = [n \in Names |-> FromFiles[n]]
  BY DEF FromFiles
<1> QED
  BY <1>1, <1>2 DEF Maps

LEMMA UnloadedTyped == Unloaded \in Maps
BY DEF Unloaded, Maps

LEMMA InitTyped == Init => TypeOK
BY FromFilesTyped, UnloadedTyped DEF Init, TypeOK

LEMMA NextTyped == TypeOK /\ [Next]_vars => TypeOK'
<1> SUFFICES ASSUME TypeOK, [Next]_vars PROVE TypeOK'
  OBVIOUS
<1>1. ASSUME NEW w \in Workers, BeginReload(w) PROVE TypeOK'
  BY <1>1, UnloadedTyped DEF BeginReload, Blank, TypeOK
<1>2. ASSUME NEW w \in Workers, ReadFile(w) PROVE TypeOK'
  <2>1. PICK f \in todo[w] :
           \/ /\ files[f] \in Contents
              /\ todo' = [todo EXCEPT ![w] = @ \ {f}]
              /\ loaded' = [loaded EXCEPT ![w][files[f].name] = files[f].rules]
              /\ UNCHANGED <<pc, clean>>
           \/ Finish(w)
    BY <1>2 DEF ReadFile
  <2>2. UNCHANGED <<files, policies, fresh, overlapped>>
    BY <1>2 DEF ReadFile
  <2>3. CASE Finish(w)
    BY <2>2, <2>3, UnloadedTyped DEF Finish, TypeOK
  <2>4. CASE ~ Finish(w)
    <3>1. files[f].name \in Names /\ files[f].rules \in RuleLists
      BY <2>1, <2>4 DEF Names, RuleLists
    <3>2. [loaded[w] EXCEPT ![files[f].name] = files[f].rules] \in Maps
      BY <3>1 DEF Maps, TypeOK
    <3>3. loaded' \in [Workers -> Maps]
      BY <2>1, <2>4, <3>2 DEF TypeOK
    <3> QED
      BY <2>1, <2>2, <2>4, <3>3 DEF TypeOK
  <2> QED
    BY <2>3, <2>4
<1>3. ASSUME NEW w \in Workers, Swap(w) PROVE TypeOK'
  BY <1>3, UnloadedTyped DEF Swap, Finish, TypeOK
<1>4. ASSUME NEW f \in Files, NEW c \in Contents \cup {NoFile, Broken}, Edit(f, c)
      PROVE  TypeOK'
  BY <1>4 DEF Edit, TypeOK
<1>5. CASE UNCHANGED vars
  BY <1>5 DEF vars, TypeOK
<1> QED
  BY <1>1, <1>2, <1>3, <1>4, <1>5 DEF Next

(* The engine always holds rules it read from a file, or none, under every *)
(* name, whatever the reloads and the edits of the files.                  *)
THEOREM TypeCorrect == Spec => []TypeOK
BY InitTyped, NextTyped, PTL DEF Spec

(* Whatever is in force, its rules in whatever order: a request is allowed *)
(* when one of them grants it and none that matches denies.                *)
THEOREM DenialsOverride == Spec => []DenyOverrides
<1>1. TypeOK => DenyOverrides
  BY DeniesOverride DEF TypeOK
<1> QED
  BY <1>1, TypeCorrect, PTL

-----------------------------------------------------------------------------
(***************************************************************************)
(* What a reload leaves.  A reload during which nothing was edited holds,  *)
(* under each name, the rules of the last file it has read of that name,   *)
(* and the files it has read are those before the ones it has still to     *)
(* read.  As long as reloads do not overlap, one that is under way while   *)
(* the engine is up to date began after the last edit.                     *)
(***************************************************************************)
ReadBy(w) == {f \in Files : files[f] # NoFile} \ todo[w]

Follows(w) ==
    /\ \A f \in ReadBy(w) : files[f] \in Contents
    /\ \A f \in ReadBy(w), g \in todo[w] : f < g
    /\ \A f \in todo[w] : files[f] # NoFile
    /\ \A n \in Names :
          \/ \E f : IsLast(f, n, ReadBy(w)) /\ loaded[w][n] = files[f].rules
          \/ (\A f \in ReadBy(w) : files[f].name # n) /\ loaded[w][n] = NoPolicy

Reloading(w) == pc[w] = "reading"

ReloadOK ==
    /\ \A w \in Workers : Reloading(w) /\ clean[w] => Follows(w)
    /\ ~ overlapped =>
          /\ \A v, w \in Workers : Reloading(v) /\ Reloading(w) => v = w
          /\ \A w \in Workers : Reloading(w) /\ fresh => clean[w]
    /\ InForceAfterReload

IInv == TypeOK /\ ReloadOK

(* A reload is not disturbed by what leaves the files and its own map.     *)
LEMMA FollowsFrame ==
    ASSUME NEW w \in Workers, Follows(w), files' = files,
           todo'[w] = todo[w], loaded'[w] = loaded[w]
    PROVE  Follows(w)'
BY DEF Follows, ReadBy, IsLast, Files, Names, Builtins

LEMMA BeginFollows ==
    ASSUME TypeOK, NEW w \in Workers, BeginReload(w)
    PROVE  Follows(w)'
<1>1. /\ files' = files /\ todo'[w] = {f \in Files : files[f] # NoFile}
      /\ loaded'[w] = Unloaded
  BY DEF BeginReload, Blank, TypeOK
<1>2. ReadBy(w)' = {}
  BY <1>1 DEF ReadBy, Files
<1> QED
  BY <1>1, <1>2 DEF Follows, Unloaded, Names, Builtins

LEMMA ReadFollows ==
    ASSUME TypeOK, NEW w \in Workers, Follows(w), NEW f \in todo[w], IsNext(f, todo[w]),
           files[f] \in Contents, files' = files,
           todo' = [todo EXCEPT ![w] = @ \ {f}],
           loaded' = [loaded EXCEPT ![w][files[f].name] = files[f].rules]
    PROVE  Follows(w)'
<1>1. todo'[w] = todo[w] \ {f} /\ f \in Files /\ todo[w] \subseteq Files
  BY DEF TypeOK
<1>2. ReadBy(w)' = ReadBy(w) \cup {f} /\ f \notin ReadBy(w)
  BY <1>1 DEF ReadBy, Files, Follows
<1>3. \A g \in ReadBy(w) : g \in Files /\ g < f
  BY DEF Follows, ReadBy
<1>4. \A g \in todo'[w] : f < g
  BY <1>1 DEF IsNext, Files
<1>5. \A g \in ReadBy(w)', h \in todo'[w] : g < h
  BY <1>1, <1>2, <1>4 DEF Follows
<1>6. ASSUME NEW n \in Names
      PROVE  \/ \E g : IsLast(g, n, ReadBy(w) \cup {f}) /\ loaded'[w][n] = files[g].rules
             \/ /\ \A g \in ReadBy(w) \cup {f} : files[g].name # n
                /\ loaded'[w][n] = NoPolicy
  <2>1. CASE n = files[f].name
    <3>1. loaded'[w][n] = files[f].rules
      BY <2>1 DEF TypeOK, Maps
    <3>2. IsLast(f, n, ReadBy(w) \cup {f})
      BY <1>1, <1>3, <2>1 DEF IsLast, Files
    <3> QED
      BY <3>1, <3>2
  <2>2. CASE n # files[f].name
    <3>1. loaded'[w][n] = loaded[w][n]
      BY <2>2 DEF TypeOK, Maps
    <3>2. \A g : IsLast(g, n, ReadBy(w)) => IsLast(g, n, ReadBy(w) \cup {f})
      BY <2>2 DEF IsLast
    <3> QED
      BY <2>2, <3>1, <3>2 DEF Follows
  <2> QED
    BY <2>1, <2>2
<1>7. \A n, g : IsLast(g, n, ReadBy(w) \cup {f}) <=> IsLast(g, n, ReadBy(w))'
  BY <1>2 DEF IsLast
<1>8. \A g \in ReadBy(w)' : files'[g] \in Contents
  BY <1>2 DEF Follows
<1>9. \A g \in todo'[w] : files'[g] # NoFile
  BY <1>1 DEF Follows
<1>10. \A n \in Names :
          \/ \E g : IsLast(g, n, ReadBy(w))' /\ loaded'[w][n] = files'[g].rules
          \/ (\A g \in ReadBy(w)' : files'[g].name # n) /\ loaded'[w][n] = NoPolicy
  BY <1>2, <1>6, <1>7
<1> QED
  BY <1>5, <1>8, <1>9, <1>10 DEF Follows, Names, Builtins

(* A reload that has read every file holds what the files say.             *)
LEMMA FollowsToTheEnd ==
    ASSUME TypeOK, NEW w \in Workers, Follows(w), todo[w] = {}
    PROVE  loaded[w] = FromFiles
<1>1. ReadBy(w) = Readable
  BY DistinctAssumption DEF ReadBy, Readable, Follows
<1>2. ASSUME NEW n \in Names PROVE loaded[w][n] = FromFiles[n]
  BY <1>1, FromFilesIs DEF Follows
<1>3. loaded[w] = [n \in Names |-> loaded[w][n]] /\ FromFiles = [n \in Names |-> FromFiles[n]]
  BY DEF TypeOK, Maps, FromFiles
<1> QED
  BY <1>2, <1>3

LEMMA FromFilesFrame == files' = files => FromFiles' = FromFiles
BY DEF FromFiles, Files, Names, Builtins

LEMMA ReloadStep == IInv /\ [Next]_vars => IInv'
<1> SUFFICES ASSUME IInv, [Next]_vars PROVE ReloadOK'
  BY NextTyped DEF IInv
<1> USE DEF IInv
<1>1. ASSUME NEW w \in Workers, BeginReload(w) PROVE ReloadOK'
  <2>1. /\ files' = files /\ policies' = policies /\ fresh' = fresh
        /\ clean'[w] = TRUE /\ ~ Reloading(w) /\ Reloading(w)'
        /\ overlapped' = (overlapped \/ \E v \in Workers : Reloading(v))
        /\ \A v \in Workers \ {w} : /\ pc'[v] = pc[v] /\ clean'[v] = clean[v]
                                   /\ todo'[v] = todo[v] /\ loaded'[v] = loaded[v]
    BY <1>1 DEF BeginReload, Reloading, TypeOK
  <2>2. \A v \in Workers : Reloading(v)' /\ clean'[v] => Follows(v)'
    BY <1>1, <2>1, BeginFollows, FollowsFrame DEF ReloadOK, Reloading
  <2>3. ~ overlapped' => \A v \in Workers : Reloading(v)' => v = w
    BY <2>1 DEF Reloading
  <2>4. InForceAfterReload'
    BY <2>1, FromFilesFrame DEF ReloadOK, InForceAfterReload
  <2> QED
    BY <2>1, <2>2, <2>3, <2>4 DEF ReloadOK
<1>2. ASSUME NEW w \in Workers, ReadFile(w) PROVE ReloadOK'
  <2>1. UNCHANGED <<files, policies, fresh, overlapped>>
    BY <1>2 DEF ReadFile
  <2>2. PICK f \in todo[w] :
           /\ IsNext(f, todo[w])
           /\ \/ /\ files[f] \in Contents
                 /\ todo' = [todo EXCEPT ![w] = @ \ {f}]
                 /\ loaded' = [loaded EXCEPT ![w][files[f].name] = files[f].rules]
                 /\ UNCHANGED <<pc, clean>>
              \/ Finish(w)
    BY <1>2 DEF ReadFile
  <2>3. /\ \A v \in Workers : Reloading(v)' => Reloading(v) /\ clean'[v] = clean[v]
        /\ \A v \in Workers \ {w} : todo'[v] = todo[v] /\ loaded'[v] = loaded[v]
    BY <2>2 DEF Finish, Reloading, TypeOK
  <2>4. Reloading(w)' /\ clean'[w] => Follows(w)'
    <3>1. CASE Finish(w)
      BY <3>1 DEF Finish, Reloading, TypeOK
    <3>2. CASE ~ Finish(w)
      BY <2>1, <2>2, <2>3, <3>2, ReadFollows DEF ReloadOK
    <3> QED
      BY <3>1, <3>2
  <2>5. \A v \in Workers : Reloading(v)' /\ clean'[v] => Follows(v)'
    BY <2>1, <2>3, <2>4, FollowsFrame DEF ReloadOK
  <2>6. InForceAfterReload'
    BY <2>1, FromFilesFrame DEF ReloadOK, InForceAfterReload
  <2> QED
    BY <2>1, <2>3, <2>5, <2>6 DEF ReloadOK
<1>3. ASSUME NEW w \in Workers, Swap(w) PROVE ReloadOK'
  <2>1. /\ UNCHANGED <<files, overlapped>>
        /\ policies' = loaded[w] /\ fresh' = (fresh \/ clean[w])
        /\ Reloading(w) /\ todo[w] = {} /\ ~ Reloading(w)'
        /\ \A v \in Workers \ {w} : /\ pc'[v] = pc[v] /\ clean'[v] = clean[v]
                                   /\ todo'[v] = todo[v] /\ loaded'[v] = loaded[v]
    BY <1>3 DEF Swap, Finish, Reloading, TypeOK
  <2>2. \A v \in Workers : Reloading(v)' => v # w /\ Reloading(v)
    BY <2>1 DEF Reloading
  <2>3. \A v \in Workers : Reloading(v)' /\ clean'[v] => Follows(v)'
    BY <2>1, <2>2, FollowsFrame DEF ReloadOK
  <2>4. ~ overlapped => \A v \in Workers : ~ Reloading(v)'
    BY <2>1, <2>2 DEF ReloadOK
  <2>5. fresh' /\ ~ overlapped => policies' = FromFiles
    <3> SUFFICES ASSUME fresh', ~ overlapped PROVE loaded[w] = FromFiles
      BY <2>1
    <3>1. clean[w]
      BY <2>1 DEF ReloadOK
    <3> QED
      BY <2>1, <3>1, FollowsToTheEnd DEF ReloadOK
  <2>6. InForceAfterReload'
    BY <2>1, <2>5, FromFilesFrame DEF InForceAfterReload
  <2> QED
    BY <2>1, <2>3, <2>4, <2>6 DEF ReloadOK
<1>4. ASSUME NEW f \in Files, NEW c \in Contents \cup {NoFile, Broken}, Edit(f, c)
      PROVE  ReloadOK'
  <2>1. fresh' = FALSE /\ overlapped' = overlapped /\ pc' = pc
        /\ \A w \in Workers : clean'[w] = FALSE
    BY <1>4 DEF Edit
  <2> QED
    BY <2>1 DEF ReloadOK, Reloading, InForceAfterReload
<1>5. CASE UNCHANGED vars
  <2>1. \A w \in Workers : Follows(w) => Follows(w)'
    BY <1>5, FollowsFrame DEF vars
  <2>2. InForceAfterReload'
    BY <1>5, FromFilesFrame DEF vars, ReloadOK, InForceAfterReload
  <2> QED
    BY <1>5, <2>1, <2>2 DEF vars, ReloadOK, Reloading
<1> QED
  BY <1>1, <1>2, <1>3, <1>4, <1>5 DEF Next

(* Unless two reloads have overlapped, a reload begun after the last edit  *)
(* leaves the engine with exactly what the files say.                      *)
THEOREM FilesInForce == Spec => []InForceAfterReload
<1>1. Init => IInv
  BY InitTyped DEF Init, IInv, ReloadOK, Reloading, InForceAfterReload
<1>2. IInv => InForceAfterReload
  BY DEF IInv, ReloadOK
<1> QED
  BY <1>1, <1>2, ReloadStep, PTL DEF Spec
=============================================================================
