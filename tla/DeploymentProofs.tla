-------------------------- MODULE DeploymentProofs ---------------------------
(***************************************************************************)
(* Deployment, for any services and any number of runs of the script,      *)
(* removals and crashes: a directory has one authority as long as it       *)
(* lives, what was read from one directory is trusted by what else was     *)
(* read from it, and the script reports what is there.                     *)
(***************************************************************************)
EXTENDS Deployment, TLAPS

-----------------------------------------------------------------------------
(* The inductive invariant *)

\* What a process has read is kept by name.
ProcessesKept == DOMAIN pair = Names /\ DOMAIN loaded = Names

\* A key file holds a key, a certificate file a certificate, unless torn.
FilesAreKinds ==
  \A f \in DOMAIN files : files[f] # Torn =>
    IF f[2] = "key" THEN \E n \in 1..runs : files[f] = Key(n)
    ELSE \E n, m \in 1..runs : files[f] = Certificate(n, m)

\* The files a run has passed are there and whole; until it comes to the
\* authority's certificate there is none.
RunSoFar ==
  /\ \A i \in 1..Len(Outputs) : i < at => Readable(Outputs[i])
  /\ at \in {1, 2} => CaCertificate \notin DOMAIN files
  /\ at # 0 => runs # 0 /\ said = "nothing"

\* A certificate of the authority is for the key of the authority, and files of
\* services are made after it, and signed with that key.
OneAuthority ==
  /\ Readable(CaCertificate) =>
       Readable(Ca("key")) /\ files[CaCertificate].key = files[Ca("key")].key
  /\ \A f \in DOMAIN files : f[1] # "ca" => Readable(CaCertificate)
  /\ \A s \in Names : Readable(<<s, "crt">>) =>
       files[<<s, "crt">>].signer = files[CaCertificate].key

\* Without a failure the directory is empty, or being filled, or complete.
FilledUnlessStopped ==
  /\ at = 0 /\ ~stopped => DOMAIN files = {} \/ Complete
  /\ said = "generated" => at = 0 /\ Complete
  /\ said = "present" /\ ~stopped => Complete

\* A pair read since the directory was last removed is signed by its authority.
PairsAreOfNow ==
  \A s \in Names : pair[s] # None =>
    /\ pair[s].since <= cleans
    /\ pair[s].since = cleans =>
         Readable(CaCertificate) /\ pair[s].signer = files[CaCertificate].key

\* So is an identity, and it trusts that authority.
IdentitiesAreOfNow ==
  \A s \in Names : \A i \in 1..Len(loaded[s]) :
    LET id == loaded[s][i] IN
    /\ id.until <= cleans
    /\ Whole(id) /\ id.since = cleans =>
         /\ Readable(CaCertificate)
         /\ id.signer = files[CaCertificate].key
         /\ id.authority \in {id.signer, None}

\* Identities of one directory, this or an earlier one, agree.
IdentitiesAgree ==
  \A s, t \in Names : \A i \in 1..Len(loaded[s]), j \in 1..Len(loaded[t]) :
    LET a == loaded[s][i]  b == loaded[t][j] IN
    Whole(a) /\ Whole(b) /\ a.since = b.since =>
      a.signer = b.signer /\ a.authority \in {b.signer, None}

\* Only a server of browsers does without an authority.
OthersHaveAuthority ==
  \A s \in Names : \A i \in 1..Len(loaded[s]) :
    loaded[s][i].authority = None => s \in Edge /\ i = Len(Roles(s))

\* The inductive invariant.
Inv ==
  /\ TypeOK
  /\ ProcessesKept
  /\ FilesAreKinds
  /\ RunSoFar
  /\ OneAuthority
  /\ FilledUnlessStopped
  /\ PairsAreOfNow
  /\ IdentitiesAreOfNow
  /\ IdentitiesAgree
  /\ OthersHaveAuthority

-----------------------------------------------------------------------------
(* Lemmas about the files *)

\* A key and a certificate can be told from a torn file, and read.
LEMMA ContentFacts ==
  ASSUME NEW n, NEW m
  PROVE  /\ Key(n) # Torn /\ Key(n).key = n
         /\ Certificate(n, m) # Torn
         /\ Certificate(n, m).key = n /\ Certificate(n, m).signer = m
<1>1. "torn" \in DOMAIN Torn /\ "torn" \notin DOMAIN Key(n)
  BY DEF Torn, Key
<1>2. "torn" \notin DOMAIN Certificate(n, m)
  BY DEF Certificate
<1> QED
  BY <1>1, <1>2 DEF Key, Certificate

\* The script makes the authority first, and a certificate after its key.
LEMMA OutputsShape ==
  /\ Len(Outputs) \in Nat /\ Len(Outputs) >= 2
  /\ DOMAIN Outputs = 1..Len(Outputs)
  /\ Outputs[1] = Ca("key") /\ Outputs[2] = CaCertificate
  /\ \A i \in 1..Len(Outputs) :
       /\ Outputs[i] \in ToSet(Outputs)
       /\ Outputs[i] = <<Outputs[i][1], Outputs[i][2]>>
       /\ Outputs[i][2] \in {"key", "crt"}
       /\ i > 2 => Outputs[i][1] \in Names /\ Outputs[i][1] # "ca"
       /\ Outputs[i][2] = "crt" =>
            i # 1 /\ Outputs[i - 1] = <<Outputs[i][1], "key">>
<1> DEFINE n == Len(Services)
           H == Holders
<1>1. n \in Nat /\ Services \in [1..n -> Names]
  BY DeploymentAssumption
<1>2. /\ H \in Seq({"ca"} \cup Names) /\ Len(H) = n + 1
      /\ H[1] = "ca" /\ \A i \in 2..(n + 1) : H[i] = Services[i - 1]
  BY DeploymentAssumption DEF Holders
<1>3. Outputs = [i \in 1..(2 * (n + 1)) |->
                   <<H[(i + 1) \div 2], IF i % 2 = 1 THEN "key" ELSE "crt">>]
  BY <1>2 DEF Outputs
<1> HIDE DEF n, H
<1>4. Len(Outputs) = 2 * (n + 1) /\ DOMAIN Outputs = 1..(2 * (n + 1))
  BY <1>1, <1>3
<1>5. Outputs[1] = Ca("key") /\ Outputs[2] = CaCertificate
  BY <1>1, <1>2, <1>3 DEF Ca, CaCertificate
<1>6. ASSUME NEW i \in 1..(2 * (n + 1))
      PROVE  /\ Outputs[i] = <<Outputs[i][1], Outputs[i][2]>>
             /\ Outputs[i][2] \in {"key", "crt"}
             /\ i > 2 => Outputs[i][1] \in Names /\ Outputs[i][1] # "ca"
             /\ Outputs[i][2] = "crt" => i # 1 /\ Outputs[i - 1] = <<Outputs[i][1], "key">>
  <2>1. /\ Outputs[i][1] = H[(i + 1) \div 2]
        /\ Outputs[i][2] = IF i % 2 = 1 THEN "key" ELSE "crt"
        /\ Outputs[i] = <<Outputs[i][1], Outputs[i][2]>>
    BY <1>3
  <2>2. i > 2 => H[(i + 1) \div 2] \in Names
    <3> SUFFICES ASSUME i > 2 PROVE H[(i + 1) \div 2] \in Names
      OBVIOUS
    <3>1. (i + 1) \div 2 \in 2..(n + 1)
      BY <1>1
    <3>2. H[(i + 1) \div 2] = Services[((i + 1) \div 2) - 1] /\ ((i + 1) \div 2) - 1 \in 1..n
      BY <1>1, <1>2, <3>1
    <3> QED
      BY <1>1, <3>2
  <2>3. i % 2 # 1 =>
          i # 1 /\ i - 1 \in 1..(2 * (n + 1)) /\ (i - 1) % 2 = 1
          /\ ((i - 1) + 1) \div 2 = (i + 1) \div 2
    BY <1>1
  <2>4. i % 2 # 1 => Outputs[i - 1] = <<H[(i + 1) \div 2], "key">>
    BY <1>3, <2>3
  <2> QED
    BY <2>1, <2>2, <2>3, <2>4, DeploymentAssumption
<1>7. \A i \in 1..(2 * (n + 1)) : Outputs[i] \in ToSet(Outputs)
  BY <1>4 DEF ToSet
<1> QED
  BY <1>1, <1>4, <1>5, <1>6, <1>7

\* The authority is the first of them.
LEMMA OutputsStart ==
  /\ Len(Outputs) \in Nat /\ 1 \in 1..Len(Outputs) /\ 2 \in 1..Len(Outputs)
  /\ Outputs[1] = Ca("key") /\ Outputs[2] = CaCertificate
  /\ \A i \in 1..Len(Outputs) : i \in Nat /\ i # 0
BY OutputsShape

\* A process has a server besides its clients.
LEMMA RolesShape ==
  ASSUME NEW s \in Names
  PROVE  /\ Dials[s] \in Seq(Names \ Edge)
         /\ Len(Dials[s]) \in Nat /\ Len(Roles(s)) = Len(Dials[s]) + 1
         /\ \A i \in 1..Len(Dials[s]) : Roles(s)[i] \in Names \ Edge
<1>1. Dials[s] \in Seq(Names \ Edge)
  BY DeploymentAssumption
<1> QED
  BY <1>1 DEF Roles

-----------------------------------------------------------------------------
(* The steps of the script *)

\* At first there is nothing.
LEMMA InvInitially == Init => Inv
<1> SUFFICES ASSUME Init
             PROVE  Inv
  OBVIOUS
<1> USE DEF Init
<1>1. DOMAIN files = {}
  OBVIOUS
<1>2. TypeOK
  <2>1. \A s \in Names : /\ loaded[s] = << >> /\ pair[s] = None
                          /\ Len(Roles(s)) # 0 /\ 0 <= Len(Roles(s)) /\ Len(loaded[s]) = 0
    BY RolesShape
  <2>2. /\ DOMAIN files \subseteq ToSet(Outputs) /\ \A f \in DOMAIN files : files[f] \in Content
        /\ at \in 0..Len(Outputs) /\ runs \in 0..MaxRuns
        /\ cleans \in 0..MaxCleans /\ crashes \in 0..MaxCrashes
    BY <1>1, OutputsShape, DeploymentAssumption
  <2>3. << >> \in Seq(Identities)
    OBVIOUS
  <2> QED
    BY <2>1, <2>2, <2>3 DEF TypeOK
<1>3. ProcessesKept
  BY DEF ProcessesKept
<1>4. FilesAreKinds /\ OneAuthority /\ FilledUnlessStopped
  BY <1>1 DEF FilesAreKinds, OneAuthority, FilledUnlessStopped, Readable
<1>5. RunSoFar
  BY <1>1, OutputsShape DEF RunSoFar
<1>6. PairsAreOfNow /\ IdentitiesAreOfNow /\ IdentitiesAgree /\ OthersHaveAuthority
  BY DEF PairsAreOfNow, IdentitiesAreOfNow, IdentitiesAgree, OthersHaveAuthority
<1> QED
  BY <1>2, <1>3, <1>4, <1>5, <1>6 DEF Inv

\* What processes have read stays as it is while the authority does.
LEMMA ProcessesAlone ==
  ASSUME Inv, UNCHANGED <<cleans, pair, loaded>>,
         Readable(CaCertificate) =>
           Readable(CaCertificate)' /\ files'[CaCertificate] = files[CaCertificate]
  PROVE  /\ ProcessesKept' /\ PairsAreOfNow' /\ IdentitiesAreOfNow'
         /\ IdentitiesAgree' /\ OthersHaveAuthority'
<1> USE DEF Inv
<1>1. ProcessesKept' /\ OthersHaveAuthority'
  BY DEF ProcessesKept, OthersHaveAuthority, Roles
<1>2. PairsAreOfNow'
  BY DEF PairsAreOfNow
<1>3. IdentitiesAreOfNow'
  BY DEF IdentitiesAreOfNow, Whole
<1>4. IdentitiesAgree'
  BY DEF IdentitiesAgree
<1> QED
  BY <1>1, <1>2, <1>3, <1>4

\* The directory stays as it is while processes read it.
LEMMA FilesAlone ==
  ASSUME Inv, UNCHANGED script
  PROVE  FilesAreKinds' /\ RunSoFar' /\ OneAuthority' /\ FilledUnlessStopped'
<1> USE DEF Inv, script
<1>1. FilesAreKinds' /\ RunSoFar'
  BY DEF FilesAreKinds, RunSoFar, Readable
<1>2. OneAuthority' /\ FilledUnlessStopped'
  BY DEF OneAuthority, FilledUnlessStopped, Complete, Readable
<1> QED
  BY <1>1, <1>2

\* The script finds an authority and says so; or it begins a run.
LEMMA BeginKeepsInv ==
  ASSUME Inv, SkipWork \/ Generate
  PROVE  Inv'
<1> USE DEF Inv
<1>1. UNCHANGED <<files, cleans, stopped, database, stage, pair, loaded, crashes>>
  BY DEF SkipWork, Generate, processes
<1>2. CASE SkipWork
  <2> USE <1>2 DEF SkipWork
  <2>1. TypeOK'
    BY <1>1 DEF TypeOK
  <2>2. FilesAreKinds' /\ RunSoFar' /\ OneAuthority'
    BY <1>1 DEF FilesAreKinds, RunSoFar, OneAuthority, Readable
  <2>3. FilledUnlessStopped'
    BY <1>1 DEF FilledUnlessStopped, Present, Complete, Readable
  <2> QED
    BY <1>1, <2>1, <2>2, <2>3, ProcessesAlone DEF Readable
<1>3. CASE Generate
  <2> USE <1>3 DEF Generate
  <2>1. runs \in Nat /\ runs' = runs + 1 /\ runs' \in 0..MaxRuns /\ at' = 1
    BY DeploymentAssumption DEF TypeOK
  <2>2. TypeOK'
    BY <1>1, <2>1, OutputsShape DEF TypeOK
  <2>3. FilesAreKinds'
    <3>1. 1..runs \subseteq 1..runs'
      BY <2>1
    <3> QED
      BY <1>1, <3>1 DEF FilesAreKinds
  <2>4. RunSoFar'
    BY <1>1, <2>1, OutputsShape DEF RunSoFar, Present
  <2>5. OneAuthority' /\ FilledUnlessStopped'
    BY <1>1, <2>1 DEF OneAuthority, FilledUnlessStopped, Readable
  <2> QED
    BY <1>1, <2>2, <2>3, <2>4, <2>5, ProcessesAlone DEF Readable
<1> QED
  BY <1>2, <1>3

\* The next file of the run is written: a key of the run, or a certificate for
\* the key beside it that the key of the authority signs.
LEMMA WriteStep ==
  ASSUME Inv, Write
  PROVE  LET f == Outputs[at]
         IN  /\ at \in 1..Len(Outputs)
             /\ DOMAIN files' = DOMAIN files \cup {f}
             /\ files'[f] # Torn
             /\ \A g \in DOMAIN files : g # f => files'[g] = files[g]
             /\ f[2] = "key" => files'[f] = Key(runs)
             /\ f[2] # "key" =>
                  /\ at >= 2
                  /\ \E n, m \in 1..runs :
                       /\ files'[f] = Certificate(n, m)
                       /\ n = files[<<f[1], "key">>].key
                       /\ m = files[Ca("key")].key
             /\ at' = (IF at = Len(Outputs) THEN 0 ELSE at + 1)
             /\ said' = (IF at = Len(Outputs) THEN "generated" ELSE "nothing")
             /\ runs \in 1..MaxRuns
             /\ UNCHANGED <<runs, cleans, stopped, database, stage, pair, loaded, crashes>>
<1> USE DEF Inv
<1>1. at \in 1..Len(Outputs) /\ runs \in 1..MaxRuns /\ said = "nothing"
  BY OutputsShape, DeploymentAssumption DEF Write, TypeOK, RunSoFar
<1>2. PICK f, c : f = Outputs[at] /\ c = Output(f)
  OBVIOUS
<1>3. /\ DOMAIN files' = DOMAIN files \cup {f}
      /\ files'[f] = Output(f)
      /\ \A g \in DOMAIN files : g # f => files'[g] = files[g]
  <2>1. files' = With(f, c)
    BY <1>2 DEF Write
  <2> QED
    BY <1>2, <2>1 DEF With
<1>4. f[2] = "key" => files'[f] = Key(runs)
  BY <1>3 DEF Output
<1>5. ASSUME f[2] # "key"
      PROVE  /\ at >= 2
             /\ \E n, m \in 1..runs :
                  /\ files'[f] = Certificate(n, m)
                  /\ n = files[<<f[1], "key">>].key
                  /\ m = files[Ca("key")].key
  <2>1. at # 1 /\ Outputs[at - 1] = <<f[1], "key">>
    BY <1>1, <1>2, <1>5, OutputsShape
  <2>2. at >= 2 /\ at - 1 \in 1..Len(Outputs) /\ 1 \in 1..Len(Outputs)
    BY <1>1, <2>1, OutputsShape
  <2>3. Readable(<<f[1], "key">>) /\ Readable(Ca("key"))
    BY <1>1, <2>1, <2>2, OutputsShape DEF RunSoFar
  <2>4. \A g : g[2] = "key" /\ Readable(g) => \E n \in 1..runs : files[g] = Key(n)
    BY DEF Readable, FilesAreKinds
  <2>5. \A g : g[2] = "key" /\ Readable(g) => files[g].key \in 1..runs
    BY <2>4, ContentFacts
  <2>6. files[<<f[1], "key">>].key \in 1..runs /\ files[Ca("key")].key \in 1..runs
    BY <2>3, <2>5 DEF Ca
  <2>7. files'[f] = Certificate(files[<<f[1], "key">>].key, files[Ca("key")].key)
    BY <1>3, <1>5 DEF Output
  <2> QED
    BY <2>2, <2>6, <2>7
<1>6. files'[f] # Torn
  BY <1>4, <1>5, ContentFacts
<1>7. /\ at' = (IF at = Len(Outputs) THEN 0 ELSE at + 1)
      /\ said' = (IF at = Len(Outputs) THEN "generated" ELSE "nothing")
      /\ UNCHANGED <<runs, cleans, stopped, database, stage, pair, loaded, crashes>>
  BY <1>1 DEF Write, Advance, processes
<1> QED
  BY <1>1, <1>2, <1>3, <1>4, <1>5, <1>6, <1>7

\* The next file of a run is written.
LEMMA WriteKeepsInv ==
  ASSUME Inv, Write
  PROVE  Inv'
<1> USE DEF Inv
<1>0. PICK f : f = Outputs[at]
  OBVIOUS
<1>1. /\ at \in 1..Len(Outputs)
      /\ DOMAIN files' = DOMAIN files \cup {f}
      /\ files'[f] # Torn
      /\ \A g \in DOMAIN files : g # f => files'[g] = files[g]
      /\ f[2] = "key" => files'[f] = Key(runs)
      /\ f[2] # "key" =>
           /\ at >= 2
           /\ \E n, m \in 1..runs :
                /\ files'[f] = Certificate(n, m)
                /\ n = files[<<f[1], "key">>].key
                /\ m = files[Ca("key")].key
      /\ at' = (IF at = Len(Outputs) THEN 0 ELSE at + 1)
      /\ said' = (IF at = Len(Outputs) THEN "generated" ELSE "nothing")
      /\ runs \in 1..MaxRuns
      /\ UNCHANGED <<runs, cleans, stopped, database, stage, pair, loaded, crashes>>
  BY <1>0, WriteStep
<1>2. /\ f \in ToSet(Outputs)
      /\ at = 1 => f = Ca("key")
      /\ at = 2 => f = CaCertificate
      /\ at > 2 => f[1] \in Names /\ f[1] # "ca"
  BY <1>0, <1>1, OutputsShape
<1>3. Len(Outputs) \in Nat /\ Len(Outputs) >= 2 /\ at \in Nat /\ at # 0
  BY <1>1, OutputsStart
<1>4. Readable(f)' /\ \A g : Readable(g) => Readable(g)'
  BY <1>1 DEF Readable
<1>5. at \in {1, 2} => CaCertificate \notin DOMAIN files
  BY DEF RunSoFar
<1>6. at > 2 => Readable(Ca("key")) /\ Readable(CaCertificate)
  BY <1>1, <1>3, OutputsStart DEF RunSoFar
<1>7. Ca("key") # CaCertificate /\ Ca("key")[1] = "ca" /\ CaCertificate[1] = "ca"
      /\ Ca("key")[2] = "key" /\ CaCertificate[2] = "crt"
  BY DEF Ca, CaCertificate
<1>8. Readable(CaCertificate) =>
        Readable(CaCertificate)' /\ files'[CaCertificate] = files[CaCertificate]
  BY <1>1, <1>2, <1>3, <1>4, <1>5, <1>7 DEF Readable
<1>9. TypeOK'
  <2>1. files'[f] \in Content
    <3>1. 1..runs \subseteq 1..MaxRuns
      BY <1>1, DeploymentAssumption
    <3> QED
      BY <1>1, <3>1 DEF Content
  <2>2. DOMAIN files' \subseteq ToSet(Outputs) /\ \A g \in DOMAIN files' : files'[g] \in Content
    BY <1>1, <1>2, <2>1 DEF TypeOK
  <2>3. at' \in 0..Len(Outputs) /\ said' \in {"nothing", "generated"}
    BY <1>1, <1>3
  <2> QED
    BY <1>1, <2>2, <2>3 DEF TypeOK
<1>10. FilesAreKinds'
  BY <1>1 DEF FilesAreKinds
<1>11. RunSoFar'
  <2>1. ASSUME NEW i \in 1..Len(Outputs), i < at'
        PROVE  Readable(Outputs[i])'
    <3>1. i < at \/ i = at
      BY <1>1, <1>3, <2>1
    <3> QED
      BY <1>0, <1>4, <3>1 DEF RunSoFar
  <2>2. at' \in {1, 2} => CaCertificate \notin DOMAIN files'
    BY <1>1, <1>2, <1>3, <1>5, <1>7
  <2>3. at' # 0 => runs' # 0 /\ said' = "nothing"
    BY <1>1, <1>3
  <2> QED
    BY <2>1, <2>2, <2>3 DEF RunSoFar
<1>12. OneAuthority'
  <2>1. CASE at = 1
    <3>1. \A g \in DOMAIN files' : g[1] = "ca" /\ g # CaCertificate
      BY <1>1, <1>2, <1>5, <1>7, <2>1 DEF OneAuthority, Readable
    <3>2. \A s \in Names : <<s, "crt">>[1] # "ca"
      BY DeploymentAssumption
    <3> QED
      BY <3>1, <3>2 DEF OneAuthority, Readable
  <2>2. CASE at = 2
    <3>1. \A g \in DOMAIN files' : g[1] = "ca"
      BY <1>1, <1>2, <1>5, <1>7, <2>2 DEF OneAuthority, Readable
    <3>2. \A s \in Names : <<s, "crt">>[1] # "ca"
      BY DeploymentAssumption
    <3>3. Readable(Ca("key"))
      BY <1>1, <1>3, <2>2, OutputsStart DEF RunSoFar
    <3>4. Readable(Ca("key"))' /\ files'[Ca("key")] = files[Ca("key")]
      BY <1>1, <1>2, <1>4, <1>7, <2>2, <3>3 DEF Readable
    <3>5. files'[CaCertificate].key = files[Ca("key")].key
      BY <1>1, <1>2, <1>7, <2>2, ContentFacts DEF Ca
    <3> QED
      BY <3>1, <3>2, <3>4, <3>5 DEF OneAuthority, Readable
  <2>3. CASE at > 2
    <3>1. /\ Readable(Ca("key"))' /\ files'[Ca("key")] = files[Ca("key")]
          /\ Readable(CaCertificate)' /\ files'[CaCertificate] = files[CaCertificate]
          /\ files[CaCertificate].key = files[Ca("key")].key
      BY <1>1, <1>2, <1>4, <1>6, <1>7, <1>8, <2>3 DEF Readable, OneAuthority
    <3>2. ASSUME NEW s \in Names, Readable(<<s, "crt">>)'
          PROVE  files'[<<s, "crt">>].signer = files[CaCertificate].key
      <4>1. CASE <<s, "crt">> = f
        <5>1. f[2] = "crt"
          BY <4>1
        <5> QED
          BY <1>1, <3>1, <4>1, <5>1, ContentFacts
      <4>2. CASE <<s, "crt">> # f
        BY <1>1, <3>2, <4>2 DEF Readable, OneAuthority
      <4> QED
        BY <4>1, <4>2
    <3> QED
      BY <3>1, <3>2 DEF OneAuthority
  <2> QED
    BY <1>1, <1>3, <2>1, <2>2, <2>3
<1>13. FilledUnlessStopped'
  <2>1. CASE at = Len(Outputs)
    <3>1. \A i \in 1..Len(Outputs) : i < at \/ i = at
      BY <1>3, <2>1
    <3>2. \A i \in 1..Len(Outputs) : Readable(Outputs[i])'
      BY <1>0, <1>4, <3>1 DEF RunSoFar
    <3>3. Complete'
      BY <3>2, OutputsShape DEF Complete
    <3> QED
      BY <1>1, <2>1, <3>3 DEF FilledUnlessStopped
  <2>2. CASE at # Len(Outputs)
    BY <1>1, <1>3, <2>2 DEF FilledUnlessStopped
  <2> QED
    BY <2>1, <2>2
<1> QED
  BY <1>1, <1>8, <1>9, <1>10, <1>11, <1>12, <1>13, ProcessesAlone

\* A run fails or is stopped, and may leave a torn file.
LEMMA StopKeepsInv ==
  ASSUME Inv, Stop
  PROVE  Inv'
<1> USE DEF Inv
<1>0. PICK f : f = Outputs[at]
  OBVIOUS
<1>1. /\ at \in 1..Len(Outputs) /\ runs # 0
      /\ files' \in {files, With(f, Torn)}
      /\ stopped' = TRUE /\ at' = 0 /\ said' = "stopped"
      /\ UNCHANGED <<runs, cleans, database, stage, pair, loaded, crashes>>
  BY <1>0, OutputsStart DEF Stop, processes, TypeOK, RunSoFar
<1>2. /\ f \in ToSet(Outputs)
      /\ at = 1 => f = Ca("key")
      /\ at = 2 => f = CaCertificate
      /\ at > 2 => f[1] \in Names /\ f[1] # "ca"
  BY <1>0, <1>1, OutputsShape
<1>3. Len(Outputs) \in Nat /\ Len(Outputs) >= 2 /\ at \in Nat /\ at # 0
  BY <1>1, OutputsStart
<1>4. \/ files' = files
      \/ /\ DOMAIN files' = DOMAIN files \cup {f}
         /\ files'[f] = Torn
         /\ \A g \in DOMAIN files : g # f => files'[g] = files[g]
  BY <1>1 DEF With
<1>5. \A g : Readable(g)' => Readable(g) /\ files'[g] = files[g]
  BY <1>4 DEF Readable
<1>6. at \in {1, 2} => CaCertificate \notin DOMAIN files
  BY DEF RunSoFar
<1>7. at > 2 => Readable(Ca("key")) /\ Readable(CaCertificate)
  BY <1>1, <1>3, OutputsStart DEF RunSoFar
<1>8. Ca("key")[1] = "ca" /\ CaCertificate[1] = "ca"
  BY DEF Ca, CaCertificate
<1>9. \A g : g[1] = "ca" /\ Readable(g) /\ Readable(CaCertificate) => Readable(g)' /\ files'[g] = files[g]
  BY <1>1, <1>2, <1>3, <1>4, <1>6 DEF Readable
<1>10. TypeOK'
  <2>1. Torn \in Content
    BY DEF Content
  <2> QED
    BY <1>1, <1>2, <1>3, <1>4, <2>1 DEF TypeOK
<1>11. FilesAreKinds'
  BY <1>1, <1>4 DEF FilesAreKinds
<1>12. RunSoFar'
  BY <1>1, <1>3 DEF RunSoFar
<1>13. OneAuthority'
  <2>1. \A s \in Names : <<s, "crt">>[1] # "ca"
    BY DeploymentAssumption
  <2>2. ASSUME NEW g \in DOMAIN files', g[1] # "ca"
        PROVE  Readable(CaCertificate)'
    <3>1. Readable(CaCertificate)
      BY <1>1, <1>2, <1>3, <1>4, <1>7, <1>8, <2>2, OutputsShape DEF OneAuthority
    <3> QED
      BY <1>8, <1>9, <3>1
  <2>3. Readable(CaCertificate)' =>
          Readable(Ca("key"))' /\ files'[CaCertificate].key = files'[Ca("key")].key
    BY <1>5, <1>8, <1>9 DEF OneAuthority
  <2>4. ASSUME NEW s \in Names, Readable(<<s, "crt">>)'
        PROVE  files'[<<s, "crt">>].signer = files'[CaCertificate].key
    <3>1. Readable(<<s, "crt">>) /\ files'[<<s, "crt">>] = files[<<s, "crt">>]
      BY <1>5, <2>4
    <3>2. Readable(CaCertificate)
      BY <2>1, <3>1 DEF OneAuthority, Readable
    <3> QED
      BY <1>8, <1>9, <3>1, <3>2 DEF OneAuthority
  <2> QED
    BY <2>2, <2>3, <2>4 DEF OneAuthority
<1>14. FilledUnlessStopped'
  BY <1>1 DEF FilledUnlessStopped
<1> QED
  BY <1>1, <1>8, <1>9, <1>10, <1>11, <1>12, <1>13, <1>14, ProcessesAlone

\* An identity that is held has a type.
LEMMA LoadedType ==
  ASSUME TypeOK, NEW s \in Names, NEW i \in 1..Len(loaded[s])
  PROVE  loaded[s][i] \in Identities
<1>1. loaded[s] \in Seq(Identities)
  BY DEF TypeOK
<1> QED
  BY <1>1

\* The directory is removed: what was read from it is of an earlier one.
LEMMA CleanKeepsInv ==
  ASSUME Inv, Clean
  PROVE  Inv'
<1> USE DEF Inv
<1>1. /\ cleans \in Nat /\ cleans' = cleans + 1 /\ cleans' \in 0..MaxCleans
      /\ DOMAIN files' = {} /\ at' = 0 /\ said' \in {"nothing", "stopped"} /\ stopped' = FALSE
      /\ UNCHANGED <<runs, database, stage, pair, loaded, crashes>>
  BY DeploymentAssumption DEF Clean, TypeOK, processes
<1>2. TypeOK'
  <2>1. at' \in 0..Len(Outputs) /\ DOMAIN files' \subseteq ToSet(Outputs)
        /\ \A f \in DOMAIN files' : files'[f] \in Content
    BY <1>1, OutputsStart
  <2> QED
    BY <1>1, <2>1 DEF TypeOK, Roles
<1>3. FilesAreKinds' /\ OneAuthority' /\ FilledUnlessStopped'
  BY <1>1 DEF FilesAreKinds, OneAuthority, FilledUnlessStopped, Readable
<1>4. RunSoFar'
  BY <1>1, OutputsStart DEF RunSoFar
<1>5. ProcessesKept' /\ OthersHaveAuthority'
  BY <1>1 DEF ProcessesKept, OthersHaveAuthority, Roles
<1>6. IdentitiesAgree'
  BY <1>1 DEF IdentitiesAgree
<1>7. PairsAreOfNow'
  <2>1. \A s \in Names : pair[s] # None => pair[s].since \in Nat /\ pair[s].since <= cleans
    BY DeploymentAssumption DEF TypeOK, PairsAreOfNow
  <2>2. \A n \in Nat : n <= cleans => n <= cleans' /\ n # cleans'
    BY <1>1
  <2> QED
    BY <1>1, <2>1, <2>2 DEF PairsAreOfNow
<1>8. IdentitiesAreOfNow'
  <2>1. \A s \in Names : \A i \in 1..Len(loaded[s]) :
          loaded[s][i].until \in Nat /\ loaded[s][i].until <= cleans
    BY LoadedType, DeploymentAssumption DEF Identities, IdentitiesAreOfNow
  <2>2. \A n \in Nat : n <= cleans => n <= cleans' /\ n # cleans'
    BY <1>1
  <2> QED
    BY <1>1, <2>1, <2>2 DEF IdentitiesAreOfNow, Whole
<1> QED
  BY <1>2, <1>3, <1>4, <1>5, <1>6, <1>7, <1>8

\* A database goes up or down.
LEMMA DatabaseKeepsInv ==
  ASSUME Inv, NEW s \in Stateful, DatabaseChanges(s)
  PROVE  Inv'
<1> USE DEF Inv
<1>1. UNCHANGED script /\ UNCHANGED <<stage, pair, loaded, crashes>>
      /\ database' \in [Stateful -> {"up", "down"}]
  BY DEF DatabaseChanges, processes, TypeOK
<1>2. TypeOK'
  BY <1>1 DEF TypeOK, script
<1> QED
  BY <1>1, <1>2, FilesAlone, ProcessesAlone DEF script, Readable

-----------------------------------------------------------------------------
(* The steps of a process *)

\* A process starts, and connects to its database.
LEMMA StartKeepsInv ==
  ASSUME Inv, NEW s \in Names, Start(s) \/ Connect(s)
  PROVE  Inv'
<1> USE DEF Inv
<1>1. UNCHANGED script /\ UNCHANGED <<database, pair, loaded, crashes>>
  BY DEF Start, Connect
<1>2. PICK g \in {"connecting", "loading"} : stage' = [stage EXCEPT ![s] = g]
  BY DEF Start, Connect
<1>3. loaded[s] = << >> /\ Len(loaded[s]) = 0 /\ Len(Roles(s)) # 0
  BY RolesShape DEF Start, Connect, TypeOK
<1>4. TypeOK'
  <2>1. stage' \in [Names -> {"exited", "connecting", "loading", "serving"}]
    BY <1>2 DEF TypeOK
  <2>2. \A t \in Names : stage'[t] = IF t = s THEN g ELSE stage[t]
    BY <1>2 DEF TypeOK
  <2>3. \A t \in Names :
          /\ stage'[t] = "serving" <=> Len(loaded[t]) = Len(Roles(t))
          /\ stage'[t] \in {"exited", "connecting"} => loaded[t] = << >>
    BY <1>3, <2>2 DEF TypeOK
  <2> QED
    BY <1>1, <2>1, <2>3 DEF TypeOK, script, Roles
<1> QED
  BY <1>1, <1>4, FilesAlone, ProcessesAlone DEF script, Readable

\* A process exits: what it held is gone.
LEMMA ExitKeepsInv ==
  ASSUME Inv, NEW s \in Names, Exit(s), UNCHANGED <<script, database>>,
         crashes' \in 0..MaxCrashes
  PROVE  Inv'
<1> USE DEF Inv
<1>1. UNCHANGED script
  OBVIOUS
<1>2. \A t \in Names : /\ stage'[t] = IF t = s THEN "exited" ELSE stage[t]
                       /\ pair'[t] = IF t = s THEN None ELSE pair[t]
                       /\ loaded'[t] = IF t = s THEN << >> ELSE loaded[t]
  BY DEF Exit, TypeOK, ProcessesKept
<1>3. Len(Roles(s)) # 0 /\ 0 <= Len(Roles(s)) /\ << >> \in Seq(Identities)
  BY RolesShape
<1>4. TypeOK'
  <2>1. stage' \in [Names -> {"exited", "connecting", "loading", "serving"}]
    BY DEF Exit, TypeOK
  <2>2. ASSUME NEW t \in Names
        PROVE  /\ pair'[t] \in [signer : 1..MaxRuns, since : 0..MaxCleans] \cup {None}
               /\ loaded'[t] \in Seq(Identities)
               /\ Len(loaded'[t]) <= Len(Roles(t))
               /\ stage'[t] = "serving" <=> Len(loaded'[t]) = Len(Roles(t))
               /\ stage'[t] \in {"exited", "connecting"} => loaded'[t] = << >>
    <3>1. CASE t = s
      BY <1>2, <1>3, <3>1
    <3>2. CASE t # s
      BY <1>2, <3>2 DEF TypeOK
    <3> QED
      BY <3>1, <3>2
  <2> QED
    BY <2>1, <2>2 DEF TypeOK, script, Roles
<1>5. ProcessesKept'
  BY DEF Exit, ProcessesKept
<1>6. \A t \in Names : \A i \in 1..Len(loaded'[t]) :
        t # s /\ loaded'[t] = loaded[t] /\ i \in 1..Len(loaded[t])
  BY <1>2
<1>7. PairsAreOfNow'
  BY <1>1, <1>2 DEF PairsAreOfNow, script, Readable
<1>8. IdentitiesAreOfNow'
  BY <1>1, <1>6 DEF IdentitiesAreOfNow, script, Readable, Whole
<1>9. IdentitiesAgree'
  BY <1>6 DEF IdentitiesAgree
<1>10. OthersHaveAuthority'
  BY <1>6 DEF OthersHaveAuthority, Roles
<1> QED
  BY <1>1, <1>4, <1>5, <1>7, <1>8, <1>9, <1>10, FilesAlone

\* A process comes to hold one more identity, of the authority of this moment.
LEMMA HoldsKeepsInv ==
  ASSUME Inv, NEW s \in Names, stage[s] = "loading",
         NEW read \in [signer : 1..MaxRuns, since : 0..MaxCleans], read.since <= cleans,
         read.since = cleans =>
           Readable(CaCertificate) /\ read.signer = files[CaCertificate].key,
         NEW authority \in (1..MaxRuns) \cup {None},
         authority = None => ~NeedsAuthority(s),
         authority # None => Readable(CaCertificate) /\ authority = files[CaCertificate].key,
         Holds(s, Identity(read, authority)),
         pair' \in {pair, [pair EXCEPT ![s] = None]},
         UNCHANGED <<script, database, crashes>>
  PROVE  Inv'
<1> USE DEF Inv
<1>1. UNCHANGED script
  OBVIOUS
<1>2. PICK id : id = Identity(read, authority)
  OBVIOUS
<1>3. /\ id.signer = read.signer /\ id.since = read.since
      /\ id.authority = authority /\ id.until = cleans
      /\ id \in Identities
  <2>1. cleans \in 0..MaxCleans
    BY DEF TypeOK
  <2> QED
    BY <1>2, <2>1 DEF Identity, Identities
<1>4. /\ loaded[s] \in Seq(Identities) /\ Len(loaded[s]) <= Len(Roles(s))
      /\ Len(loaded[s]) # Len(Roles(s))
      /\ Len(Roles(s)) \in Nat
  BY RolesShape DEF TypeOK
<1> DEFINE n == Len(loaded[s]) + 1
<1>5. /\ n \in Nat /\ n <= Len(Roles(s))
      /\ loaded'[s] = Append(loaded[s], id)
      /\ loaded'[s] \in Seq(Identities) /\ Len(loaded'[s]) = n
      /\ loaded'[s][n] = id
      /\ \A i \in 1..n : i # n => i \in 1..Len(loaded[s]) /\ loaded'[s][i] = loaded[s][i]
  <2>1. loaded' = [loaded EXCEPT ![s] = Append(loaded[s], id)]
    BY <1>2 DEF Holds
  <2>2. loaded'[s] = Append(loaded[s], id)
    BY <2>1 DEF ProcessesKept
  <2> QED
    BY <1>3, <1>4, <2>2
<1>6. \A t \in Names : t # s => loaded'[t] = loaded[t]
  BY <1>2 DEF Holds, ProcessesKept
<1>7. \A t \in Names : stage'[t] = IF t = s /\ n = Len(Roles(s)) THEN "serving" ELSE stage[t]
  BY DEF Holds, TypeOK
<1>8. \A t \in Names : pair'[t] = pair[t] \/ pair'[t] = None
  BY DEF ProcessesKept
<1> HIDE DEF n
<1>9. TypeOK'
  <2>1. stage' \in [Names -> {"exited", "connecting", "loading", "serving"}]
    BY DEF Holds, TypeOK
  <2>2. ASSUME NEW t \in Names
        PROVE  /\ pair'[t] \in [signer : 1..MaxRuns, since : 0..MaxCleans] \cup {None}
               /\ loaded'[t] \in Seq(Identities)
               /\ Len(loaded'[t]) <= Len(Roles(t))
               /\ stage'[t] = "serving" <=> Len(loaded'[t]) = Len(Roles(t))
               /\ stage'[t] \in {"exited", "connecting"} => loaded'[t] = << >>
    <3>1. CASE t = s
      BY <1>5, <1>7, <1>8, <3>1 DEF TypeOK
    <3>2. CASE t # s
      BY <1>6, <1>7, <1>8, <3>2 DEF TypeOK
    <3> QED
      BY <3>1, <3>2
  <2> QED
    BY <2>1, <2>2 DEF TypeOK, script, Roles
<1>10. ProcessesKept'
  BY DEF Holds, ProcessesKept
<1>11. PairsAreOfNow'
  BY <1>1, <1>8 DEF PairsAreOfNow, script, Readable
<1>12. \A t \in Names : \A i \in 1..Len(loaded'[t]) :
         \/ t = s /\ i = n /\ loaded'[t][i] = id
         \/ i \in 1..Len(loaded[t]) /\ loaded'[t][i] = loaded[t][i]
  BY <1>5, <1>6
<1>13. cleans \in Nat
  BY DeploymentAssumption DEF TypeOK
<1>14. IdentitiesAreOfNow'
  <2>1. /\ id.until <= cleans
        /\ Whole(id) /\ id.since = cleans =>
             /\ Readable(CaCertificate)
             /\ id.signer = files[CaCertificate].key
             /\ id.authority \in {id.signer, None}
    BY <1>3, <1>13
  <2>2. UNCHANGED <<files, cleans>>
    BY <1>1 DEF script
  <2>3. ASSUME NEW t \in Names, NEW i \in 1..Len(loaded'[t]), NEW x, x = loaded'[t][i]
        PROVE  /\ x.until <= cleans
               /\ Whole(x) /\ x.since = cleans =>
                    /\ Readable(CaCertificate)
                    /\ x.signer = files[CaCertificate].key
                    /\ x.authority \in {x.signer, None}
    <3>1. CASE x = id
      BY <2>1, <3>1
    <3>2. CASE i \in 1..Len(loaded[t]) /\ x = loaded[t][i]
      BY <3>2 DEF IdentitiesAreOfNow
    <3> QED
      BY <1>12, <2>3, <3>1, <3>2
  <2> QED
    BY <2>2, <2>3 DEF IdentitiesAreOfNow, Readable
<1>15. IdentitiesAgree'
  <2>1. ASSUME NEW t \in Names, NEW i \in 1..Len(loaded[t]), Whole(loaded[t][i]), Whole(id),
               loaded[t][i].since = id.since
        PROVE  /\ loaded[t][i].signer = id.signer
               /\ loaded[t][i].authority \in {id.signer, None}
               /\ id.authority \in {id.signer, None}
    <3>1. id.since = cleans
      BY <1>3, <2>1 DEF Whole
    <3> QED
      BY <1>3, <2>1, <3>1 DEF IdentitiesAreOfNow
  <2>2. Whole(id) => id.authority \in {id.signer, None}
    BY <1>3 DEF Whole
  <2>3. ASSUME NEW t \in Names, NEW u \in Names,
               NEW i \in 1..Len(loaded'[t]), NEW j \in 1..Len(loaded'[u]),
               NEW x, x = loaded'[t][i], NEW y, y = loaded'[u][j],
               Whole(x), Whole(y), x.since = y.since
        PROVE  x.signer = y.signer /\ x.authority \in {y.signer, None}
    <3>1. x = id \/ (i \in 1..Len(loaded[t]) /\ x = loaded[t][i])
      BY <1>12, <2>3
    <3>2. y = id \/ (j \in 1..Len(loaded[u]) /\ y = loaded[u][j])
      BY <1>12, <2>3
    <3>3. CASE x = id /\ y = id
      BY <2>2, <2>3, <3>3
    <3>4. CASE x = id /\ j \in 1..Len(loaded[u]) /\ y = loaded[u][j]
      BY <2>1, <2>3, <3>4
    <3>5. CASE y = id /\ i \in 1..Len(loaded[t]) /\ x = loaded[t][i]
      BY <2>1, <2>3, <3>5
    <3>6. CASE /\ i \in 1..Len(loaded[t]) /\ x = loaded[t][i]
               /\ j \in 1..Len(loaded[u]) /\ y = loaded[u][j]
      BY <2>3, <3>6 DEF IdentitiesAgree
    <3> QED
      BY <3>1, <3>2, <3>3, <3>4, <3>5, <3>6
  <2> QED
    BY <2>3 DEF IdentitiesAgree
<1>16. OthersHaveAuthority'
  <2>1. id.authority = None => s \in Edge /\ n = Len(Roles(s))
    BY <1>3 DEF NeedsAuthority, n
  <2> QED
    BY <1>12, <2>1 DEF OthersHaveAuthority, Roles
<1> QED
  BY <1>1, <1>9, <1>10, <1>11, <1>14, <1>15, <1>16, FilesAlone

\* A process reads its certificate and key, or the authority, or is killed.
LEMMA ProcessKeepsInv ==
  ASSUME Inv, NEW s \in Names, LoadPair(s) \/ LoadAuthority(s) \/ Crash(s)
  PROVE  Inv'
<1> USE DEF Inv
<1>1. CASE Exit(s) /\ UNCHANGED <<script, database>> /\ crashes' \in 0..MaxCrashes
  BY <1>1, ExitKeepsInv
<1>2. CASE Crash(s)
  <2>1. crashes' \in 0..MaxCrashes
    BY <1>2, DeploymentAssumption DEF Crash, TypeOK
  <2> QED
    BY <1>1, <1>2, <2>1 DEF Crash
<1>3. crashes \in 0..MaxCrashes /\ cleans \in 0..MaxCleans /\ cleans \in Nat
  BY DeploymentAssumption DEF TypeOK
<1>4. CASE LoadPair(s)
  <2> DEFINE read == [signer |-> files[<<s, "crt">>].signer, since |-> cleans]
  <2>1. CASE ~PairFits(s)
    <3>1. Exit(s) /\ UNCHANGED <<script, database, crashes>>
      BY <1>4, <2>1 DEF LoadPair
    <3> QED
      BY <1>1, <1>3, <3>1
  <2>2. CASE PairFits(s)
    <3>1. Readable(<<s, "crt">>) /\ <<s, "crt">>[1] # "ca"
      BY <2>2, DeploymentAssumption DEF PairFits
    <3>2. Readable(CaCertificate) /\ files[<<s, "crt">>].signer = files[CaCertificate].key
      BY <3>1 DEF OneAuthority, Readable
    <3>3. files[<<s, "crt">>].signer \in 1..MaxRuns
      <4>1. PICK n \in 1..runs, m \in 1..runs : files[<<s, "crt">>] = Certificate(n, m)
        BY <3>1 DEF FilesAreKinds, Readable
      <4>2. m \in 1..MaxRuns
        BY DeploymentAssumption DEF TypeOK
      <4> QED
        BY <4>1, <4>2, ContentFacts
    <3>4. /\ read \in [signer : 1..MaxRuns, since : 0..MaxCleans]
          /\ read.since <= cleans /\ read.signer = files[CaCertificate].key
          /\ read.since = cleans
      BY <1>3, <3>2, <3>3
    <3>5. CASE NeedsAuthority(s)
      <4>1. /\ pair' = [pair EXCEPT ![s] = read]
            /\ UNCHANGED <<stage, loaded, database, crashes>> /\ UNCHANGED script
        BY <1>4, <2>2, <3>5 DEF LoadPair
      <4> HIDE DEF read
      <4>2. \A t \in Names : pair'[t] = IF t = s THEN read ELSE pair[t]
        BY <4>1 DEF ProcessesKept
      <4>3. TypeOK'
        BY <3>4, <4>1, <4>2 DEF TypeOK, script, Roles
      <4>4. ProcessesKept' /\ IdentitiesAgree' /\ OthersHaveAuthority'
        BY <4>1 DEF ProcessesKept, IdentitiesAgree, OthersHaveAuthority, Roles
      <4>5. PairsAreOfNow'
        BY <3>2, <3>4, <4>1, <4>2 DEF PairsAreOfNow, script, Readable
      <4>6. IdentitiesAreOfNow'
        BY <4>1 DEF IdentitiesAreOfNow, script, Readable
      <4> QED
        BY <4>1, <4>3, <4>4, <4>5, <4>6, FilesAlone
    <3>6. CASE ~NeedsAuthority(s)
      <4>1. /\ Holds(s, Identity(read, None)) /\ pair' = pair /\ stage[s] = "loading"
            /\ UNCHANGED <<script, database, crashes>>
        BY <1>4, <2>2, <3>6 DEF LoadPair
      <4> HIDE DEF read
      <4> QED
        BY <3>2, <3>4, <3>6, <4>1, HoldsKeepsInv
    <3> QED
      BY <3>5, <3>6
  <2> QED
    BY <2>1, <2>2
<1>5. CASE LoadAuthority(s)
  <2>1. CASE ~Readable(CaCertificate)
    <3>1. Exit(s) /\ UNCHANGED <<script, database, crashes>>
      BY <1>5, <2>1 DEF LoadAuthority
    <3> QED
      BY <1>1, <1>3, <3>1
  <2>2. CASE Readable(CaCertificate)
    <3>1. PICK read, authority : read = pair[s] /\ authority = files[CaCertificate].key
      OBVIOUS
    <3>2. /\ Holds(s, Identity(read, authority)) /\ stage[s] = "loading"
          /\ pair' = [pair EXCEPT ![s] = None] /\ read # None
          /\ UNCHANGED <<script, database, crashes>>
      BY <1>5, <2>2, <3>1 DEF LoadAuthority
    <3>3. read \in [signer : 1..MaxRuns, since : 0..MaxCleans] /\ read.since <= cleans
      BY <3>1, <3>2 DEF TypeOK, PairsAreOfNow
    <3>4. read.since = cleans =>
            Readable(CaCertificate) /\ read.signer = files[CaCertificate].key
      BY <3>1, <3>2 DEF PairsAreOfNow
    <3>5. authority \in 1..MaxRuns /\ authority # None
      <4>1. CaCertificate[2] # "key"
        BY DEF CaCertificate, Ca
      <4>2. PICK n \in 1..runs, m \in 1..runs : files[CaCertificate] = Certificate(n, m)
        BY <2>2, <4>1 DEF FilesAreKinds, Readable
      <4>3. n \in 1..MaxRuns /\ n \in Nat
        BY DeploymentAssumption DEF TypeOK
      <4> QED
        BY <3>1, <4>2, <4>3, ContentFacts, DeploymentAssumption
    <3> QED
      BY <2>2, <3>1, <3>2, <3>3, <3>4, <3>5, HoldsKeepsInv
  <2> QED
    BY <2>1, <2>2
<1> QED
  BY <1>2, <1>4, <1>5

\* Nothing moves, nothing changes.
LEMMA StutterKeepsInv ==
  ASSUME Inv, UNCHANGED vars
  PROVE  Inv'
<1> USE DEF Inv
<1>1. UNCHANGED script /\ UNCHANGED <<database, stage, pair, loaded, crashes>>
  BY DEF vars, script
<1>2. TypeOK'
  BY <1>1 DEF TypeOK, script, Roles
<1> QED
  BY <1>1, <1>2, FilesAlone, ProcessesAlone DEF script, Readable

-----------------------------------------------------------------------------
(* Theorems *)

\* The invariant holds in every reachable state.
THEOREM Invariance == Spec => []Inv
<1>1. Inv /\ [Next]_vars => Inv'
  <2> SUFFICES ASSUME Inv, [Next]_vars
               PROVE  Inv'
    OBVIOUS
  <2>1. CASE Script
    BY <2>1, BeginKeepsInv, WriteKeepsInv, StopKeepsInv, CleanKeepsInv DEF Script
  <2>2. ASSUME NEW s \in Stateful, DatabaseChanges(s)
        PROVE  Inv'
    BY <2>2, DatabaseKeepsInv
  <2>3. ASSUME NEW s \in Names, Goes(s) \/ Crash(s)
        PROVE  Inv'
    BY <2>3, StartKeepsInv, ProcessKeepsInv DEF Goes
  <2> QED
    BY <2>1, <2>2, <2>3, StutterKeepsInv DEF Next
<1> QED
  BY InvInitially, <1>1, PTL DEF Spec

\* Every variable keeps its type, and a process serves with all it needs.
THEOREM TypeCorrect == Spec => []TypeOK
<1>1. Inv => TypeOK
  BY DEF Inv
<1> QED
  BY Invariance, <1>1, PTL

\* A client and a server that read one directory trust each other.
THEOREM TrustCorrect == Spec => []PeersTrust
<1>1. Inv => PeersTrust
  <2> SUFFICES ASSUME Inv, NEW s \in Names, NEW i \in 1..Len(loaded[s]),
                      NEW peer, peer = Roles(s)[i],
                      i <= Len(Dials[s]), stage[peer] = "serving",
                      NEW client, client = loaded[s][i],
                      NEW server, server = Last(loaded[peer]),
                      Whole(client), Whole(server), client.since = server.since
               PROVE  Trust(client, server)
    BY DEF PeersTrust
  <2> USE DEF Inv
  <2>1. /\ i \in 1..Len(Dials[s]) /\ i # Len(Roles(s)) /\ peer \in Names \ Edge
    BY RolesShape DEF TypeOK
  <2>2. PICK j : j = Len(loaded[peer])
    OBVIOUS
  <2>3. /\ j \in 1..Len(loaded[peer]) /\ server = loaded[peer][j]
    <3>1. /\ loaded[peer] \in Seq(Identities)
          /\ Len(loaded[peer]) = Len(Roles(peer))
      BY <2>1 DEF TypeOK
    <3>2. j \in Nat /\ j # 0
      BY <2>1, <2>2, <3>1, RolesShape
    <3> QED
      BY <2>2, <3>1, <3>2 DEF Last
  <2>4. client.authority # None /\ server.authority # None
    BY <2>1, <2>3 DEF OthersHaveAuthority
  <2>5. client.signer = server.signer /\ client.authority \in {server.signer, None}
        /\ server.authority \in {client.signer, None}
    BY <2>1, <2>3 DEF IdentitiesAgree
  <2> QED
    BY <2>4, <2>5 DEF Trust
<1> QED
  BY Invariance, <1>1, PTL

\* What the script says of the files is so, unless a run failed before.
THEOREM ReportsCorrect == Spec => []SaidMeansThere
<1>1. Inv => SaidMeansThere
  BY DEF Inv, FilledUnlessStopped, SaidMeansThere
<1> QED
  BY Invariance, <1>1, PTL
=============================================================================
