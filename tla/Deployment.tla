------------------------------ MODULE Deployment ------------------------------
(***************************************************************************)
(* Starting the system: the script that makes the certificates               *)
(* (scripts/gen-certs.sh), the identities that processes load from them      *)
(* (tlsconfig), and the life of a process from its start to its listener     *)
(* (the main functions, ListenGRPC, NewClient), with the restarts that       *)
(* docker-compose.yml asks for.                                              *)
(*                                                                          *)
(* A process reads the files at moments of its own, once for each client and *)
(* once for its server, while the script may be at work, be stopped, or the  *)
(* directory be removed.                                                     *)
(***************************************************************************)
EXTENDS Naturals, Sequences, SequencesExt, FiniteSets

CONSTANTS
    Services,       \* the services, in the order of the script
    Dials,          \* of each service, the services it makes clients of, in order
    Stateful,       \* the services that have a database
    Edge,           \* the services that serve HTTPS to browsers, not gRPC
    None,
    MaxRuns,        \* bound: how often certificates are generated
    MaxCleans,      \* bound: how often the directory is removed
    MaxCrashes      \* bound: how often a process is killed

VARIABLES
    files,          \* the directory certs
    at,             \* the file the script makes next, 0 when it does not run
    said,           \* what its last run came to
    runs,           \* how many runs generated anything
    cleans,         \* how often the directory was removed
    stopped,        \* history: a run failed or was stopped since then
    database,       \* of each stateful service: up or down
    stage,          \* of each process: exited, connecting, loading or serving
    pair,           \* the certificate a process has read, and not yet the authority
    loaded,         \* the identities it has, its clients' first and its server's last
    crashes         \* how often a process was killed

script    == <<files, at, said, runs, cleans, stopped>>
processes == <<stage, pair, loaded, crashes>>
vars      == <<files, at, said, runs, cleans, stopped, database, stage, pair, loaded, crashes>>

Names == ToSet(Services)

ASSUME DeploymentAssumption ==
    /\ Services \in Seq(Names) /\ "ca" \notin Names
    /\ Stateful \subseteq Names /\ Edge \subseteq Names
    /\ Dials \in [Names -> Seq(Names \ Edge)]    \* what is dialled serves gRPC
    /\ MaxRuns \in Nat /\ MaxCleans \in Nat /\ MaxCrashes \in Nat
    /\ None \notin Nat /\ None \notin [signer : Nat, since : Nat]

(* Every service makes its clients first, then its server.                   *)
Roles(s) == Append(Dials[s], s)

-----------------------------------------------------------------------------
(* The files, in the order they are written.  A key is named by the run that *)
(* drew it; a certificate says which key it is for and which signed it.       *)

Ca(ext)        == <<"ca", ext>>
CaCertificate  == Ca("crt")
Holders        == <<"ca">> \o Services
Outputs        == [i \in 1..(2 * Len(Holders)) |->
                     <<Holders[(i + 1) \div 2], IF i % 2 = 1 THEN "key" ELSE "crt">>]

Torn    == [torn |-> TRUE]
Key(n)  == [key |-> n]
Certificate(n, m) == [key |-> n, signer |-> m]

With(f, content) == [g \in {f} \cup DOMAIN files |-> IF g = f THEN content ELSE files[g]]

Readable(f) == f \in DOMAIN files /\ files[f] # Torn

(* What openssl writes: a key of its own, or a certificate for the key beside *)
(* it that the authority signs.  The signing request is gone when this is done. *)
Output(f) ==
    IF f[2] = "key" THEN Key(runs)
    ELSE Certificate(files[<<f[1], "key">>].key, files[Ca("key")].key)

Complete == \A i \in DOMAIN Outputs : Readable(Outputs[i])

Init ==
    /\ files = << >>
    /\ at = 0
    /\ said = "nothing"
    /\ runs = 0
    /\ cleans = 0
    /\ stopped = FALSE
    /\ database = [s \in Stateful |-> "down"]
    /\ stage = [s \in Names |-> "exited"]
    /\ pair = [s \in Names |-> None]
    /\ loaded = [s \in Names |-> << >>]
    /\ crashes = 0

-----------------------------------------------------------------------------
(* The script: "certs already present".                                      *)
(* Mutant: the script looks for the file it writes last.                     *)
PresentIfFinished == Last(Outputs) \in DOMAIN files

Present == CaCertificate \in DOMAIN files

SkipWork ==
    /\ at = 0
    /\ Present
    /\ said' = "present"
    /\ UNCHANGED <<files, at, runs, cleans, stopped, database, processes>>

Generate ==
    /\ at = 0
    /\ ~Present
    /\ runs < MaxRuns
    /\ runs' = runs + 1
    /\ at' = 1
    /\ said' = "nothing"
    /\ UNCHANGED <<files, cleans, stopped, database, processes>>

(* One command of the script after the other; the last one reports.          *)
Advance ==
    /\ at' = IF at = Len(Outputs) THEN 0 ELSE at + 1
    /\ said' = IF at = Len(Outputs) THEN "generated" ELSE said

Write ==
    /\ at # 0
    /\ files' = With(Outputs[at], Output(Outputs[at]))
    /\ Advance
    /\ UNCHANGED <<runs, cleans, stopped, database, processes>>

(* A command fails and set -e ends the script, or it is interrupted; the file *)
(* at hand may be left half written.                                         *)
(* Mutant: it goes on after the certificate of a service could not be made.   *)
StopUnnoticed ==
    /\ at # 0
    /\ files' \in {files, With(Outputs[at], Torn)}
    /\ stopped' = TRUE
    /\ IF Outputs[at][1] # "ca" /\ Outputs[at][2] = "crt" THEN Advance
       ELSE at' = 0 /\ said' = "stopped"
    /\ UNCHANGED <<runs, cleans, database, processes>>

Stop ==
    /\ at # 0
    /\ files' \in {files, With(Outputs[at], Torn)}
    /\ stopped' = TRUE
    /\ at' = 0
    /\ said' = "stopped"
    /\ UNCHANGED <<runs, cleans, database, processes>>

(* make certs-clean.  A script at work fails at its next file.               *)
Clean ==
    /\ cleans < MaxCleans
    /\ cleans' = cleans + 1
    /\ files' = << >>
    /\ at' = 0
    /\ said' = IF at = 0 THEN "nothing" ELSE "stopped"
    /\ stopped' = FALSE
    /\ UNCHANGED <<runs, database, processes>>

DatabaseChanges(s) ==
    /\ database' = [database EXCEPT ![s] = IF @ = "up" THEN "down" ELSE "up"]
    /\ UNCHANGED <<script, processes>>

-----------------------------------------------------------------------------
(* A process starts, is started again after a failure, and sets up telemetry. *)
Start(s) ==
    /\ stage[s] = "exited"
    /\ stage' = [stage EXCEPT ![s] = IF s \in Stateful THEN "connecting" ELSE "loading"]
    /\ UNCHANGED <<script, database, pair, loaded, crashes>>

(* retry.ForeverSleep: a failed attempt leads to the next one.               *)
Connect(s) ==
    /\ stage[s] = "connecting"
    /\ database[s] = "up"
    /\ stage' = [stage EXCEPT ![s] = "loading"]
    /\ UNCHANGED <<script, database, pair, loaded, crashes>>

(* Whatever fails after that returns from run, and the process exits with 1. *)
(* Mutant: the identities of the process outlive it.                         *)
ExitKeeping(s) ==
    /\ stage' = [stage EXCEPT ![s] = "exited"]
    /\ pair' = [pair EXCEPT ![s] = None]
    /\ UNCHANGED loaded

(* Mutant: it exits with 0, which docker does not restart.                   *)
ExitZero(s) ==
    /\ stage' = [stage EXCEPT ![s] = "done"]
    /\ pair' = [pair EXCEPT ![s] = None]
    /\ loaded' = [loaded EXCEPT ![s] = << >>]

Exit(s) ==
    /\ stage' = [stage EXCEPT ![s] = "exited"]
    /\ pair' = [pair EXCEPT ![s] = None]
    /\ loaded' = [loaded EXCEPT ![s] = << >>]

(* A process serves when it has all of its identities.                       *)
Holds(s, identity) ==
    /\ loaded' = [loaded EXCEPT ![s] = Append(@, identity)]
    /\ stage' = IF Len(loaded[s]) + 1 = Len(Roles(s)) THEN [stage EXCEPT ![s] = "serving"] ELSE stage

Identity(read, authority) == [signer |-> read.signer, since |-> read.since,
                              authority |-> authority, until |-> cleans]

(* LoadX509KeyPair.  A browser is not asked for a certificate, so the server  *)
(* of the gateway needs no authority.                                        *)
NeedsAuthority(s) == ~(s \in Edge /\ Len(loaded[s]) + 1 = Len(Roles(s)))

PairFits(s) ==
    /\ Readable(<<s, "crt">>)
    /\ Readable(<<s, "key">>)
    /\ files[<<s, "crt">>].key = files[<<s, "key">>].key

LoadPair(s) ==
    LET read == [signer |-> files[<<s, "crt">>].signer, since |-> cleans] IN
    /\ stage[s] = "loading"
    /\ pair[s] = None
    /\ IF ~PairFits(s) THEN Exit(s)
       ELSE IF NeedsAuthority(s) THEN /\ pair' = [pair EXCEPT ![s] = read]
                                      /\ UNCHANGED <<stage, loaded>>
       ELSE Holds(s, Identity(read, None)) /\ UNCHANGED pair
    /\ UNCHANGED <<script, database, crashes>>

LoadAuthority(s) ==
    /\ stage[s] = "loading"
    /\ pair[s] # None
    /\ IF Readable(CaCertificate)
       THEN /\ Holds(s, Identity(pair[s], files[CaCertificate].key))
            /\ pair' = [pair EXCEPT ![s] = None]
       ELSE Exit(s)
    /\ UNCHANGED <<script, database, crashes>>

(* A process is killed, or fails for a reason of its own, telemetry included. *)
Crash(s) ==
    /\ stage[s] # "exited"
    /\ crashes < MaxCrashes
    /\ crashes' = crashes + 1
    /\ Exit(s)
    /\ UNCHANGED <<script, database>>

Script == SkipWork \/ Generate \/ Write \/ Stop \/ Clean

Goes(s) == Start(s) \/ Connect(s) \/ LoadPair(s) \/ LoadAuthority(s)

Next ==
    \/ Script
    \/ \E s \in Stateful : DatabaseChanges(s)
    \/ \E s \in Names : Goes(s) \/ Crash(s)

Spec == Init /\ [][Next]_vars

(* Docker restarts what exits with 1 for ever, and processes are scheduled.   *)
(* Nothing makes the script run, or a database start.                        *)
FairSpec == Spec /\ \A s \in Names : WF_vars(Goes(s))

-----------------------------------------------------------------------------
Content == {Torn} \cup { Key(n) : n \in 1..MaxRuns }
                  \cup { Certificate(n, m) : n, m \in 1..MaxRuns }

Identities == [signer : 1..MaxRuns, since : 0..MaxCleans,
               authority : (1..MaxRuns) \cup {None}, until : 0..MaxCleans]

(* Types.  A process has no more identities than roles, has them all exactly  *)
(* when it serves, and none before it is connected (main.go, ListenGRPC).     *)
TypeOK ==
    /\ DOMAIN files \subseteq ToSet(Outputs) /\ \A f \in DOMAIN files : files[f] \in Content
    /\ at \in 0..Len(Outputs)
    /\ said \in {"nothing", "present", "generated", "stopped"}
    /\ runs \in 0..MaxRuns /\ cleans \in 0..MaxCleans /\ crashes \in 0..MaxCrashes
    /\ stopped \in BOOLEAN
    /\ database \in [Stateful -> {"up", "down"}]
    /\ stage \in [Names -> {"exited", "connecting", "loading", "serving"}]
    /\ \A s \in Names :
         /\ pair[s] \in [signer : 1..MaxRuns, since : 0..MaxCleans] \cup {None}
         /\ loaded[s] \in Seq(Identities)
         /\ Len(loaded[s]) <= Len(Roles(s))
         /\ stage[s] = "serving" <=> Len(loaded[s]) = Len(Roles(s))
         /\ stage[s] \in {"exited", "connecting"} => loaded[s] = << >>

(* Mutual TLS 1.3 between a client and a server: each verifies the other.    *)
(* The gateway as a server of browsers is not dialled by a service.          *)
Trust(client, server) ==
    /\ client.signer = server.authority
    /\ server.signer = client.authority

(* An identity that was read without the directory being removed meanwhile.  *)
Whole(identity) == identity.since = identity.until

(* A client and a server whose identities stem from the same directory, never *)
(* removed in between, trust each other, however often the script ran, failed *)
(* and ran again between their starts (gen-certs.sh: it never replaces an      *)
(* authority; tlsconfig: certificate and authority are two files).            *)
PeersTrust ==
    \A s \in Names : \A i \in 1..Len(loaded[s]) :
        LET client == loaded[s][i]  peer == Roles(s)[i] IN
        (i <= Len(Dials[s]) /\ stage[peer] = "serving") =>
            LET server == Last(loaded[peer]) IN
            (Whole(client) /\ Whole(server) /\ client.since = server.since) =>
                Trust(client, server)

(* When the script says that certificates are generated, or present, they are *)
(* all there, unless a run on this directory failed before: then "present"    *)
(* says nothing of the services' files (gen-certs.sh: 2>/dev/null hides what   *)
(* failed, and only the authority is looked for).                            *)
SaidMeansThere ==
    (said = "generated" \/ (said = "present" /\ ~stopped)) => Complete

(* Once the certificates are complete and the databases stay up, every service *)
(* serves and goes on serving, whatever the order they were started in and     *)
(* whatever they died of before (retry.ForeverSleep, restart: on-failure).     *)
Calm == at = 0 /\ Complete /\ \A s \in Stateful : database[s] = "up"

AllServe == \A s \in Names : stage[s] = "serving"

ServesInTheEnd == (<>[]Calm) => <>[]AllServe

=============================================================================
