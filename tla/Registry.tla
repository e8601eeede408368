------------------------------- MODULE Registry -------------------------------
(***************************************************************************)
(* What createAccount and createProduct promise: nothing is registered      *)
(* twice by one call, what is registered stays as it is, and a call that    *)
(* succeeds names what it registered.  A call that fails has registered     *)
(* nothing, or has, or will: there is no key to ask again with.             *)
(***************************************************************************)
CONSTANTS
    Makers,         \* the calls, which stand for the ids they give
    Wishes,         \* what can be asked for
    NoWish

VARIABLES
    registered,     \* what exists, under the ids it was given
    status,         \* what has become of each call
    wish            \* what each call asks for

registryVars == <<registered, status, wish>>

Entity(c) == [id |-> c, what |-> wish[c]]

RegistryInit ==
    /\ registered = {}
    /\ status = [c \in Makers |-> "idle"]
    /\ wish = [c \in Makers |-> NoWish]

Ask(c, w) ==
    /\ status[c] = "idle"
    /\ status' = [status EXCEPT ![c] = "waiting"]
    /\ wish' = [wish EXCEPT ![c] = w]
    /\ UNCHANGED registered

(* A call that failed may still take effect: it is not undone.               *)
Register(c) ==
    /\ status[c] \in {"waiting", "failed"}
    /\ \A e \in registered : e.id # c
    /\ registered' = registered \cup {Entity(c)}
    /\ UNCHANGED <<status, wish>>

Succeed(c) ==
    /\ status[c] = "waiting"
    /\ Entity(c) \in registered
    /\ status' = [status EXCEPT ![c] = "ok"]
    /\ UNCHANGED <<registered, wish>>

Fail(c) ==
    /\ status[c] = "waiting"
    /\ status' = [status EXCEPT ![c] = "failed"]
    /\ UNCHANGED <<registered, wish>>

RegistryNext ==
    \E c \in Makers :
        \/ \E w \in Wishes : Ask(c, w)
        \/ Register(c) \/ Succeed(c) \/ Fail(c)

RegistrySpec == RegistryInit /\ [][RegistryNext]_registryVars
=============================================================================
