------------------------------- MODULE Accounts -------------------------------
(***************************************************************************)
(* Walking over all accounts page by page (Query.accounts of the gateway,  *)
(* GetAccounts of the account service, ListAccounts of its repository)     *)
(* while accounts are being created.                                       *)
(*                                                                         *)
(* Pages are cut by OFFSET and LIMIT from the accounts in descending order *)
(* of their ids, so an account that is created moves those behind it.  Ids *)
(* are numbers here; as KSUIDs of one second come in any order, so do      *)
(* these.                                                                  *)
(***************************************************************************)
EXTENDS Integers, FiniteSets

CONSTANTS
  Ids,       \* the ids of the accounts that may exist
  Walkers,   \* clients that walk over the accounts
  Takes,     \* the page sizes they may ask for, NoValue for none
  NoValue,   \* an optional value that is absent
  MaxTake,   \* the largest page, 100
  Word       \* 2^64: the gateway converts skip and take to uint64

ASSUME AccountsAssumption ==
  /\ Ids \subseteq Nat /\ IsFiniteSet(Ids)
  /\ Takes \subseteq Int \cup {NoValue} /\ NoValue \notin Int
  /\ MaxTake \in Nat \ {0}
  /\ Word \in Nat
  /\ \A t \in Takes \ {NoValue} : t + Word > MaxTake

VARIABLES
  accounts,   \* the ids in the table accounts
  stage,      \* where each walker stands
  skip,       \* the skip of its next request
  take,       \* the take of all its requests
  seen,       \* the accounts it was shown
  again,      \* those it was shown more than once
  start       \* ghost: the accounts that existed when it began

walkVars == <<stage, skip, take, seen, again, start>>
vars == <<accounts, walkVars>>

Init ==
  /\ accounts \in SUBSET Ids
  /\ stage = [w \in Walkers |-> "idle"]
  /\ skip = [w \in Walkers |-> 0]
  /\ take = [w \in Walkers |-> NoValue]
  /\ seen = [w \in Walkers |-> {}]
  /\ again = [w \in Walkers |-> {}]
  /\ start = [w \in Walkers |-> {}]

-----------------------------------------------------------------------------
(* Helpers *)

\* PaginationInput.bounds: an int becomes a uint64.
Unsigned(n) == IF n < 0 THEN n + Word ELSE n

\* AccountService.GetAccounts: a page that is too large is cut, and one of
\* size 0 is the largest one, but only at the start of the list.
Limit(s, t) == IF t > MaxTake \/ (s = 0 /\ t = 0) THEN MaxTake ELSE t

\* How many accounts come before account a: ORDER BY id DESC.
Rank(a) == Cardinality({b \in accounts : b > a})

\* Mutant: skip is taken for the number of the first row, counted from 1.
ListAccountsFromOne(s, t) ==
  {a \in accounts : Rank(a) >= s - 1 /\ Rank(a) < s - 1 + t}

\* Mutant: the first row after the skipped ones is lost.
ListAccountsTooFar(s, t) ==
  {a \in accounts : Rank(a) > s /\ Rank(a) <= s + t}

\* OFFSET s LIMIT t.
ListAccounts(s, t) ==
  {a \in accounts : Rank(a) >= s /\ Rank(a) < s + t}

\* The handler GetAccounts, which hands skip and take through.
GetAccounts(s, t) == ListAccounts(s, Limit(s, t))

-----------------------------------------------------------------------------
(* The account service *)

\* PutAccount of an account with a fresh id.  Whether its creator learns of it
\* makes no difference to a walk.
PutAccount(a) ==
  /\ a \notin accounts
  /\ accounts' = accounts \cup {a}
  /\ UNCHANGED walkVars

-----------------------------------------------------------------------------
(* Walker w *)

Begin(w) ==
  /\ stage[w] = "idle"
  /\ stage' = [stage EXCEPT ![w] = "walking"]
  /\ \E t \in Takes : take' = [take EXCEPT ![w] = t]
  /\ start' = [start EXCEPT ![w] = accounts]
  /\ UNCHANGED <<accounts, skip, seen, again>>

\* The resolver Accounts answers with the next page, which is one query of the
\* database; the walker stops at an empty one.
NextPage(w) ==
  /\ stage[w] = "walking" /\ take[w] # NoValue
  /\ LET page == GetAccounts(Unsigned(skip[w]), Unsigned(take[w]))
     IN  /\ skip' = [skip EXCEPT ![w] = @ + Cardinality(page)]
         /\ seen' = [seen EXCEPT ![w] = @ \cup page]
         /\ again' = [again EXCEPT ![w] = @ \cup (seen[w] \cap page)]
         /\ stage' = [stage EXCEPT ![w] = IF page = {} THEN "done" ELSE "walking"]
  /\ UNCHANGED <<accounts, take, start>>

\* bounds dereferences skip and take; without one of them it panics.
BoundsPanics(w) ==
  /\ stage[w] = "walking" /\ take[w] = NoValue
  /\ stage' = [stage EXCEPT ![w] = "panicked"]
  /\ UNCHANGED <<accounts, skip, take, seen, again, start>>

\* The request fails and the walker gives up; or it asks for the page again,
\* and nothing has changed.
GiveUp(w) ==
  /\ stage[w] = "walking"
  /\ stage' = [stage EXCEPT ![w] = "failed"]
  /\ UNCHANGED <<accounts, skip, take, seen, again, start>>

-----------------------------------------------------------------------------

Next ==
  \/ \E a \in Ids : PutAccount(a)
  \/ \E w \in Walkers : Begin(w) \/ NextPage(w) \/ BoundsPanics(w) \/ GiveUp(w)

Spec == Init /\ [][Next]_vars

-----------------------------------------------------------------------------
(* Properties *)

\* Every variable holds a value of its type.
TypeOK ==
  /\ accounts \subseteq Ids
  /\ stage \in [Walkers -> {"idle", "walking", "done", "failed", "panicked"}]
  /\ skip \in [Walkers -> 0..Cardinality(Ids)]
  /\ take \in [Walkers -> Takes \cup {NoValue}]
  /\ seen \in [Walkers -> SUBSET Ids]
  /\ again \in [Walkers -> SUBSET Ids]
  /\ start \in [Walkers -> SUBSET Ids]

\* A walk that reaches its end has shown every account that existed when it
\* began, however many were created meanwhile and wherever they were sorted in
\* (account/repository.go:60).  A take of 0 does not count: it shows the first
\* page only, since it means 100 at the start and nothing further on.
NothingMissed ==
  \A w \in Walkers :
    stage[w] = "done" /\ take[w] # 0 => start[w] \subseteq seen[w]

\* An account that is created moves those behind it by one place, so it makes
\* at most one of them be shown again (account/repository.go:60); without
\* creations during the walk nothing is shown twice.
RepeatsAreBounded ==
  \A w \in Walkers :
    stage[w] # "idle" =>
      Cardinality(again[w]) <= Cardinality(accounts \ start[w])
=============================================================================
