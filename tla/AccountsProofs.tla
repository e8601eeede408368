---------------------------- MODULE AccountsProofs ----------------------------
(***************************************************************************)
(* Proofs about walks over the accounts (Accounts), for any ids, page      *)
(* sizes and walkers: the types, that nothing is missed, and how much may  *)
(* be shown twice.                                                         *)
(***************************************************************************)
EXTENDS Accounts, FiniteSetTheorems, TLAPS

-----------------------------------------------------------------------------
(* Lemmas about ranks *)

\* The accounts with a rank from i to j - 1.
Ranked(i, j) == {a \in accounts : Rank(a) >= i /\ Rank(a) < j}

\* The table of accounts is a finite set of numbers.
LEMMA AccountsFinite ==
  ASSUME accounts \subseteq Ids
  PROVE  /\ IsFiniteSet(Ids) /\ Ids \subseteq Nat
         /\ IsFiniteSet(accounts) /\ accounts \subseteq Nat
         /\ Cardinality(accounts) \in Nat /\ Cardinality(Ids) \in Nat
         /\ Cardinality(accounts) <= Cardinality(Ids)
BY AccountsAssumption, FS_Subset, FS_CardinalityType

\* Ranks (account/repository.go:60) count from 0 and are below the number of
\* accounts.
LEMMA RankRange ==
  ASSUME accounts \subseteq Ids, NEW a \in accounts
  PROVE  Rank(a) \in Nat /\ Rank(a) < Cardinality(accounts)
<1> DEFINE before == {b \in accounts : b > a}
<1>1. IsFiniteSet(accounts) /\ a \in Nat
  BY AccountsFinite
<1>2. IsFiniteSet(before) /\ Cardinality(before) <= Cardinality(accounts)
  BY <1>1, FS_Subset
<1>3. before # accounts
  BY <1>1
<1>4. Cardinality(before) # Cardinality(accounts)
  BY <1>1, <1>3, FS_Subset
<1>5. Cardinality(before) \in Nat /\ Cardinality(accounts) \in Nat
  BY <1>1, <1>2, FS_CardinalityType
<1> QED BY <1>2, <1>4, <1>5 DEF Rank

\* Of two accounts, the one with the larger id has the smaller rank.
LEMMA RankOrder ==
  ASSUME accounts \subseteq Ids, NEW a \in accounts, NEW b \in accounts, a > b
  PROVE  Rank(a) < Rank(b)
<1> DEFINE A == {c \in accounts : c > a}
           B == {c \in accounts : c > b}
<1>1. IsFiniteSet(accounts) /\ accounts \subseteq Nat
  BY AccountsFinite
<1>2. IsFiniteSet(A) /\ IsFiniteSet(B)
  BY <1>1, FS_Subset
<1>3. A \in SUBSET B
  <2>1. \A c \in accounts : c \in Nat /\ (c > a => c > b)
    BY <1>1
  <2> QED BY <2>1
<1>4. a \in B /\ a \notin A
  BY <1>1
<1>5. Cardinality(A) <= Cardinality(B) /\ Cardinality(A) # Cardinality(B)
  BY <1>2, <1>3, <1>4, FS_Subset
<1>6. Cardinality(A) \in Nat /\ Cardinality(B) \in Nat
  BY <1>2, FS_CardinalityType
<1> QED BY <1>5, <1>6 DEF Rank

\* Different accounts have different ranks.
LEMMA RankInjective ==
  ASSUME accounts \subseteq Ids, NEW a \in accounts, NEW b \in accounts,
         Rank(a) = Rank(b)
  PROVE  a = b
<1>1. a \in Nat /\ b \in Nat
  BY AccountsFinite
<1>2. Rank(a) \in Nat
  BY RankRange
<1>3. ~(a > b)
  BY <1>2, RankOrder
<1>4. ~(b > a)
  BY <1>2, RankOrder
<1> QED BY <1>1, <1>3, <1>4

\* No more accounts have a rank between i and j than there are numbers.
LEMMA RankedBound ==
  ASSUME accounts \subseteq Ids, NEW i \in Nat, NEW j \in Nat, i <= j
  PROVE  /\ IsFiniteSet(Ranked(i, j))
         /\ Cardinality(Ranked(i, j)) \in Nat
         /\ Cardinality(Ranked(i, j)) <= j - i
<1> DEFINE S == Ranked(i, j)
           T == i..(j - 1)
           f == [a \in S |-> Rank(a)]
<1>1. S \subseteq accounts
  BY DEF Ranked
<1>2. IsFiniteSet(S) /\ Cardinality(S) \in Nat
  BY <1>1, AccountsFinite, FS_Subset, FS_CardinalityType
<1>3. IsFiniteSet(T) /\ Cardinality(T) = j - i
  <2>1. j - 1 \in Int /\ i \in Int
    OBVIOUS
  <2>2. IsFiniteSet(T) /\ Cardinality(T) = IF i > j - 1 THEN 0 ELSE (j - 1) - i + 1
    BY <2>1, FS_Interval
  <2> QED BY <2>2
<1>4. f \in [S -> T]
  <2>1. ASSUME NEW a \in S PROVE Rank(a) \in T
    BY <1>1, RankRange DEF Ranked
  <2> QED BY <2>1
<1>5. CASE Cardinality(T) < Cardinality(S)
  <2>1. PICK x \in S, y \in S : x # y /\ f[x] = f[y]
    <3> HIDE DEF S, T, f
    <3> QED BY <1>2, <1>3, <1>4, <1>5, FS_PigeonHole
  <2>2. Rank(x) = Rank(y)
    BY <2>1
  <2> QED BY <1>1, <2>1, <2>2, RankInjective
<1>6. CASE ~(Cardinality(T) < Cardinality(S))
  BY <1>2, <1>3, <1>6
<1> QED BY <1>5, <1>6

\* The first k places are filled, if there are so many accounts.
LEMMA PrefixIsFull ==
  ASSUME accounts \subseteq Ids, NEW k \in Nat, k <= Cardinality(accounts)
  PROVE  /\ IsFiniteSet(Ranked(0, k))
         /\ Cardinality(Ranked(0, k)) = k
<1> DEFINE n == Cardinality(accounts)
<1>1. n \in Nat /\ IsFiniteSet(accounts)
  BY AccountsFinite
<1>2. /\ IsFiniteSet(Ranked(0, k)) /\ Cardinality(Ranked(0, k)) \in Nat
      /\ Cardinality(Ranked(0, k)) <= k
  BY RankedBound
<1>3. /\ IsFiniteSet(Ranked(k, n)) /\ Cardinality(Ranked(k, n)) \in Nat
      /\ Cardinality(Ranked(k, n)) <= n - k
  BY <1>1, RankedBound
<1>4. accounts = Ranked(0, k) \cup Ranked(k, n)
  BY <1>1, RankRange DEF Ranked
<1>5. Ranked(0, k) \cap Ranked(k, n) = {}
  BY <1>1, RankRange DEF Ranked
<1>6. n = Cardinality(Ranked(0, k)) + Cardinality(Ranked(k, n))
  BY <1>2, <1>3, <1>4, <1>5, FS_Union, FS_EmptySet
<1> QED BY <1>1, <1>2, <1>3, <1>6

\* A page of t rows after s skipped ones: it is no longer than t, it ends at the
\* end of the list, what lies ahead of it lies behind its last row, and it is
\* empty only at the end of the list.
LEMMA PageLemma ==
  ASSUME accounts \subseteq Ids, NEW s \in Nat, s <= Cardinality(accounts),
         NEW t \in Nat
  PROVE  LET page == ListAccounts(s, t)
         IN  /\ page \subseteq accounts /\ IsFiniteSet(page)
             /\ Cardinality(page) \in Nat
             /\ s + Cardinality(page) <= Cardinality(accounts)
             /\ \A a \in accounts \ page :
                  Rank(a) >= s => Rank(a) >= s + Cardinality(page)
             /\ t > 0 /\ page = {} => \A a \in accounts : Rank(a) < s
<1> DEFINE page == ListAccounts(s, t)
           n == Cardinality(accounts)
<1>1. n \in Nat
  BY AccountsFinite
<1>2. page = Ranked(s, s + t) /\ page \subseteq accounts
  BY DEF ListAccounts, Ranked
<1>3. IsFiniteSet(page) /\ Cardinality(page) \in Nat /\ Cardinality(page) <= t
  BY <1>2, RankedBound
<1>4. s + Cardinality(page) <= n
  <2>1. /\ IsFiniteSet(Ranked(s, n)) /\ Cardinality(Ranked(s, n)) \in Nat
        /\ Cardinality(Ranked(s, n)) <= n - s
    BY <1>1, RankedBound
  <2>2. page \in SUBSET Ranked(s, n)
    BY <1>1, RankRange DEF ListAccounts, Ranked
  <2>3. Cardinality(page) <= Cardinality(Ranked(s, n))
    BY <2>1, <2>2, FS_Subset
  <2> QED BY <1>1, <1>3, <2>1, <2>3
<1>5. ASSUME NEW a \in accounts \ page, Rank(a) >= s
      PROVE  Rank(a) >= s + Cardinality(page)
  <2>1. Rank(a) \in Nat
    BY RankRange
  <2>2. Rank(a) >= s + t
    BY <1>5, <2>1 DEF ListAccounts
  <2> QED BY <1>3, <2>1, <2>2
<1>6. ASSUME t > 0, page = {}, NEW a \in accounts, ~(Rank(a) < s)
      PROVE  FALSE
  <2>1. Rank(a) \in Nat /\ Rank(a) < n
    BY RankRange
  <2>2. s + 1 <= n
    BY <1>1, <1>6, <2>1
  <2>3. Cardinality(Ranked(0, s)) = s
    BY PrefixIsFull
  <2>4. Cardinality(Ranked(0, s + 1)) = s + 1
    BY <2>2, PrefixIsFull
  <2>5. Ranked(0, s) = Ranked(0, s + 1)
    BY <1>6, RankRange DEF ListAccounts, Ranked
  <2> QED BY <2>3, <2>4, <2>5
<1> QED BY <1>2, <1>3, <1>4, <1>5, <1>6

\* The number of rows that is asked for (account/service.go:44) is 0 only for a
\* take of 0.
LEMMA LimitRange ==
  ASSUME NEW s \in Nat, NEW t \in Takes \ {NoValue}
  PROVE  /\ Limit(s, Unsigned(t)) \in Nat
         /\ t # 0 => Limit(s, Unsigned(t)) > 0
BY AccountsAssumption DEF Limit, Unsigned

-----------------------------------------------------------------------------
(* The inductive invariant *)

\* A walk that has not begun has shown nothing.
AtStart ==
  \A w \in Walkers :
    stage[w] = "idle" => skip[w] = 0 /\ seen[w] = {} /\ again[w] = {}

\* A walk does not run past the end of the list, and accounts stay.
InBounds ==
  \A w \in Walkers :
    skip[w] <= Cardinality(accounts) /\ start[w] \subseteq accounts

\* What was there at the start and is not yet shown lies ahead.
UnseenAhead ==
  \A w \in Walkers : \A a \in start[w] \ seen[w] : Rank(a) >= skip[w]

\* Each row that was skipped or shown counts at least once.
RowsCount ==
  \A w \in Walkers :
    Cardinality(again[w]) + Cardinality(seen[w]) <= skip[w]

IInv ==
  /\ TypeOK
  /\ AtStart
  /\ InBounds
  /\ UnseenAhead
  /\ RowsCount
  /\ NothingMissed

-----------------------------------------------------------------------------
(* Every step keeps it *)

\* The invariant holds before anything happens.
LEMMA InitHolds == Init => IInv
<1> SUFFICES ASSUME Init PROVE IInv
  OBVIOUS
<1>1. Cardinality(accounts) \in Nat /\ Cardinality(Ids) \in Nat /\ accounts \subseteq Ids
  BY AccountsFinite DEF Init
<1>2. TypeOK
  BY <1>1 DEF Init, TypeOK
<1>3. RowsCount
  BY FS_EmptySet DEF Init, RowsCount
<1>4. AtStart /\ InBounds /\ UnseenAhead /\ NothingMissed
  BY <1>1 DEF Init, AtStart, InBounds, UnseenAhead, NothingMissed
<1> QED BY <1>2, <1>3, <1>4 DEF IInv

\* A new account leaves no other one with a smaller rank
\* (account/service.go:28-38).
LEMMA PutAccountHolds ==
  ASSUME IInv, NEW n \in Ids, PutAccount(n)
  PROVE  IInv'
<1> USE DEF PutAccount, walkVars
<1>1. TypeOK
  BY DEF IInv
<1>2. accounts \subseteq Ids /\ accounts' = accounts \cup {n} /\ accounts' \subseteq Ids
  BY <1>1 DEF TypeOK
<1>3. IsFiniteSet(accounts') /\ IsFiniteSet(Ids)
  BY <1>2, AccountsFinite, FS_Subset
<1>4. /\ Cardinality(accounts) \in Nat /\ Cardinality(accounts') \in Nat
      /\ Cardinality(accounts) <= Cardinality(accounts')
  BY <1>2, <1>3, FS_Subset, FS_CardinalityType
<1>5. ASSUME NEW a \in accounts
      PROVE  Rank(a) \in Nat /\ Rank(a)' \in Nat /\ Rank(a) <= Rank(a)'
  <2> DEFINE old == {b \in accounts : b > a}
             new == {b \in accounts' : b > a}
  <2>1. IsFiniteSet(new) /\ old \in SUBSET new
    BY <1>2, <1>3, FS_Subset
  <2>2. IsFiniteSet(old) /\ Cardinality(old) <= Cardinality(new)
    BY <2>1, FS_Subset
  <2>3. Cardinality(old) \in Nat /\ Cardinality(new) \in Nat
    BY <2>1, <2>2, FS_CardinalityType
  <2> QED BY <2>2, <2>3 DEF Rank
<1>6. TypeOK'
  BY <1>1, <1>2 DEF TypeOK
<1>7. AtStart' /\ RowsCount' /\ NothingMissed'
  BY DEF IInv, AtStart, RowsCount, NothingMissed
<1>8. InBounds'
  <2> SUFFICES ASSUME NEW w \in Walkers
               PROVE  skip[w] <= Cardinality(accounts') /\ start[w] \subseteq accounts'
    BY DEF InBounds
  <2>1. skip[w] \in Int /\ skip[w] <= Cardinality(accounts) /\ start[w] \subseteq accounts
    BY <1>1, <1>3, FS_CardinalityType DEF IInv, InBounds, TypeOK
  <2> QED BY <1>2, <1>4, <2>1
<1>9. UnseenAhead'
  <2> SUFFICES ASSUME NEW w \in Walkers, NEW a \in start[w] \ seen[w]
               PROVE  Rank(a)' >= skip[w]
    BY DEF UnseenAhead
  <2>1. a \in accounts /\ Rank(a) >= skip[w]
    BY DEF IInv, InBounds, UnseenAhead
  <2>2. skip[w] \in Int
    BY <1>1, <1>3, FS_CardinalityType DEF TypeOK
  <2> QED BY <1>5, <2>1, <2>2
<1> QED BY <1>6, <1>7, <1>8, <1>9 DEF IInv

\* A walk begins with everything unseen and nothing skipped.
LEMMA BeginHolds ==
  ASSUME IInv, NEW u \in Walkers, Begin(u)
  PROVE  IInv'
<1> USE DEF Begin
<1>1. TypeOK
  BY DEF IInv
<1>2. skip[u] = 0 /\ seen[u] = {} /\ again[u] = {}
  BY DEF IInv, AtStart
<1>3. \A a \in accounts : Rank(a) \in Nat
  BY <1>1, RankRange DEF TypeOK
<1>4. TypeOK'
  <2>1. take' \in [Walkers -> Takes \cup {NoValue}]
    BY <1>1 DEF TypeOK
  <2>2. start' \in [Walkers -> SUBSET Ids]
    BY <1>1 DEF TypeOK
  <2> QED BY <1>1, <2>1, <2>2 DEF TypeOK
<1>5. AtStart'
  BY <1>1 DEF IInv, AtStart, TypeOK
<1>6. RowsCount'
  BY DEF IInv, RowsCount
<1>7. InBounds'
  BY <1>1 DEF IInv, InBounds, TypeOK
<1>8. UnseenAhead'
  <2> SUFFICES ASSUME NEW w \in Walkers, NEW a \in start'[w] \ seen[w]
               PROVE  Rank(a) >= skip[w]
    BY DEF UnseenAhead, Rank
  <2>1. CASE w = u
    BY <1>1, <1>2, <1>3, <2>1 DEF TypeOK
  <2>2. CASE w # u
    BY <1>1, <2>2 DEF IInv, UnseenAhead, TypeOK
  <2> QED BY <2>1, <2>2
<1>9. NothingMissed'
  BY <1>1 DEF IInv, NothingMissed, TypeOK
<1> QED BY <1>4, <1>5, <1>6, <1>7, <1>8, <1>9 DEF IInv

\* A page takes the walk over its rows (graphql/query_resolver.go:13-46); if it
\* is empty, nothing lies ahead.
LEMMA NextPageHolds ==
  ASSUME IInv, NEW u \in Walkers, NextPage(u)
  PROVE  IInv'
<1> DEFINE t    == Limit(skip[u], Unsigned(take[u]))
           page == ListAccounts(skip[u], t)
           n    == Cardinality(accounts)
<1>1. TypeOK
  BY DEF IInv
<1>2. /\ accounts \subseteq Ids /\ IsFiniteSet(Ids) /\ n \in Nat
      /\ n <= Cardinality(Ids) /\ Cardinality(Ids) \in Nat
  BY <1>1, AccountsFinite DEF TypeOK
<1>3. skip[u] \in Nat /\ skip[u] <= n
  BY <1>1, <1>2 DEF IInv, InBounds, TypeOK
<1>4. take[u] \in Takes \ {NoValue}
  BY <1>1 DEF NextPage, TypeOK
<1>5. t \in Nat /\ (take[u] # 0 => t > 0)
  BY <1>3, <1>4, LimitRange
<1>6. /\ page \subseteq accounts /\ IsFiniteSet(page)
      /\ Cardinality(page) \in Nat
      /\ skip[u] + Cardinality(page) <= n
      /\ \A a \in accounts \ page :
           Rank(a) >= skip[u] => Rank(a) >= skip[u] + Cardinality(page)
      /\ t > 0 /\ page = {} => \A a \in accounts : Rank(a) < skip[u]
  <2> HIDE DEF t
  <2> QED BY <1>2, <1>3, <1>5, PageLemma
<1>7. /\ skip' = [skip EXCEPT ![u] = @ + Cardinality(page)]
      /\ seen' = [seen EXCEPT ![u] = @ \cup page]
      /\ again' = [again EXCEPT ![u] = @ \cup (seen[u] \cap page)]
      /\ stage' = [stage EXCEPT ![u] = IF page = {} THEN "done" ELSE "walking"]
      /\ stage[u] = "walking"
      /\ UNCHANGED <<accounts, take, start>>
  <2>1. Unsigned(skip[u]) = skip[u]
    BY <1>3 DEF Unsigned
  <2>2. GetAccounts(Unsigned(skip[u]), Unsigned(take[u])) = page
    BY <2>1 DEF GetAccounts
  <2> HIDE DEF page
  <2> QED BY <2>2 DEF NextPage
<1> HIDE DEF t, page, n
<1>8. TypeOK'
  <2>1. skip[u] + Cardinality(page) \in 0..Cardinality(Ids)
    BY <1>2, <1>3, <1>6
  <2>2. skip' \in [Walkers -> 0..Cardinality(Ids)]
    BY <1>1, <1>7, <2>1 DEF TypeOK
  <2>3. stage' \in [Walkers -> {"idle", "walking", "done", "failed", "panicked"}]
    BY <1>1, <1>7 DEF TypeOK
  <2>4. seen' \in [Walkers -> SUBSET Ids] /\ again' \in [Walkers -> SUBSET Ids]
    BY <1>1, <1>2, <1>6, <1>7 DEF TypeOK
  <2> QED BY <1>1, <1>7, <2>2, <2>3, <2>4 DEF TypeOK
<1>9. AtStart'
  BY <1>1, <1>7 DEF IInv, AtStart, TypeOK
<1>10. InBounds'
  <2> SUFFICES ASSUME NEW w \in Walkers
               PROVE  skip'[w] <= n /\ start[w] \subseteq accounts
    BY <1>7 DEF InBounds, n
  <2>1. skip[w] <= n /\ start[w] \subseteq accounts
    BY DEF IInv, InBounds, n
  <2>2. skip'[w] = IF w = u THEN skip[u] + Cardinality(page) ELSE skip[w]
    BY <1>1, <1>7 DEF TypeOK
  <2> QED BY <1>6, <2>1, <2>2
<1>11. UnseenAhead'
  <2> SUFFICES ASSUME NEW w \in Walkers, NEW a \in start[w] \ seen'[w]
               PROVE  Rank(a) >= skip'[w]
    BY <1>7 DEF UnseenAhead, Rank
  <2>1. a \in accounts
    BY DEF IInv, InBounds
  <2>2. CASE w = u
    <3>1. a \notin seen[u] /\ a \notin page
      BY <1>1, <1>7, <2>2 DEF TypeOK
    <3>2. Rank(a) >= skip[u]
      BY <2>2, <3>1 DEF IInv, UnseenAhead
    <3> QED BY <1>1, <1>6, <1>7, <2>1, <2>2, <3>1, <3>2 DEF TypeOK
  <2>3. CASE w # u
    BY <1>1, <1>7, <2>3 DEF IInv, UnseenAhead, TypeOK
  <2> QED BY <2>2, <2>3
<1>12. RowsCount'
  <2> SUFFICES ASSUME NEW w \in Walkers
               PROVE  Cardinality(again'[w]) + Cardinality(seen'[w]) <= skip'[w]
    BY DEF RowsCount
  <2>1. Cardinality(again[w]) + Cardinality(seen[w]) <= skip[w]
    BY DEF IInv, RowsCount
  <2>2. CASE w = u
    <3> DEFINE S == seen[u]
               A == again[u]
    <3>1. IsFiniteSet(S) /\ IsFiniteSet(A)
      BY <1>1, <1>2, FS_Subset DEF TypeOK
    <3>2. IsFiniteSet(S \cap page)
      BY <3>1, FS_Intersection
    <3>3. /\ Cardinality(S) \in Nat /\ Cardinality(A) \in Nat
          /\ Cardinality(S \cap page) \in Nat
      BY <3>1, <3>2, FS_CardinalityType
    <3>4. /\ IsFiniteSet(S \cup page)
          /\ Cardinality(S \cup page) = Cardinality(S) + Cardinality(page) - Cardinality(S \cap page)
      BY <1>6, <3>1, FS_Union
    <3>5. /\ IsFiniteSet(A \cup (S \cap page))
          /\ Cardinality(A \cup (S \cap page))
               = Cardinality(A) + Cardinality(S \cap page) - Cardinality(A \cap (S \cap page))
      BY <3>1, <3>2, FS_Union
    <3>6. Cardinality(A \cap (S \cap page)) \in Nat
      BY <3>1, FS_Intersection, FS_CardinalityType
    <3>7. /\ again'[w] = A \cup (S \cap page)
          /\ seen'[w] = S \cup page
          /\ skip'[w] = skip[u] + Cardinality(page)
      BY <1>1, <1>7, <2>2 DEF TypeOK
    <3> QED BY <1>3, <1>6, <2>1, <2>2, <3>3, <3>4, <3>5, <3>6, <3>7
  <2>3. CASE w # u
    BY <1>1, <1>7, <2>1, <2>3 DEF TypeOK
  <2> QED BY <2>2, <2>3
<1>13. NothingMissed'
  <2> SUFFICES ASSUME NEW w \in Walkers, stage'[w] = "done", take[w] # 0
               PROVE  start[w] \subseteq seen'[w]
    BY <1>7 DEF NothingMissed
  <2>1. CASE w = u
    <3>1. page = {}
      BY <1>1, <1>7, <2>1 DEF TypeOK
    <3>2. \A a \in accounts : Rank(a) < skip[u]
      BY <1>5, <1>6, <2>1, <3>1
    <3>3. ASSUME NEW a \in start[u], a \notin seen[u]
          PROVE  FALSE
      <4>1. a \in accounts /\ Rank(a) >= skip[u]
        BY <3>3 DEF IInv, InBounds, UnseenAhead
      <4>2. Rank(a) \in Nat
        BY <1>2, <4>1, RankRange
      <4> QED BY <1>3, <3>2, <4>1, <4>2
    <3> QED BY <1>1, <1>7, <2>1, <3>3 DEF TypeOK
  <2>2. CASE w # u
    BY <1>1, <1>7, <2>2 DEF IInv, NothingMissed, TypeOK
  <2> QED BY <2>1, <2>2
<1> QED BY <1>8, <1>9, <1>10, <1>11, <1>12, <1>13 DEF IInv

\* A walk that fails changes nothing but its stage.
LEMMA FailureHolds ==
  ASSUME IInv, NEW u \in Walkers, BoundsPanics(u) \/ GiveUp(u)
  PROVE  IInv'
<1>1. /\ stage[u] = "walking"
      /\ \E s \in {"failed", "panicked"} : stage' = [stage EXCEPT ![u] = s]
      /\ UNCHANGED <<accounts, skip, take, seen, again, start>>
  BY DEF BoundsPanics, GiveUp
<1>2. TypeOK'
  BY <1>1 DEF IInv, TypeOK
<1>3. AtStart'
  BY <1>1 DEF IInv, AtStart, TypeOK
<1>4. InBounds' /\ RowsCount'
  BY <1>1 DEF IInv, InBounds, RowsCount
<1>5. UnseenAhead'
  BY <1>1 DEF IInv, UnseenAhead, Rank
<1>6. NothingMissed'
  BY <1>1 DEF IInv, NothingMissed, TypeOK
<1> QED BY <1>2, <1>3, <1>4, <1>5, <1>6 DEF IInv

\* A step that changes nothing.
LEMMA StutterHolds == IInv /\ UNCHANGED vars => IInv'
BY DEF IInv, TypeOK, AtStart, InBounds, UnseenAhead, RowsCount, NothingMissed,
       Rank, vars, walkVars

-----------------------------------------------------------------------------
(* The theorems *)

\* The invariant is inductive.
THEOREM Invariance == Spec => []IInv
<1>1. IInv /\ [Next]_vars => IInv'
  <2> SUFFICES ASSUME IInv, [Next]_vars PROVE IInv'
    OBVIOUS
  <2>1. ASSUME NEW a \in Ids, PutAccount(a) PROVE IInv'
    BY <2>1, PutAccountHolds
  <2>2. ASSUME NEW w \in Walkers, Begin(w) PROVE IInv'
    BY <2>2, BeginHolds
  <2>3. ASSUME NEW w \in Walkers, NextPage(w) PROVE IInv'
    BY <2>3, NextPageHolds
  <2>4. ASSUME NEW w \in Walkers, BoundsPanics(w) \/ GiveUp(w) PROVE IInv'
    BY <2>4, FailureHolds
  <2>5. CASE UNCHANGED vars
    BY <2>5, StutterHolds
  <2> QED BY <2>1, <2>2, <2>3, <2>4, <2>5 DEF Next
<1> QED BY <1>1, InitHolds, PTL DEF Spec

\* Every variable keeps its type; no walk skips more accounts than exist.
THEOREM TypeCorrect == Spec => []TypeOK
<1>1. IInv => TypeOK
  BY DEF IInv
<1> QED BY <1>1, Invariance, PTL

\* A walk that reaches its end has shown every account that existed when it
\* began (account/repository.go:60), for any page size but 0.
THEOREM NothingIsMissed == Spec => []NothingMissed
<1>1. IInv => NothingMissed
  BY DEF IInv
<1> QED BY <1>1, Invariance, PTL

\* No more accounts are shown twice than were created during the walk
\* (account/repository.go:60).
THEOREM RepeatsBounded == Spec => []RepeatsAreBounded
<1>1. ASSUME IInv PROVE RepeatsAreBounded
  <2> SUFFICES ASSUME NEW w \in Walkers
               PROVE  Cardinality(again[w]) <= Cardinality(accounts \ start[w])
    BY DEF RepeatsAreBounded
  <2> DEFINE shown == Ranked(0, skip[w])
             new   == accounts \ start[w]
  <2>1. /\ accounts \subseteq Ids /\ IsFiniteSet(accounts) /\ IsFiniteSet(Ids)
        /\ Cardinality(Ids) \in Nat
    BY <1>1, AccountsFinite DEF IInv, TypeOK
  <2>2. skip[w] \in Nat /\ skip[w] <= Cardinality(accounts)
    BY <1>1, <2>1 DEF IInv, TypeOK, InBounds
  <2>3. IsFiniteSet(shown) /\ Cardinality(shown) = skip[w]
    BY <2>1, <2>2, PrefixIsFull
  <2>4. shown \in SUBSET (seen[w] \cup new)
    <3> SUFFICES ASSUME NEW a \in accounts, Rank(a) < skip[w],
                        a \in start[w], a \notin seen[w]
                 PROVE  FALSE
      BY DEF Ranked
    <3>1. Rank(a) \in Nat
      BY <2>1, RankRange
    <3>2. Rank(a) >= skip[w]
      BY <1>1 DEF IInv, UnseenAhead
    <3> QED BY <2>2, <3>1, <3>2
  <2>5. IsFiniteSet(seen[w]) /\ IsFiniteSet(new) /\ IsFiniteSet(again[w])
    BY <1>1, <2>1, FS_Subset DEF IInv, TypeOK
  <2>6. /\ Cardinality(seen[w]) \in Nat /\ Cardinality(new) \in Nat
        /\ Cardinality(again[w]) \in Nat
        /\ Cardinality(seen[w] \cap new) \in Nat
    BY <2>5, FS_CardinalityType, FS_Intersection
  <2>7. /\ IsFiniteSet(seen[w] \cup new)
        /\ Cardinality(seen[w] \cup new)
             = Cardinality(seen[w]) + Cardinality(new) - Cardinality(seen[w] \cap new)
    BY <2>5, FS_Union
  <2>8. skip[w] <= Cardinality(seen[w] \cup new)
    BY <2>3, <2>4, <2>7, FS_Subset
  <2>9. Cardinality(again[w]) + Cardinality(seen[w]) <= skip[w]
    BY <1>1 DEF IInv, RowsCount
  <2> HIDE DEF new
  <2> QED BY <2>2, <2>6, <2>7, <2>8, <2>9 DEF new
<1> QED BY <1>1, Invariance, PTL
=============================================================================
