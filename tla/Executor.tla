------------------------------- MODULE Executor -------------------------------
(***************************************************************************)
(* The execution of one GraphQL request by the generated executor of the    *)
(* gateway (graphql/generated.go) on top of gqlgen's runtime, which calls   *)
(* the resolver of a field, recovers from its panics and records errors.    *)
(*                                                                          *)
(* A node of the response is named by its path: the names of the fields     *)
(* from the root, with the position in the list after the name of a list.   *)
(* What a node goes through is                                               *)
(*                                                                          *)
(*   waiting -> running -> open -> done or null                             *)
(*                                                                          *)
(* running while a resolver is at work for it, open while its children are. *)
(*                                                                          *)
(* A deferred field goes through the same in a field set of its own, once   *)
(* its object is done, and is sent apart.  In its object it is null, from   *)
(* the start and for good: no error is recorded for that null, and it is    *)
(* not counted as invalid.  So value says what has become of the field, and *)
(* Answer what its object has in its place.                                 *)
(***************************************************************************)
EXTENDS GraphSchema, Naturals, FiniteSets, SequencesExt

CONSTANTS
    Requests,       \* the requests that a client may send
    Lists           \* per list field, the lists that may be its answer: the names of their
                    \* positions, in a set

VARIABLES
    request,        \* the operation, what is selected at each field, what is deferred
    value,          \* the nodes of the response so far
    errors,         \* the nodes whose error was recorded
    sent,           \* the response is on its way
    delivered       \* the deferred nodes that were sent after it

vars == <<request, value, errors, sent, delivered>>

Positions == UNION { UNION Lists[f] : f \in DOMAIN Lists }

Names == {"*"} \cup Positions \cup UNION { DOMAIN Objects[t].fields : t \in DOMAIN Objects }

-----------------------------------------------------------------------------
(* Nodes                                                                     *)

(* What is at a node of a response depends on its path in the request, where *)
(* an asterisk stands for any element of a list.                              *)
Path(n) == [i \in 1 .. Len(n) |-> IF n[i] \in Positions THEN "*" ELSE n[i]]

(* The type of the objects at each path of a request.                        *)
Types == [ r \in Requests |-> [ p \in DOMAIN r.selection |->
             FoldLeft(LAMBDA t, f : IF f = "*" THEN t ELSE Objects[t].fields[f].of,
                      r.operation, p) ] ]

TypeOf(n) == Types[request][Path(n)]

IsElement(n) == n # <<>> /\ Last(n) \in Positions
IsField(n)   == n # <<>> /\ Last(n) \notin Positions
Parent(n)    == Front(n)
Holder(n)    == Objects[TypeOf(Parent(n))]
FieldOf(n)   == Holder(n).fields[Last(n)]

IsLeaf(n)     == IsField(n) /\ FieldOf(n).of \notin DOMAIN Objects
IsList(n)     == IsField(n) /\ FieldOf(n).many
IsResolver(n) == IsField(n) /\ <<TypeOf(Parent(n)), Last(n)>> \in Resolvers
IsDeferred(n) == IsField(n) /\ Path(n) \in request.deferred

Selection(n)  == request.selection[Path(n)]
Children(n)   == { m \in DOMAIN value : m # <<>> /\ Parent(m) = n }

Finished(n) == value[n] \in {"done", "null"}

(* Node n is deferred, or lies in what is.                                   *)
Postponed(n) == \E j \in 1 .. Len(n) : IsDeferred(SubSeq(n, 1, j))

(* What the object or the list that holds node n has for it.                 *)
Answer(n) == IF IsDeferred(n) THEN "null" ELSE value[n]

(* The children that the object or list at n waits for, and whose nulls it   *)
(* counts.  It does neither for a deferred one: the null in the place of     *)
(* that is there before any field runs, and is not counted.                  *)
Awaited(n) == { m \in Children(n) : ~IsDeferred(m) }

(* The fields of the objects os, before any was looked at.  Leaves are read  *)
(* on the spot; those in nulls turn out null.  A deferred field is null in   *)
(* its object from here on (Answer), and has yet to be started.              *)
Fields(os) == UNION { { Append(o, f) : f \in Range(Selection(o)) } : o \in os }

Born(os, nulls) ==
    [ m \in Fields(os) |->
        CASE IsLeaf(m)                    -> IF m \in nulls THEN "null" ELSE "done"
          [] IsDeferred(m) /\ ~IsLeaf(m) -> "deferred"
          [] OTHER                         -> "waiting" ]

(* A leaf may turn out null if it is a nil string, or the zero time of the   *)
(* one order that an account without orders is shown with.                   *)
NullLeaves(os) ==
    { m \in Fields(os) : IsLeaf(m) /\
        \/ FieldOf(m).nullable /\ FieldOf(m).of = "String"
        \/ FieldOf(m).of \in ZeroIsNull /\ Cardinality(os) = 1 /\ "orders" \in Range(m) }

-----------------------------------------------------------------------------
(* The requests that reach the executor are valid: every object is selected  *)
(* from, and only the fields it has, in the end scalars; what is deferred    *)
(* may be.  Lists are known where they are selected, and the name of a       *)
(* position is not that of a field.                                           *)
FieldIsValid(r, p, f) ==
    LET object == Objects[Types[r][p]]
        field  == object.fields[f]
    IN  /\ f \in DOMAIN object.fields \ Positions
        /\ field.of \in DOMAIN Objects =>
              IF field.many
              THEN f \in DOMAIN Lists /\ Append(Append(p, f), "*") \in DOMAIN r.selection
              ELSE Append(p, f) \in DOMAIN r.selection
        /\ Append(p, f) \in r.deferred => f \in object.deferrable

IsValid(r) ==
    /\ r.operation \in {"Query", "Mutation"}
    /\ <<>> \in DOMAIN r.selection
    /\ \A p \in DOMAIN r.selection :
          /\ p \in Seq(Names)
          /\ Types[r][p] \in DOMAIN Objects
          /\ r.selection[p] \in Seq(Names)
          /\ \A f \in Range(r.selection[p]) : FieldIsValid(r, p, f)

ASSUME ExecutorAssumption == \A r \in Requests : IsValid(r)

-----------------------------------------------------------------------------
Init ==
    /\ request \in Requests
    /\ value = Born({<<>>}, {}) ++ [n \in {<<>>} |-> "open"]
    /\ errors = {}
    /\ sent = FALSE
    /\ delivered = {}

(* The fields of an object run in the order of the selection, except the     *)
(* concurrent ones, which Dispatch starts after all the others.              *)
Ready(n) ==
    LET names      == Selection(Parent(n))
        concurrent == Holder(n).concurrent
        Before(f)  == f \notin concurrent /\
                      (Last(n) \in concurrent \/ 
                       \E i, j \in DOMAIN names : i < j /\ names[i] = f /\ names[j] = Last(n))
    IN  /\ value[n] = "waiting"
        /\ \A f \in Range(names) : Before(f) => Finished(Append(Parent(n), f))

(* The node n turns out null.                                                *)
BecomesNull(n) == value' = [value EXCEPT ![n] = "null"]

(* Mutant: unreadable arguments are not reported.                            *)
RefuseArgumentsSilently(n) ==
    /\ Ready(n)
    /\ Refusable(Last(n))
    /\ BecomesNull(n)
    /\ UNCHANGED <<request, errors, sent, delivered>>

(* The arguments of the field cannot be read; its resolver is not called.    *)
RefuseArguments(n) ==
    /\ Ready(n)
    /\ Refusable(Last(n))
    /\ BecomesNull(n)
    /\ errors' = errors \cup {n}
    /\ UNCHANGED <<request, sent, delivered>>

CallResolver(n) ==
    /\ Ready(n)
    /\ IsResolver(n)
    /\ value' = [value EXCEPT ![n] = "running"]
    /\ UNCHANGED <<request, errors, sent, delivered>>

(* The resolver returns an error, misses its deadline or panics.             *)
ResolverFails(n) ==
    /\ value[n] = "running"
    /\ BecomesNull(n)
    /\ errors' = errors \cup {n}
    /\ UNCHANGED <<request, sent, delivered>>

(* The value of a field is there: its elements, or its fields, get nodes.    *)
Marshal(n) ==
    \E items \in (IF IsList(n) THEN Lists[Last(n)] ELSE {{}}) :
      LET elements == { Append(n, p) : p \in items }
          objects  == IF IsList(n) THEN elements ELSE {n}
      IN  /\ Last(n) = "orders" => items # {}
          /\ \E nulls \in SUBSET NullLeaves(objects) :
                /\ value' = Born(objects, nulls)
                             ++ [ m \in elements |-> "open" ]
                             ++ [value EXCEPT ![n] = "open"]
                /\ errors' = errors \cup { m \in nulls : ~FieldOf(m).nullable }
          /\ UNCHANGED <<request, sent, delivered>>

ResolverReturns(n) == value[n] = "running" /\ Marshal(n)

(* A field whose value lies in the object that holds it, or in the schema.   *)
ReadProperty(n) == Ready(n) /\ ~IsResolver(n) /\ Marshal(n)

NilProperty(n) ==
    /\ Ready(n)
    /\ ~IsResolver(n)
    /\ FieldOf(n).nullable
    /\ BecomesNull(n)
    /\ UNCHANGED <<request, errors, sent, delivered>>

(* All children of the object or list at n are there.  A null element makes  *)
(* the list null, a null field that is required the object, unless it is null*)
(* for being deferred.  Then the deferred fields of an object that is not    *)
(* null are started, each in a field set of its own.                         *)
Invalid(n) ==
    \E m \in Awaited(n) :
        /\ value[m] = "null"
        /\ IsElement(m) \/ Last(m) \in Holder(m).required

(* Mutants: a goroutine that failed is not counted as done; the goroutines   *)
(* of an object are not waited for.                                           *)
JoinUncounted(n) ==
    /\ value[n] = "open"
    /\ \A m \in Awaited(n) : value[m] = "done"
    /\ value' = [ m \in DOMAIN value |->
                     CASE m = n                              -> "done"
                       [] m \in Children(n) \ Awaited(n) -> "waiting"
                       [] OTHER                              -> value[m] ]
    /\ UNCHANGED <<request, errors, sent, delivered>>

JoinEarly(n) ==
    /\ value[n] = "open"
    /\ \A m \in Awaited(n) : Finished(m) \/ (IsField(m) /\ Last(m) \in Holder(m).concurrent)
    /\ value' = [value EXCEPT ![n] = IF Invalid(n) THEN "null" ELSE "done"]
    /\ UNCHANGED <<request, errors, sent, delivered>>

Join(n) ==
    /\ value[n] = "open"
    /\ \A m \in Awaited(n) : Finished(m)
    /\ value' = IF Invalid(n)
                THEN [value EXCEPT ![n] = "null"]
                ELSE [ m \in DOMAIN value |->
                         CASE m = n                              -> "done"
                           [] m \in Children(n) \ Awaited(n) -> "waiting"
                           [] OTHER                              -> value[m] ]
    /\ UNCHANGED <<request, errors, sent, delivered>>

Respond ==
    /\ ~sent
    /\ Finished(<<>>)
    /\ sent' = TRUE
    /\ UNCHANGED <<request, value, errors, delivered>>

(* A client on a WebSocket is sent the deferred parts of a query as they     *)
(* come.  Other transports ask for one response, and that of a mutation is   *)
(* the only one; then the goroutines of the deferred parts wait for ever.    *)
SendsLater(r) == r.transport = "websocket" /\ r.operation = "Query"

(* Mutants: a deferred part is sent before it is complete; one deferred part *)
(* is taken for all.                                                          *)
DeliverAtOnce(n) ==
    /\ sent
    /\ SendsLater(request)
    /\ IsDeferred(n)
    /\ n \notin delivered
    /\ delivered' = delivered \cup {n}
    /\ UNCHANGED <<request, value, errors, sent>>

DeliverOne(n) ==
    /\ sent
    /\ SendsLater(request)
    /\ IsDeferred(n)
    /\ Finished(n)
    /\ delivered = {}
    /\ delivered' = {n}
    /\ UNCHANGED <<request, value, errors, sent>>

Deliver(n) ==
    /\ sent
    /\ SendsLater(request)
    /\ IsDeferred(n)
    /\ Finished(n)
    /\ n \notin delivered
    /\ delivered' = delivered \cup {n}
    /\ UNCHANGED <<request, value, errors, sent>>

Next ==
    \/ \E n \in DOMAIN value :
          \/ RefuseArguments(n)
          \/ CallResolver(n)
          \/ ResolverReturns(n)
          \/ ResolverFails(n)
          \/ ReadProperty(n)
          \/ NilProperty(n)
          \/ Join(n)
          \/ Deliver(n)
    \/ Respond

(* Goroutines are scheduled, and every resolver has a deadline.              *)
Spec == Init /\ [][Next]_vars /\ WF_vars(Next)

-----------------------------------------------------------------------------
(* The nodes of a response form a tree, in known states; errors name nodes,  *)
(* and only finished deferred parts are delivered.                            *)
TypeOK ==
    /\ request \in Requests
    /\ \A n \in DOMAIN value :
          /\ value[n] \in {"deferred", "waiting", "running", "open", "done", "null"}
          /\ n # <<>> => Parent(n) \in DOMAIN value
    /\ errors \subseteq DOMAIN value
    /\ sent \in BOOLEAN
    /\ \A n \in delivered : n \in DOMAIN value /\ IsDeferred(n) /\ Finished(n)
-----------------------------------------------------------------------------
(* What schema.graphql, and the GraphQL specification for the types whose    *)
(* names begin with two underscores, declare without an exclamation mark.    *)
DeclaredNullable ==
    ({"Mutation"} \X {"createAccount", "createProduct", "createOrder"})
    \cup ({"Query"} \X {"__type", "__schema"})
    \cup ({"__Schema", "__Directive", "__EnumValue", "__Field", "__InputValue", "__Type"}
           \X {"description"})
    \cup ({"__EnumValue", "__Field", "__InputValue"} \X {"deprecationReason"})
    \cup { <<"__InputValue", "defaultValue">>, <<"__Schema", "mutationType">>,
           <<"__Schema", "subscriptionType">> }
    \cup ({"__Type"} \X {"name", "specifiedByURL", "fields", "interfaces", "possibleTypes",
                          "enumValues", "inputFields", "ofType", "isOneOf"})

MustBeThere(n) == IsField(n) => <<TypeOf(Parent(n)), Last(n)>> \notin DeclaredNullable

(* The null of node m is passed on to node n, which contains it: everything  *)
(* from below n down to m must be there, and was not deferred.               *)
PassedOn(m, n) ==
    /\ IsPrefix(n, m)
    /\ \A j \in Len(n) + 1 .. Len(m) :
          LET q == SubSeq(m, 1, j) IN MustBeThere(q) /\ ~IsDeferred(q)

(* A field is null by itself if there is nothing below it that could be.     *)
Source(m) == value[m] = "null" /\ Children(m) = {}

(* A node is null exactly if it is null by itself or must be because of      *)
(* something in it: one failed history nulls its account, that the list of   *)
(* all accounts, that the whole response; a failed mutation nulls nothing    *)
(* but its own result.  The null in the place of a deferred field nulls      *)
(* nothing, and what comes of the field later nulls no more than the part    *)
(* that is sent for it.  (graphql/generated.go: what each object counts as   *)
(* invalid, and each list passes on, against the declarations of             *)
(* schema.graphql.)                                                          *)
NullsReachWhatTheyMust ==
    sent => \A n \in DOMAIN value : Finished(n) =>
        (value[n] = "null" <=> \E m \in DOMAIN value : Source(m) /\ PassedOn(m, n))

(* A null where the schema allows none comes with an error at or below it,   *)
(* with one exception: the null in the place of a deferred field has none,   *)
(* although schema.graphql:13 rules it out ("orders: [Order!]!"), and over   *)
(* POST, or in a mutation, it is all that the client gets.  In the part for  *)
(* a deferred field nulls have their errors like elsewhere.  And what an     *)
(* error names is null: no part is right and says it is wrong.               *)
(* (graphql/generated.go: the marshallers, and what _Account does for        *)
(* orders.)                                                                  *)
ErrorsTellOfNulls ==
    sent =>
      /\ \A n \in DOMAIN value : Answer(n) = "null" /\ MustBeThere(n) =>
            IsDeferred(n) \/ \E e \in errors : PassedOn(e, n)
      /\ \A n \in DOMAIN value : IsDeferred(n) /\ value[n] = "null" /\ MustBeThere(n) =>
            \E e \in errors : PassedOn(e, n)
      /\ \A e \in errors : value[e] = "null"

(* The mutations of a request run one after the other: while one is at work, *)
(* the answers of those before it are complete, down to the last field that  *)
(* is not deferred, and none after it has begun.                              *)
MutationsInTurn ==
    request.operation = "Mutation" =>
        \A n \in DOMAIN value : Len(n) = 1 /\ value[n] \in {"running", "open"} =>
            \A m \in DOMAIN value : m # <<>> /\ m[1] # n[1] =>
                LET names == Selection(<<>>)
                    Place(f) == CHOOSE i \in DOMAIN names : names[i] = f
                IN  IF Place(m[1]) < Place(n[1]) THEN Finished(m) \/ Postponed(m) ELSE value[m] = "waiting"

(* Once the response is sent, nothing that belongs to it is at work: no      *)
(* goroutine of a list or of a concurrent field outlives the wait for it.    *)
(* What was deferred may be.                                                  *)
NoStragglers ==
    sent => \A n \in DOMAIN value : Finished(n) \/ Postponed(n)

(* What was sent is not written to any more, nor added to: the goroutines    *)
(* that go on after the response write to nothing but deferred parts.        *)
AnswerIsFinal ==
    [][sent => \A n \in DOMAIN value' :
          ~Postponed(n) => n \in DOMAIN value /\ value'[n] = value[n]]_vars

(* Every request is answered, however its resolvers fail: no join waits for  *)
(* a goroutine that has ended.                                                *)
Responds == <>sent

(* What a query on a WebSocket deferred arrives in the end, unless its       *)
(* object turned out null.  (processDeferredGroup and Exec)               *)
DeferredArrives ==
    <>[](SendsLater(request) =>
            \A n \in DOMAIN value :
                IsDeferred(n) /\ value[Parent(n)] = "done" => n \in delivered)
=============================================================================
