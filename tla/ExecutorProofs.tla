---------------------------- MODULE ExecutorProofs ----------------------------
(***************************************************************************)
(* Proofs about the execution of a GraphQL request (Executor), for any     *)
(* valid requests and lists of any length.                                 *)
(***************************************************************************)
EXTENDS Executor, SequenceTheorems, TLAPS

-----------------------------------------------------------------------------
(* Paths: prefixes of sequences                                             *)

\* What is true of a node and a node just below it.
LEMMA BelowNode ==
  ASSUME NEW n \in Seq(Names), NEW f \in Names
  PROVE  /\ Append(n, f) \in Seq(Names)
         /\ Append(n, f) # <<>>
         /\ Len(Append(n, f)) = Len(n) + 1
         /\ Parent(Append(n, f)) = n
         /\ Last(Append(n, f)) = f
<1> DEFINE c == Append(n, f)
<1>1. /\ c \in Seq(Names) /\ c # <<>> /\ Len(c) = Len(n) + 1
      /\ \A i \in 1 .. Len(n) : c[i] = n[i]
      /\ c[Len(n) + 1] = f
      /\ Len(n) \in Nat
  <2>1. Len(n) \in Nat
    BY LenProperties
  <2>2. c \in Seq(Names) /\ c # <<>> /\ Len(c) = Len(n) + 1
    BY AppendProperties
  <2>3. \A i \in 1 .. Len(n) : c[i] = n[i]
    BY AppendProperties
  <2>4. c[Len(n) + 1] = f
    BY AppendProperties
  <2> QED
    BY <2>1, <2>2, <2>3, <2>4
<1>2. Last(c) = f
  BY <1>1 DEF Last
<1>3. Parent(c) = SubSeq(c, 1, Len(n))
  BY <1>1 DEF Parent, Front
<1>4. SubSeq(c, 1, Len(n)) = n
  <2>1. \A i \in 1 .. Len(n) : c[i] \in Names
    BY <1>1, ElementOfSeq
  <2>2. /\ SubSeq(c, 1, Len(n)) \in Seq(Names)
        /\ Len(SubSeq(c, 1, Len(n))) = Len(n)
        /\ \A i \in 1 .. Len(n) : SubSeq(c, 1, Len(n))[i] = n[i]
    <3> HIDE DEF c
    <3> QED
      BY <1>1, <2>1, SubSeqProperties
  <2> HIDE DEF c
  <2> QED
    BY <2>2, SeqEqual
<1> QED
  BY <1>1, <1>2, <1>3, <1>4

\* The first j names of a node name a node as well.
LEMMA PrefixType ==
  ASSUME NEW n \in Seq(Names), NEW j \in 0 .. Len(n)
  PROVE  /\ SubSeq(n, 1, j) \in Seq(Names)
         /\ Len(SubSeq(n, 1, j)) = j
         /\ \A i \in 1 .. j : SubSeq(n, 1, j)[i] = n[i]
<1>1. Len(n) \in Nat /\ \A i \in 1 .. j : n[i] \in Names
  BY LenProperties, ElementOfSeq
<1>2. 1 \in Int /\ j \in Int
  BY <1>1
<1>3. /\ SubSeq(n, 1, j) \in Seq(Names)
      /\ Len(SubSeq(n, 1, j)) = IF 1 <= j THEN j - 1 + 1 ELSE 0
      /\ \A i \in 1 .. j - 1 + 1 : SubSeq(n, 1, j)[i] = n[1 + i - 1]
  BY <1>1, <1>2, SubSeqProperties
<1>4. j - 1 + 1 = j /\ \A i \in 1 .. j : 1 + i - 1 = i
  BY <1>2
<1>5. Len(SubSeq(n, 1, j)) = j
  BY <1>1, <1>3, <1>4
<1>6. \A i \in 1 .. j : SubSeq(n, 1, j)[i] = n[i]
  BY <1>3, <1>4
<1> QED
  BY <1>3, <1>5, <1>6

\* Two prefixes of a node are prefixes of each other.
LEMMA PrefixOfPrefix ==
  ASSUME NEW n \in Seq(Names), NEW j \in 0 .. Len(n), NEW k \in 0 .. j
  PROVE  SubSeq(SubSeq(n, 1, j), 1, k) = SubSeq(n, 1, k)
<1> DEFINE p == SubSeq(n, 1, j)
<1>1. Len(n) \in Nat /\ k \in 0 .. Len(n)
  BY LenProperties
<1>2. p \in Seq(Names) /\ Len(p) = j /\ \A i \in 1 .. j : p[i] = n[i]
  BY PrefixType
<1>3. /\ SubSeq(n, 1, k) \in Seq(Names) /\ Len(SubSeq(n, 1, k)) = k
      /\ \A i \in 1 .. k : SubSeq(n, 1, k)[i] = n[i]
  BY <1>1, PrefixType
<1> HIDE DEF p
<1>4. /\ SubSeq(p, 1, k) \in Seq(Names) /\ Len(SubSeq(p, 1, k)) = k
      /\ \A i \in 1 .. k : SubSeq(p, 1, k)[i] = p[i]
  BY <1>2, PrefixType
<1>5. \A i \in 1 .. k : SubSeq(p, 1, k)[i] = SubSeq(n, 1, k)[i]
  BY <1>2, <1>3, <1>4
<1>6. SubSeq(p, 1, k) = SubSeq(n, 1, k)
  BY <1>3, <1>4, <1>5, SeqEqual
<1> QED
  BY <1>6 DEF p

\* All names of a node are the node, none of them the root.
LEMMA WholeAndRoot ==
  ASSUME NEW n \in Seq(Names)
  PROVE  /\ Len(n) \in Nat
         /\ SubSeq(n, 1, Len(n)) = n
         /\ SubSeq(n, 1, 0) = <<>>
         /\ n # <<>> <=> Len(n) > 0
         /\ <<>> \in Seq(Names) /\ Len(<<>>) = 0
BY LenProperties, SubSeqFull, SubSeqEmpty, EmptySeq

\* A node that is not the root is below its parent.
LEMMA AboveNode ==
  ASSUME NEW n \in Seq(Names), n # <<>>
  PROVE  /\ Parent(n) \in Seq(Names)
         /\ Last(n) \in Names
         /\ Len(Parent(n)) = Len(n) - 1
         /\ Parent(n) = SubSeq(n, 1, Len(n) - 1)
         /\ n = Append(Parent(n), Last(n))
<1>1. PICK p \in Seq(Names), f \in Names : n = Append(p, f)
  BY SequenceEmptyOrAppend
<1>2. Parent(n) = p /\ Last(n) = f /\ Len(n) = Len(p) + 1
  BY <1>1, BelowNode
<1>3. Parent(n) = SubSeq(n, 1, Len(n) - 1)
  BY DEF Parent, Front
<1>4. Len(p) = Len(n) - 1
  <2>1. Len(p) \in Nat
    BY WholeAndRoot
  <2> QED
    BY <1>2, <2>1
<1> QED
  BY <1>1, <1>2, <1>3, <1>4

-----------------------------------------------------------------------------
(* Chains: the nodes from below n down to m                                 *)

Chain(m, n, S) ==
    /\ IsPrefix(n, m)
    /\ \A j \in Len(n) + 1 .. Len(m) : SubSeq(m, 1, j) \in S

\* A prefix of a node is found among its first names.
LEMMA PrefixIs ==
  ASSUME NEW m \in Seq(Names), NEW n \in Seq(Names)
  PROVE  IsPrefix(n, m) <=> Len(n) <= Len(m) /\ n = SubSeq(m, 1, Len(n))
BY WholeAndRoot DEF IsPrefix

\* A node is at both ends of its own chain.
LEMMA ChainSelf ==
  ASSUME NEW n \in Seq(Names), NEW S
  PROVE  Chain(n, n, S)
BY WholeAndRoot, PrefixIs DEF Chain

\* A chain goes down from n by a child of n, which is in the set.
LEMMA ChainDown ==
  ASSUME NEW m \in Seq(Names), NEW n \in Seq(Names), NEW S,
         Chain(m, n, S), m # n
  PROVE  \E k \in 1 .. Len(m) :
            LET c == SubSeq(m, 1, k)
            IN  /\ c \in Seq(Names) /\ c # <<>>
                /\ Parent(c) = n
                /\ c \in S
                /\ Chain(m, c, S)
<1> DEFINE k == Len(n) + 1
           c == SubSeq(m, 1, k)
<1>1. Len(n) \in Nat /\ Len(m) \in Nat /\ Len(n) <= Len(m) /\ n = SubSeq(m, 1, Len(n))
  BY WholeAndRoot, PrefixIs DEF Chain
<1>2. Len(n) # Len(m)
  BY <1>1, WholeAndRoot
<1>3. k \in 1 .. Len(m) /\ k \in 0 .. Len(m) /\ k - 1 = Len(n) /\ Len(n) \in 0 .. k
  BY <1>1, <1>2
<1>4. c \in Seq(Names) /\ Len(c) = k
  BY <1>3, PrefixType
<1>5. c # <<>>
  BY <1>1, <1>4, WholeAndRoot
<1>6. Parent(c) = n
  <2>1. Parent(c) = SubSeq(c, 1, Len(n))
    <3> HIDE DEF c, k
    <3> QED
      BY <1>3, <1>4, <1>5, AboveNode
  <2>2. SubSeq(c, 1, Len(n)) = SubSeq(m, 1, Len(n))
    <3> HIDE DEF k
    <3> QED
      BY <1>3, PrefixOfPrefix
  <2> QED
    BY <1>1, <2>1, <2>2
<1>7. \A j \in k .. Len(m) : SubSeq(m, 1, j) \in S
  BY DEF Chain
<1>8. c \in S
  BY <1>1, <1>3, <1>7
<1>9. Chain(m, c, S)
  <2>1. Len(c) <= Len(m) /\ c = SubSeq(m, 1, Len(c))
    BY <1>3, <1>4
  <2>2. IsPrefix(c, m)
    <3> HIDE DEF c
    <3> QED
      BY <1>4, <2>1, PrefixIs
  <2>3. \A j \in Len(c) + 1 .. Len(m) : j \in k .. Len(m)
    BY <1>1, <1>4
  <2> HIDE DEF c, k
  <2> QED
    BY <1>7, <2>2, <2>3 DEF Chain
<1> QED
  BY <1>3, <1>4, <1>5, <1>6, <1>8, <1>9

\* A chain that ends at a node of the set goes on to the parent of that node.
LEMMA ChainJoin ==
  ASSUME NEW m \in Seq(Names), NEW c \in Seq(Names), NEW S,
         c # <<>>, c \in S, Chain(m, c, S)
  PROVE  Chain(m, Parent(c), S)
<1> DEFINE n == Parent(c)
<1>1. n \in Seq(Names) /\ Len(n) = Len(c) - 1 /\ n = SubSeq(c, 1, Len(c) - 1)
  BY AboveNode
<1>2. /\ Len(m) \in Nat /\ Len(c) \in Nat /\ Len(c) > 0 /\ Len(c) <= Len(m)
      /\ c = SubSeq(m, 1, Len(c))
  BY WholeAndRoot, PrefixIs DEF Chain
<1>3. Len(c) \in 0 .. Len(m) /\ Len(n) \in 0 .. Len(c) /\ Len(n) <= Len(m)
  BY <1>1, <1>2
<1>4. n = SubSeq(m, 1, Len(n))
  <2>1. n = SubSeq(SubSeq(m, 1, Len(c)), 1, Len(n))
    BY <1>1, <1>2
  <2> HIDE DEF n
  <2> QED
    BY <1>3, <2>1, PrefixOfPrefix
<1>5. IsPrefix(n, m)
  BY <1>1, <1>3, <1>4, PrefixIs
<1>6. ASSUME NEW j \in Len(n) + 1 .. Len(m)
      PROVE  SubSeq(m, 1, j) \in S
  <2>1. CASE j = Len(c)
    BY <1>2, <2>1
  <2>2. CASE j # Len(c)
    <3>1. Len(n) + 1 = Len(c)
      BY <1>1, <1>2
    <3>2. j \in Len(c) .. Len(m)
      BY <3>1
    <3>3. j \in Len(c) + 1 .. Len(m)
      <4>1. \A a, b, i \in Int : i \in a .. b /\ i # a => i \in a + 1 .. b
        OBVIOUS
      <4>2. j \in Int /\ Len(c) \in Int /\ Len(m) \in Int
        BY <1>2, <3>2
      <4> QED
        BY <2>2, <3>2, <4>1, <4>2
    <3> QED
      BY <3>3 DEF Chain
  <2> QED
    BY <2>1, <2>2
<1> QED
  BY <1>5, <1>6 DEF Chain

\* A chain that does not begin at its end passes the parent of where it begins.
LEMMA ChainUp ==
  ASSUME NEW m \in Seq(Names), NEW n \in Seq(Names), NEW S,
         Chain(m, n, S), m # n
  PROVE  m # <<>> /\ Chain(Parent(m), n, S)
<1> DEFINE p == Parent(m)
<1>1. Len(n) \in Nat /\ Len(m) \in Nat /\ Len(n) <= Len(m) /\ n = SubSeq(m, 1, Len(n))
  BY WholeAndRoot, PrefixIs DEF Chain
<1>2. Len(n) # Len(m)
  BY <1>1, WholeAndRoot
<1>3. m # <<>>
  BY <1>1, <1>2, WholeAndRoot
<1>4. p \in Seq(Names) /\ Len(p) = Len(m) - 1 /\ p = SubSeq(m, 1, Len(m) - 1)
  BY <1>3, AboveNode
<1>5. Len(m) - 1 \in 0 .. Len(m) /\ \A k \in 0 .. Len(p) : k \in 0 .. Len(m) - 1
  BY <1>1, <1>2, <1>4
<1>6. \A k \in 0 .. Len(p) : SubSeq(p, 1, k) = SubSeq(m, 1, k)
  <2> HIDE DEF p
  <2> QED
    BY <1>4, <1>5, PrefixOfPrefix
<1>7. Len(n) \in 0 .. Len(p) /\ Len(n) <= Len(p)
  BY <1>1, <1>2, <1>4
<1>8. IsPrefix(n, p)
  <2>1. n = SubSeq(p, 1, Len(n))
    BY <1>1, <1>6, <1>7
  <2> HIDE DEF p
  <2> QED
    BY <1>4, <1>7, <2>1, PrefixIs
<1>9. ASSUME NEW j \in Len(n) + 1 .. Len(p)
      PROVE  SubSeq(p, 1, j) \in S
  <2>1. j \in 0 .. Len(p) /\ j \in Len(n) + 1 .. Len(m)
    BY <1>1, <1>4
  <2>2. SubSeq(m, 1, j) \in S
    BY <2>1 DEF Chain
  <2> QED
    BY <1>6, <2>1, <2>2
<1> QED
  BY <1>3, <1>8, <1>9 DEF Chain

-----------------------------------------------------------------------------
(* The schema                                                               *)

\* What the code of an object and of its fields do with a null agrees with the
\* declaration, and a field that may be deferred is no scalar.
Agrees(t, object, f) ==
    LET field == object.fields[f]
    IN  /\ f \in object.required <=> <<t, f>> \notin DeclaredNullable
        /\ field.nullable <=> <<t, f>> \in DeclaredNullable
        /\ f \in object.deferrable => field.of \in DOMAIN Objects

\* Every field of every type is as schema.graphql declares it: the object that
\* holds it counts its null as invalid, and its marshaller reports one as an error,
\* exactly where the declaration has an exclamation mark (graphql/generated.go).
THEOREM SchemaAgrees ==
  \A t \in DOMAIN Objects :
     \A f \in DOMAIN Objects[t].fields : Agrees(t, Objects[t], f)
<1> USE DEF Agrees, DeclaredNullable, Object, Inline, One, Maybe, Value, Strings, MaybeStrings, ++
<1>1. DOMAIN Objects = {"Account", "Mutation", "Order", "OrderedProduct", "Product",
                        "Query", "__Directive", "__EnumValue", "__Field", "__InputValue",
                        "__Schema", "__Type"}
  BY DEF Objects
<1>2. \A f \in DOMAIN Account.fields : Agrees("Account", Account, f)
  BY <1>1 DEF Account, AccountFields, OrderList
<1>3. \A f \in DOMAIN Mutation.fields : Agrees("Mutation", Mutation, f)
  BY DEF Mutation, MutationFields
<1>4. \A f \in DOMAIN Order.fields : Agrees("Order", Order, f)
  BY DEF Order, OrderFields, OrderedProductList
<1>5. \A f \in DOMAIN OrderedProduct.fields : Agrees("OrderedProduct", OrderedProduct, f)
  BY DEF OrderedProduct, OrderedProductFields
<1>6. \A f \in DOMAIN Product.fields : Agrees("Product", Product, f)
  BY DEF Product, ProductFields
<1>7. \A f \in DOMAIN Query.fields : Agrees("Query", Query, f)
  BY DEF Query, QueryFields, MetaFields, AccountList, ProductList
<1>8. \A f \in DOMAIN Directive.fields : Agrees("__Directive", Directive, f)
  BY DEF Directive, DirectiveFields, LocationList, InputValueList
<1>9. \A f \in DOMAIN EnumValue.fields : Agrees("__EnumValue", EnumValue, f)
  BY DEF EnumValue, EnumValueFields
<1>10. \A f \in DOMAIN Field.fields : Agrees("__Field", Field, f)
  BY DEF Field, FieldFields, EnumValueFields, InputValueList
<1>11. \A f \in DOMAIN InputValue.fields : Agrees("__InputValue", InputValue, f)
  BY DEF InputValue, InputValueFields
<1>12. \A f \in DOMAIN Schema.fields : Agrees("__Schema", Schema, f)
  BY DEF Schema, SchemaFields, TypeList, DirectiveList
<1>13. \A f \in DOMAIN Type.fields : Agrees("__Type", Type, f)
  BY DEF Type, TypeNameFields, TypeShapeFields, TypeInputFields, MaybeFieldList,
         MaybeTypeList, MaybeEnumValueList, MaybeInputValueList
<1> HIDE DEF Agrees
<1>14. \A t \in DOMAIN Objects :
          \/ t = "Account" /\ Objects[t] = Account
          \/ t = "Mutation" /\ Objects[t] = Mutation
          \/ t = "Order" /\ Objects[t] = Order
          \/ t = "OrderedProduct" /\ Objects[t] = OrderedProduct
          \/ t = "Product" /\ Objects[t] = Product
          \/ t = "Query" /\ Objects[t] = Query
          \/ t = "__Directive" /\ Objects[t] = Directive
          \/ t = "__EnumValue" /\ Objects[t] = EnumValue
          \/ t = "__Field" /\ Objects[t] = Field
          \/ t = "__InputValue" /\ Objects[t] = InputValue
          \/ t = "__Schema" /\ Objects[t] = Schema
          \/ t = "__Type" /\ Objects[t] = Type
  BY DEF Objects
<1> QED
  BY <1>2, <1>3, <1>4, <1>5, <1>6, <1>7, <1>8, <1>9, <1>10, <1>11, <1>12, <1>13, <1>14

\* The fields of a mutation yield objects, run in turn and are never deferred
\* (_Mutation).
LEMMA MutationFacts ==
  /\ Objects["Mutation"].concurrent = {}
  /\ Objects["Mutation"].deferrable = {}
  /\ \A f \in DOMAIN Objects["Mutation"].fields :
        Objects["Mutation"].fields[f].of \in DOMAIN Objects
BY DEF Objects, Mutation, Inline, Object, MutationFields, Maybe, Value

-----------------------------------------------------------------------------
(* The inductive invariant                                                  *)

\* The nodes form a tree.
Tree ==
    /\ <<>> \in DOMAIN value
    /\ \A n \in DOMAIN value :
          /\ n \in Seq(Names)
          /\ \A j \in 0 .. Len(n) : SubSeq(n, 1, j) \in DOMAIN value

\* A field was selected, and an element, which is one of a list, is selected from.
Chosen(n) ==
    /\ IsField(n) => /\ Path(Parent(n)) \in DOMAIN request.selection
                     /\ Last(n) \in Range(Selection(Parent(n)))
    /\ IsElement(n) => IsList(Parent(n)) /\ Path(n) \in DOMAIN request.selection

Selected == \A n \in DOMAIN value : Chosen(n)

\* A node is opened before it has children, a leaf or an element at once, and a
\* deferred field rests while its object is open.
Opened == {"open", "done", "null"}

Staged(n) ==
    /\ value[n] \in {"deferred", "waiting", "running"} \cup Opened
    /\ n # <<>> => value[Parent(n)] \in Opened
    /\ value[n] \notin Opened => IsField(n) /\ ~IsLeaf(n)
    /\ value[n] = "deferred" => IsDeferred(n)
    /\ IsDeferred(n) /\ value[Parent(n)] = "open" => value[n] = "deferred"

Stages == \A n \in DOMAIN value : Staged(n)

\* What a finished node waited for is finished, at any depth.
Kept == { q \in Seq(Names) : ~IsDeferred(q) }

Joined ==
    \A n, m \in DOMAIN value : Finished(n) /\ Chain(m, n, Kept) => Finished(m)

\* A finished node is null exactly if a null reaches it.
Passing == { q \in Seq(Names) : MustBeThere(q) /\ ~IsDeferred(q) }

Reached(n) == \E m \in DOMAIN value : Source(m) /\ Chain(m, n, Passing)

NullsPassedOn ==
    \A n \in DOMAIN value : Finished(n) => (value[n] = "null" <=> Reached(n))

\* An error explains every null that is not allowed, and names a null.
NullsExplained ==
    /\ \A n \in DOMAIN value : value[n] = "null" /\ MustBeThere(n) =>
          \E e \in errors : Chain(e, n, Passing)
    /\ \A e \in errors : e \in DOMAIN value /\ value[e] = "null"

\* A mutation is begun when those before it are finished.
Precedes(x, y) ==
    \E i, j \in DOMAIN Selection(<<>>) :
       i < j /\ Selection(<<>>)[i] = x[1] /\ Selection(<<>>)[j] = y[1]

InTurn ==
    request.operation = "Mutation" =>
       \A x, y \in DOMAIN value :
          Len(x) = 1 /\ Len(y) = 1 /\ Precedes(x, y) /\ value[y] # "waiting" => Finished(x)

\* The response was sent when the root was finished; deferred parts are delivered
\* when they are.
Answered ==
    /\ sent \in BOOLEAN
    /\ sent => Finished(<<>>)
    /\ \A n \in delivered : n \in DOMAIN value /\ IsDeferred(n) /\ Finished(n)

Shape == request \in Requests /\ Tree /\ Selected /\ Stages

Inv == Shape /\ Joined /\ NullsPassedOn /\ NullsExplained /\ InTurn /\ Answered

-----------------------------------------------------------------------------
(* Nodes                                                                    *)

\* A chain through some nodes is one through more.
LEMMA ChainMore ==
  ASSUME NEW m, NEW n, NEW S, NEW T, S \subseteq T, Chain(m, n, S)
  PROVE  Chain(m, n, T)
BY DEF Chain

\* What is passed on is waited for.
LEMMA PassingIsKept == Passing \subseteq Kept
BY DEF Passing, Kept

\* A null is passed on along a chain.
LEMMA PassedOnIsChain ==
  ASSUME NEW m \in Seq(Names), NEW n \in Seq(Names)
  PROVE  PassedOn(m, n) <=> Chain(m, n, Passing)
<1>1. ASSUME NEW j \in Len(n) + 1 .. Len(m)
      PROVE  SubSeq(m, 1, j) \in Seq(Names)
  <2>1. j \in 0 .. Len(m)
    BY WholeAndRoot
  <2> QED
    BY <2>1, PrefixType
<1> QED
  BY <1>1 DEF PassedOn, Chain, Passing

\* A place in the request is a sequence of names, as long as that in the response.
LEMMA PathType ==
  ASSUME NEW n \in Seq(Names)
  PROVE  /\ Path(n) \in Seq(Names)
         /\ Len(Path(n)) = Len(n)
         /\ \A i \in 1 .. Len(n) : Path(n)[i] = IF n[i] \in Positions THEN "*" ELSE n[i]
<1>1. Len(n) \in Nat /\ \A i \in 1 .. Len(n) : n[i] \in Names
  BY LenProperties, ElementOfSeq
<1>2. "*" \in Names
  BY DEF Names
<1>3. \A i \in 1 .. Len(n) : (IF n[i] \in Positions THEN "*" ELSE n[i]) \in Names
  BY <1>1, <1>2
<1>4. Path(n) \in [1 .. Len(n) -> Names]
  BY <1>3 DEF Path
<1>5. Path(n) \in Seq(Names)
  BY <1>1, <1>4, SeqDef
<1>6. Len(Path(n)) = Len(n)
  BY <1>1, <1>4, <1>5
<1> QED
  BY <1>5, <1>6 DEF Path

\* A node's place in the request is that of its parent and its own name.
LEMMA PathBelow ==
  ASSUME NEW n \in Seq(Names), NEW f \in Names
  PROVE  Path(Append(n, f)) = Append(Path(n), IF f \in Positions THEN "*" ELSE f)
<1> DEFINE c == Append(n, f)
           g == IF f \in Positions THEN "*" ELSE f
           p == Path(n)
           q == Path(c)
<1>1. Len(n) \in Nat
  BY LenProperties
<1>2. c \in Seq(Names) /\ Len(c) = Len(n) + 1
  BY BelowNode
<1>3. \A i \in 1 .. Len(n) : c[i] = n[i]
  BY AppendProperties
<1>4. c[Len(n) + 1] = f
  BY AppendProperties
<1>5. p \in Seq(Names) /\ Len(p) = Len(n)
  BY PathType
<1>6. \A i \in 1 .. Len(n) : p[i] = IF n[i] \in Positions THEN "*" ELSE n[i]
  BY PathType
<1>7. q \in Seq(Names) /\ Len(q) = Len(n) + 1
  <2> HIDE DEF c
  <2> QED
    BY <1>2, PathType
<1>8. \A i \in 1 .. Len(n) + 1 : q[i] = IF c[i] \in Positions THEN "*" ELSE c[i]
  <2> HIDE DEF c
  <2> QED
    BY <1>2, PathType
<1>9. g \in Names
  <2>1. "*" \in Names
    BY DEF Names
  <2> QED
    BY <2>1
<1> HIDE DEF g, p
<1>10. Append(p, g) \in Seq(Names) /\ Len(Append(p, g)) = Len(n) + 1
  BY <1>5, <1>9, BelowNode
<1>11. \A i \in 1 .. Len(p) : Append(p, g)[i] = p[i]
  BY <1>5, <1>9, AppendProperties
<1>12. Append(p, g)[Len(p) + 1] = g
  BY <1>5, <1>9, AppendProperties
<1> HIDE DEF c, q
<1>13. ASSUME NEW i \in 1 .. Len(n) + 1
       PROVE  q[i] = Append(p, g)[i]
  <2>1. CASE i = Len(n) + 1
    BY <1>1, <1>4, <1>5, <1>8, <1>12, <2>1 DEF g
  <2>2. CASE i # Len(n) + 1
    <3>1. i \in 1 .. Len(n)
      BY <1>1, <2>2
    <3> QED
      BY <1>3, <1>5, <1>6, <1>8, <1>11, <3>1
  <2> QED
    BY <2>1, <2>2
<1>14. q = Append(p, g)
  BY <1>7, <1>10, <1>13, SeqEqual
<1> QED
  BY <1>14 DEF c, g, p, q

\* A node below another is an element or a field of it, by its own name.
LEMMA KindBelow ==
  ASSUME NEW n \in Seq(Names), NEW f \in Names
  PROVE  /\ IsElement(Append(n, f)) <=> f \in Positions
         /\ IsField(Append(n, f)) <=> f \notin Positions
BY BelowNode DEF IsElement, IsField

\* Every node but the root is a field or an element.
LEMMA Kinds ==
  ASSUME NEW n
  PROVE  /\ n # <<>> <=> IsField(n) \/ IsElement(n)
         /\ ~(IsField(n) /\ IsElement(n))
BY DEF IsField, IsElement

\* The nodes on the way to a node are nodes, its parent above all.
LEMMA OnTheWay ==
  ASSUME Tree, NEW n \in DOMAIN value
  PROVE  /\ n \in Seq(Names)
         /\ \A k \in 0 .. Len(n) : SubSeq(n, 1, k) \in DOMAIN value
         /\ n # <<>> => Parent(n) \in DOMAIN value
<1>1. n \in Seq(Names) /\ \A k \in 0 .. Len(n) : SubSeq(n, 1, k) \in DOMAIN value
  BY DEF Tree
<1>2. ASSUME n # <<>> PROVE Parent(n) \in DOMAIN value
  <2>1. Len(n) \in Nat /\ Len(n) > 0
    BY <1>1, <1>2, WholeAndRoot
  <2>2. Len(n) - 1 \in 0 .. Len(n)
    BY <2>1
  <2> QED
    BY <1>1, <1>2, <2>2, AboveNode
<1> QED
  BY <1>1, <1>2

\* A chain to a node of the tree runs through the tree.
LEMMA ChainInTree ==
  ASSUME Tree, NEW m \in DOMAIN value, NEW n \in Seq(Names), NEW S, Chain(m, n, S)
  PROVE  /\ n \in DOMAIN value
         /\ m # n => \E c \in DOMAIN value :
              c \in Seq(Names) /\ c # <<>> /\ Parent(c) = n /\ c \in S /\ Chain(m, c, S)
<1>1. m \in Seq(Names) /\ \A k \in 0 .. Len(m) : SubSeq(m, 1, k) \in DOMAIN value
  BY OnTheWay
<1>2. Len(n) <= Len(m) /\ n = SubSeq(m, 1, Len(n))
  BY <1>1, PrefixIs DEF Chain
<1>3. Len(n) \in 0 .. Len(m)
  BY <1>1, <1>2, WholeAndRoot
<1>4. n \in DOMAIN value
  BY <1>1, <1>2, <1>3
<1>5. ASSUME m # n
      PROVE  \E c \in DOMAIN value :
               c \in Seq(Names) /\ c # <<>> /\ Parent(c) = n /\ c \in S /\ Chain(m, c, S)
  <2>1. PICK k \in 1 .. Len(m) :
           LET c == SubSeq(m, 1, k)
           IN  c \in Seq(Names) /\ c # <<>> /\ Parent(c) = n /\ c \in S /\ Chain(m, c, S)
    BY <1>1, <1>5, ChainDown
  <2>2. k \in 0 .. Len(m)
    BY <1>1, WholeAndRoot
  <2> QED
    BY <1>1, <2>1, <2>2
<1> QED
  BY <1>4, <1>5

\* Nothing is below a node that is not opened yet.
LEMMA NothingBelow ==
  ASSUME Tree, Stages, NEW n \in DOMAIN value, value[n] \notin Opened, NEW m \in DOMAIN value
  PROVE  /\ m # <<>> => Parent(m) # n
         /\ \A S : Chain(m, n, S) => m = n
<1>1. m # <<>> => Parent(m) # n
  BY DEF Stages, Staged
<1>2. ASSUME NEW S, Chain(m, n, S) PROVE m = n
  <2> SUFFICES ASSUME m # n PROVE FALSE
    OBVIOUS
  <2>1. n \in Seq(Names)
    BY OnTheWay
  <2>2. PICK c \in DOMAIN value : c # <<>> /\ Parent(c) = n
    BY <1>2, <2>1, ChainInTree
  <2> QED
    BY <2>2 DEF Stages, Staged
<1> QED
  BY <1>1, <1>2

\* The objects at the root are those of the operation.
LEMMA RootType ==
  ASSUME NEW r \in Requests
  PROVE  Types[r][<<>>] = r.operation
<1> DEFINE Fold(G) == G = [s \in SUBSET {} |->
                 IF s = {} THEN r.operation
                 ELSE IF <<>>[Max(s)] = "*" THEN G[s \ {Max(s)}]
                      ELSE Objects[G[s \ {Max(s)}]].fields[<<>>[Max(s)]].of]
           F == CHOOSE G : Fold(G)
<1>1. <<>> \in DOMAIN r.selection
  BY ExecutorAssumption DEF IsValid
<1>2. Types[r][<<>>] =
        FoldLeft(LAMBDA t, f : IF f = "*" THEN t ELSE Objects[t].fields[f].of,
                 r.operation, <<>>)
  BY <1>1 DEF Types
<1>3. DOMAIN <<>> = {}
  BY EmptySeq, LenProperties
<1>4. Types[r][<<>>] = F[{}]
  BY <1>2, <1>3 DEF FoldLeft, MapThenFoldSet
<1>5. Fold([s \in SUBSET {} |-> r.operation])
  <2>1. \A s \in SUBSET {} : s = {}
    OBVIOUS
  <2> QED
    BY <2>1
<1>6. Fold(F)
  <2> HIDE DEF Fold
  <2> QED
    BY <1>5
<1>7. {} \in SUBSET {}
  OBVIOUS
<1>8. F[{}] = r.operation
  <2> HIDE DEF F
  <2> QED
    BY <1>6, <1>7
<1> QED
  BY <1>4, <1>8

\* What is known of a field that was selected: its type has it, the code treats
\* its null as declared, and what it holds is selected from in turn.
LEMMA FieldFacts ==
  ASSUME request \in Requests, NEW n \in Seq(Names), IsField(n), Chosen(n)
  PROVE  /\ MustBeThere(n) <=> Last(n) \in Holder(n).required
         /\ MustBeThere(n) <=> ~FieldOf(n).nullable
         /\ IsDeferred(n) => ~IsLeaf(n) /\ Last(n) \in Holder(n).deferrable
         /\ ~IsLeaf(n) /\ ~IsList(n) => Path(n) \in DOMAIN request.selection
         /\ ~IsLeaf(n) /\ IsList(n) =>
              /\ Last(n) \in DOMAIN Lists
              /\ \A f \in Positions : Path(Append(n, f)) \in DOMAIN request.selection
<1> DEFINE p == Path(Parent(n))
           f == Last(n)
           t == Types[request][p]
<1>1. /\ p \in DOMAIN request.selection /\ f \in Range(request.selection[p])
  BY DEF Chosen, Selection
<1>2. /\ p \in Seq(Names) /\ t \in DOMAIN Objects
      /\ request.selection[p] \in Seq(Names) /\ FieldIsValid(request, p, f)
  BY <1>1, ExecutorAssumption DEF IsValid
<1>3. TypeOf(Parent(n)) = t /\ Holder(n) = Objects[t] /\ FieldOf(n) = Objects[t].fields[f]
  BY DEF TypeOf, Holder, FieldOf
<1>4. f \in DOMAIN Objects[t].fields /\ f \notin Positions
  BY <1>2 DEF FieldIsValid
<1>5. Agrees(t, Objects[t], f)
  BY <1>2, <1>4, SchemaAgrees
<1>6. n # <<>> /\ n = Append(Parent(n), f) /\ Parent(n) \in Seq(Names) /\ f \in Names
  BY AboveNode DEF IsField
<1>7. Path(n) = Append(p, f)
  <2>1. Path(Append(Parent(n), f)) = Append(p, f)
    BY <1>4, <1>6, PathBelow
  <2> QED
    BY <1>6, <2>1
<1>8. \A g \in Positions : Path(Append(n, g)) = Append(Append(p, f), "*")
  <2>1. \A g \in Positions : g \in Names
    BY DEF Names
  <2> QED
    BY <1>7, <2>1, PathBelow
<1>9. MustBeThere(n) <=> <<t, f>> \notin DeclaredNullable
  BY <1>3 DEF MustBeThere
<1>10. /\ MustBeThere(n) <=> f \in Holder(n).required
       /\ MustBeThere(n) <=> ~FieldOf(n).nullable
  <2> HIDE DEF f, t
  <2> QED
    BY <1>3, <1>5, <1>9 DEF Agrees
<1>11. IsLeaf(n) <=> Objects[t].fields[f].of \notin DOMAIN Objects
  BY <1>3 DEF IsLeaf
<1>12. IsList(n) <=> Objects[t].fields[f].many
  BY <1>3 DEF IsList
<1>13. IsDeferred(n) <=> Append(p, f) \in request.deferred
  BY <1>7 DEF IsDeferred
<1>14. IsDeferred(n) => ~IsLeaf(n) /\ f \in Holder(n).deferrable
  <2> HIDE DEF f, t, p
  <2> QED
    BY <1>2, <1>3, <1>5, <1>11, <1>13 DEF Agrees, FieldIsValid, p, t
<1>15. ~IsLeaf(n) /\ ~IsList(n) => Path(n) \in DOMAIN request.selection
  <2> HIDE DEF f
  <2> QED
    BY <1>2, <1>7, <1>11, <1>12 DEF FieldIsValid
<1>16. ~IsLeaf(n) /\ IsList(n) =>
         /\ f \in DOMAIN Lists
         /\ \A g \in Positions : Path(Append(n, g)) \in DOMAIN request.selection
  <2> HIDE DEF f
  <2> QED
    BY <1>2, <1>8, <1>11, <1>12 DEF FieldIsValid
<1> QED
  BY <1>10, <1>14, <1>15, <1>16

-----------------------------------------------------------------------------
(* Steps                                                                    *)

\* What a node is and where it lies depends on the request alone.
LEMMA SameRequest ==
  ASSUME request' = request
  PROVE  /\ Kept' = Kept /\ Passing' = Passing
         /\ \A n : /\ IsLeaf(n)' <=> IsLeaf(n)
                   /\ IsDeferred(n)' <=> IsDeferred(n)
                   /\ MustBeThere(n)' <=> MustBeThere(n)
                   /\ Chosen(n)' <=> Chosen(n)
         /\ \A x, y : Precedes(x, y)' <=> Precedes(x, y)
<1>1. \A n : TypeOf(n)' = TypeOf(n) /\ Selection(n)' = Selection(n)
  BY DEF TypeOf, Selection
<1>2. \A n : Holder(n)' = Holder(n) /\ FieldOf(n)' = FieldOf(n)
  BY <1>1 DEF Holder, FieldOf
<1>3. \A n : IsLeaf(n)' <=> IsLeaf(n)
  BY <1>2 DEF IsLeaf
<1>4. \A n : IsDeferred(n)' <=> IsDeferred(n)
  BY DEF IsDeferred
<1>5. \A n : MustBeThere(n)' <=> MustBeThere(n)
  BY <1>1 DEF MustBeThere
<1>6. \A n : Chosen(n)' <=> Chosen(n)
  BY <1>1, <1>2 DEF Chosen, IsList
<1>7. \A x, y : Precedes(x, y)' <=> Precedes(x, y)
  BY <1>1 DEF Precedes
<1>8. Kept' = Kept
  BY <1>4 DEF Kept
<1>9. Passing' = Passing
  BY <1>4, <1>5 DEF Passing
<1> QED
  BY <1>3, <1>4, <1>5, <1>6, <1>7, <1>8, <1>9

\* A field is settled: it turns out null, with an error where that is not allowed.
Settles(n) ==
    /\ value[n] \in {"waiting", "running"}
    /\ value[n] = "waiting" => Ready(n)
    /\ value' = [value EXCEPT ![n] = "null"]
    /\ errors' = errors \cup {n} \/ (errors' = errors /\ ~MustBeThere(n))

\* A resolver is called.
Begins(n) ==
    /\ Ready(n)
    /\ value' = [value EXCEPT ![n] = "running"]
    /\ errors' = errors

\* A field is opened and gets nodes m below it.
Grown(n, m) ==
    /\ m \in Seq(Names) /\ m # <<>>
    /\ \/ Parent(m) = n
       \/ /\ Parent(m) \in DOMAIN value' \ DOMAIN value
          /\ Parent(m) # <<>> /\ Parent(Parent(m)) = n
    /\ value'[Parent(m)] = "open"
    /\ Chosen(m)
    /\ IsElement(m) => value'[m] = "open"
    /\ IsField(m) => /\ value'[m] \in {"null", "done", "deferred", "waiting"}
                     /\ IsLeaf(m) <=> value'[m] \in {"null", "done"}
                     /\ IsDeferred(m) <=> value'[m] = "deferred"

Grows(n) ==
    /\ value[n] \in {"waiting", "running"}
    /\ value[n] = "waiting" => Ready(n)
    /\ DOMAIN value \subseteq DOMAIN value'
    /\ value'[n] = "open"
    /\ \A m \in DOMAIN value \ {n} : value'[m] = value[m]
    /\ \A m \in DOMAIN value' \ DOMAIN value : Grown(n, m)
    /\ errors' = errors \cup { m \in DOMAIN value' \ DOMAIN value :
                                 value'[m] = "null" /\ MustBeThere(m) }

\* The fields of some objects, as they are born.
LEMMA BornFacts ==
  ASSUME request \in Requests, NEW os, NEW nulls,
         \A o \in os : o \in Seq(Names) /\ Path(o) \in DOMAIN request.selection,
         \A m \in nulls : m \in Fields(os) /\ IsLeaf(m)
  PROVE  /\ DOMAIN Born(os, nulls) = Fields(os)
         /\ \A m \in Fields(os) :
              LET b == Born(os, nulls)[m]
              IN  /\ m \in Seq(Names) /\ m # <<>> /\ Parent(m) \in os
                  /\ IsField(m) /\ Chosen(m)
                  /\ b \in {"null", "done", "deferred", "waiting"}
                  /\ IsLeaf(m) <=> b \in {"null", "done"}
                  /\ IsDeferred(m) <=> b = "deferred"
                  /\ b = "null" <=> m \in nulls
<1>1. DOMAIN Born(os, nulls) = Fields(os)
  BY DEF Born
<1>2. ASSUME NEW m \in Fields(os)
      PROVE  LET b == Born(os, nulls)[m]
             IN  /\ m \in Seq(Names) /\ m # <<>> /\ Parent(m) \in os
                 /\ IsField(m) /\ Chosen(m)
                 /\ b \in {"null", "done", "deferred", "waiting"}
                 /\ IsLeaf(m) <=> b \in {"null", "done"}
                 /\ IsDeferred(m) <=> b = "deferred"
                 /\ b = "null" <=> m \in nulls
  <2>1. PICK o \in os : \E f \in Range(Selection(o)) : m = Append(o, f)
    BY DEF Fields
  <2>2. PICK f \in Range(Selection(o)) : m = Append(o, f)
    BY <2>1
  <2>3. o \in Seq(Names) /\ Path(o) \in DOMAIN request.selection
    BY <2>1
  <2>4. f \in Range(request.selection[Path(o)])
    BY <2>2 DEF Selection
  <2>5. /\ FieldIsValid(request, Path(o), f)
        /\ Types[request][Path(o)] \in DOMAIN Objects
    BY <2>3, <2>4, ExecutorAssumption DEF IsValid
  <2>6. f \in Names /\ f \notin Positions
    BY <2>5 DEF FieldIsValid, Names
  <2>7. m \in Seq(Names) /\ m # <<>> /\ Parent(m) = o /\ Last(m) = f /\ IsField(m)
    BY <2>2, <2>3, <2>6, BelowNode, KindBelow
  <2>8. Chosen(m)
    BY <2>2, <2>3, <2>7, Kinds DEF Chosen
  <2>9. IsDeferred(m) => ~IsLeaf(m)
    BY <2>7, <2>8, FieldFacts
  <2>10. Born(os, nulls)[m] =
           CASE IsLeaf(m)                    -> IF m \in nulls THEN "null" ELSE "done"
             [] IsDeferred(m) /\ ~IsLeaf(m) -> "deferred"
             [] OTHER                         -> "waiting"
    BY DEF Born
  <2>11. m \in nulls => IsLeaf(m)
    OBVIOUS
  <2> DEFINE b == Born(os, nulls)[m]
  <2>12. CASE m \in nulls
    <3>1. b = "null"
      BY <2>9, <2>10, <2>11, <2>12
    <3> QED
      BY <2>1, <2>7, <2>8, <2>9, <2>11, <2>12, <3>1
  <2>13. CASE m \notin nulls /\ IsLeaf(m)
    <3>1. b = "done"
      BY <2>9, <2>10, <2>13
    <3> QED
      BY <2>1, <2>7, <2>8, <2>9, <2>13, <3>1
  <2>14. CASE m \notin nulls /\ ~IsLeaf(m) /\ IsDeferred(m)
    <3>1. b = "deferred"
      BY <2>10, <2>14
    <3> QED
      BY <2>1, <2>7, <2>8, <2>14, <3>1
  <2>15. CASE m \notin nulls /\ ~IsLeaf(m) /\ ~IsDeferred(m)
    <3>1. b = "waiting"
      BY <2>10, <2>15
    <3> QED
      BY <2>1, <2>7, <2>8, <2>15, <3>1
  <2> QED
    BY <2>12, <2>13, <2>14, <2>15
<1> QED
  BY <1>1, <1>2

\* A node that is not opened is a field that was selected, no scalar, with
\* nothing below it.
LEMMA NotOpened ==
  ASSUME Shape, NEW n \in DOMAIN value, value[n] \notin Opened
  PROVE  n \in Seq(Names) /\ n # <<>> /\ IsField(n) /\ ~IsLeaf(n) /\ Chosen(n)
BY OnTheWay, Kinds DEF Shape, Selected, Stages, Staged

\* A value that is there opens its field, for new nodes below (the marshallers of
\* lists and objects).
LEMMA MarshalGrows ==
  ASSUME Shape, NEW n \in DOMAIN value, value[n] \in {"waiting", "running"},
         value[n] = "waiting" => Ready(n), Marshal(n)
  PROVE  Grows(n) /\ UNCHANGED <<request, sent, delivered>>
<1>1. n \in Seq(Names) /\ n # <<>> /\ IsField(n) /\ ~IsLeaf(n) /\ Chosen(n)
  BY NotOpened DEF Opened
<1>2. request \in Requests /\ Tree /\ Stages /\ value[n] \notin Opened
  BY DEF Shape, Opened
<1>3. PICK items \in (IF IsList(n) THEN Lists[Last(n)] ELSE {{}}) :
        LET elements == { Append(n, p) : p \in items }
            objects  == IF IsList(n) THEN elements ELSE {n}
        IN  /\ \E nulls \in SUBSET NullLeaves(objects) :
                  /\ value' = Born(objects, nulls)
                               ++ [ m \in elements |-> "open" ]
                               ++ [value EXCEPT ![n] = "open"]
                  /\ errors' = errors \cup { m \in nulls : ~FieldOf(m).nullable }
            /\ UNCHANGED <<request, sent, delivered>>
  BY DEF Marshal
<1> DEFINE elements == { Append(n, p) : p \in items }
           objects  == IF IsList(n) THEN elements ELSE {n}
<1>4. UNCHANGED <<request, sent, delivered>>
  BY <1>3
<1>5. PICK nulls \in SUBSET NullLeaves(objects) :
        /\ value' = Born(objects, nulls)
                     ++ [ m \in elements |-> "open" ]
                     ++ [value EXCEPT ![n] = "open"]
        /\ errors' = errors \cup { m \in nulls : ~FieldOf(m).nullable }
  BY <1>3
<1>6. \A p \in items : p \in Positions /\ p \in Names
  <2>1. CASE IsList(n)
    <3>1. Last(n) \in DOMAIN Lists
      BY <1>1, <1>2, <2>1, FieldFacts
    <3> QED
      BY <2>1, <3>1 DEF Positions, Names
  <2>2. CASE ~IsList(n)
    BY <2>2
  <2> QED
    BY <2>1, <2>2
<1>7. ASSUME NEW e \in elements
      PROVE  /\ e \in Seq(Names) /\ e # <<>> /\ Parent(e) = n
             /\ IsElement(e) /\ ~IsField(e) /\ IsList(n)
             /\ Path(e) \in DOMAIN request.selection
             /\ e \notin DOMAIN value
  <2>1. PICK p \in items : e = Append(n, p)
    OBVIOUS
  <2>2. e \in Seq(Names) /\ e # <<>> /\ Parent(e) = n /\ IsElement(e)
    BY <1>1, <1>6, <2>1, BelowNode, KindBelow
  <2>3. IsList(n)
    OBVIOUS
  <2>4. Path(e) \in DOMAIN request.selection
    BY <1>1, <1>2, <1>6, <2>1, <2>3, FieldFacts
  <2>5. e \notin DOMAIN value
    BY <1>2, <2>2, NothingBelow
  <2> QED
    BY <2>2, <2>3, <2>4, <2>5, Kinds
<1>8. ASSUME NEW o \in objects
      PROVE  /\ o \in Seq(Names) /\ Path(o) \in DOMAIN request.selection
             /\ o = n \/ o \in elements
  <2>1. CASE IsList(n)
    BY <1>7, <2>1
  <2>2. CASE ~IsList(n)
    BY <1>1, <1>2, <2>2, FieldFacts
  <2> QED
    BY <2>1, <2>2
<1>9. \A m \in nulls : m \in Fields(objects) /\ IsLeaf(m)
  BY DEF NullLeaves
<1> DEFINE born == Born(objects, nulls)
<1>10. /\ DOMAIN born = Fields(objects)
       /\ \A m \in Fields(objects) :
            /\ m \in Seq(Names) /\ m # <<>> /\ Parent(m) \in objects
            /\ IsField(m) /\ Chosen(m)
            /\ born[m] \in {"null", "done", "deferred", "waiting"}
            /\ IsLeaf(m) <=> born[m] \in {"null", "done"}
            /\ IsDeferred(m) <=> born[m] = "deferred"
            /\ born[m] = "null" <=> m \in nulls
  <2> HIDE DEF objects
  <2> QED
    BY <1>2, <1>8, <1>9, BornFacts
<1>11. ASSUME NEW m \in Fields(objects)
       PROVE  m \notin DOMAIN value /\ m \notin elements
  <2>1. Parent(m) = n \/ Parent(m) \in elements
    BY <1>8, <1>10
  <2>2. m \notin DOMAIN value
    <3> SUFFICES ASSUME m \in DOMAIN value PROVE FALSE
      OBVIOUS
    <3>1. Parent(m) # n /\ Parent(m) \in DOMAIN value
      BY <1>2, <1>10, NothingBelow, OnTheWay
    <3> HIDE DEF elements
    <3> QED
      BY <1>7, <2>1, <3>1
  <2> HIDE DEF elements
  <2> QED
    BY <1>7, <1>10, <2>2
<1> HIDE DEF elements, objects, born
<1>12. value' = [ m \in Fields(objects) \cup elements \cup DOMAIN value |->
                    IF m \in Fields(objects) THEN born[m]
                    ELSE IF m \in elements THEN "open"
                    ELSE IF m = n THEN "open" ELSE value[m] ]
  <2>1. value' = born ++ [ m \in elements |-> "open" ] ++ [value EXCEPT ![n] = "open"]
    BY <1>5 DEF born
  <2>2. [value EXCEPT ![n] = "open"] =
           [ m \in DOMAIN value |-> IF m = n THEN "open" ELSE value[m] ]
    OBVIOUS
  <2> QED
    BY <1>10, <2>1, <2>2 DEF ++
<1>13. /\ DOMAIN value' = Fields(objects) \cup elements \cup DOMAIN value
       /\ \A m \in Fields(objects) : value'[m] = born[m]
       /\ \A m \in elements : value'[m] = "open"
       /\ value'[n] = "open"
       /\ \A m \in DOMAIN value \ {n} : value'[m] = value[m]
  BY <1>7, <1>11, <1>12
<1>14. ASSUME NEW m \in DOMAIN value' \ DOMAIN value
       PROVE  Grown(n, m)
  <2>1. CASE m \in elements
    <3>1. Chosen(m)
      BY <1>7, <2>1 DEF Chosen
    <3> QED
      BY <1>7, <1>13, <2>1, <3>1 DEF Grown
  <2>2. CASE m \in Fields(objects)
    <3>1. Parent(m) = n \/ Parent(m) \in elements
      BY <1>8, <1>10, <2>2
    <3>2. \/ Parent(m) = n
          \/ /\ Parent(m) \in DOMAIN value' \ DOMAIN value
             /\ Parent(m) # <<>> /\ Parent(Parent(m)) = n
      BY <1>7, <1>13, <3>1
    <3>3. value'[Parent(m)] = "open"
      BY <1>13, <3>1
    <3>4. ~IsElement(m) /\ value'[m] = born[m]
      BY <1>10, <1>13, <2>2, Kinds
    <3> QED
      BY <1>10, <2>2, <3>2, <3>3, <3>4 DEF Grown
  <2> QED
    BY <1>13, <2>1, <2>2
<1>15. errors' = errors \cup { m \in DOMAIN value' \ DOMAIN value :
                                 value'[m] = "null" /\ MustBeThere(m) }
  <2>1. \A m \in Fields(objects) : MustBeThere(m) <=> ~FieldOf(m).nullable
    BY <1>2, <1>10, FieldFacts
  <2>2. \A m \in DOMAIN value' \ DOMAIN value : value'[m] = "null" <=> m \in nulls
    BY <1>9, <1>10, <1>11, <1>13
  <2>3. \A m \in nulls : m \in DOMAIN value' \ DOMAIN value
    BY <1>9, <1>11, <1>13
  <2>4. { m \in nulls : ~FieldOf(m).nullable } =
          { m \in DOMAIN value' \ DOMAIN value : value'[m] = "null" /\ MustBeThere(m) }
    BY <1>9, <2>1, <2>2, <2>3
  <2> QED
    BY <1>5, <2>4
<1> QED
  BY <1>4, <1>13, <1>14, <1>15 DEF Grows

\* What an object or a list waited for is there: it is done or null, and its
\* deferred fields may begin.
Joins(n) ==
    /\ value[n] = "open"
    /\ \A m \in Awaited(n) : Finished(m)
    /\ DOMAIN value' = DOMAIN value
    /\ value'[n] = IF Invalid(n) THEN "null" ELSE "done"
    /\ \A m \in DOMAIN value \ {n} :
          \/ value'[m] = value[m]
          \/ /\ value[m] = "deferred" /\ value'[m] = "waiting"
             /\ m # <<>> /\ Parent(m) = n
    /\ errors' = errors

LEMMA JoinJoins ==
  ASSUME Shape, NEW n \in DOMAIN value, Join(n)
  PROVE  Joins(n) /\ UNCHANGED <<request, sent, delivered>>
<1>1. /\ value[n] = "open" /\ \A m \in Awaited(n) : Finished(m)
      /\ UNCHANGED <<request, errors, sent, delivered>>
  BY DEF Join
<1>2. n \notin Children(n)
  <2> SUFFICES ASSUME n # <<>> /\ Parent(n) = n PROVE FALSE
    BY DEF Children
  <2>1. n \in Seq(Names)
    BY OnTheWay DEF Shape
  <2>2. Len(n) \in Nat /\ Len(n) = Len(n) - 1
    BY <2>1, AboveNode, WholeAndRoot
  <2> QED
    BY <2>2
<1>3. ASSUME NEW m \in Children(n) \ Awaited(n)
      PROVE  m # <<>> /\ Parent(m) = n /\ value[m] = "deferred"
  BY <1>1 DEF Awaited, Children, Shape, Stages, Staged
<1>4. CASE Invalid(n)
  <2>1. value' = [value EXCEPT ![n] = "null"]
    BY <1>4 DEF Join
  <2> QED
    BY <1>1, <1>4, <2>1 DEF Joins
<1>5. CASE ~Invalid(n)
  <2>1. value' = [ m \in DOMAIN value |->
                     CASE m = n                              -> "done"
                       [] m \in Children(n) \ Awaited(n) -> "waiting"
                       [] OTHER                              -> value[m] ]
    BY <1>5 DEF Join
  <2>2. DOMAIN value' = DOMAIN value
    BY <2>1
  <2>3. value'[n] = "done"
    BY <1>2, <2>1
  <2>4. ASSUME NEW m \in DOMAIN value \ {n}
        PROVE  \/ value'[m] = value[m]
               \/ /\ value[m] = "deferred" /\ value'[m] = "waiting"
                  /\ m # <<>> /\ Parent(m) = n
    BY <1>3, <2>1
  <2> QED
    BY <1>1, <1>5, <2>2, <2>3, <2>4 DEF Joins
<1> QED
  BY <1>4, <1>5

\* The response is sent, or a deferred part follows.
Sends ==
    /\ value' = value /\ errors' = errors
    /\ sent' = sent \/ (sent' = TRUE /\ Finished(<<>>))
    /\ \A n \in delivered' \ delivered : n \in DOMAIN value /\ IsDeferred(n) /\ Finished(n)

\* Every step is one of these.
Steps ==
    /\ request' = request
    /\ \/ /\ \E n \in DOMAIN value : Settles(n) \/ Begins(n) \/ Grows(n) \/ Joins(n)
          /\ UNCHANGED <<sent, delivered>>
       \/ Sends

LEMMA NextIsStep ==
  ASSUME Shape, [Next]_vars
  PROVE  Steps
<1>1. ASSUME NEW n \in DOMAIN value, RefuseArguments(n) PROVE Steps
  <2>1. Settles(n)
    BY <1>1 DEF RefuseArguments, Ready, BecomesNull, Settles
  <2> QED
    BY <1>1, <2>1 DEF RefuseArguments, Steps
<1>2. ASSUME NEW n \in DOMAIN value, CallResolver(n) PROVE Steps
  <2>1. Begins(n)
    BY <1>2 DEF CallResolver, Begins
  <2> QED
    BY <1>2, <2>1 DEF CallResolver, Steps
<1>3. ASSUME NEW n \in DOMAIN value, ResolverReturns(n) PROVE Steps
  <2>1. Grows(n) /\ UNCHANGED <<request, sent, delivered>>
    BY <1>3, MarshalGrows DEF ResolverReturns
  <2> QED
    BY <2>1 DEF Steps
<1>4. ASSUME NEW n \in DOMAIN value, ResolverFails(n) PROVE Steps
  <2>1. Settles(n)
    BY <1>4 DEF ResolverFails, BecomesNull, Settles
  <2> QED
    BY <1>4, <2>1 DEF ResolverFails, Steps
<1>5. ASSUME NEW n \in DOMAIN value, ReadProperty(n) PROVE Steps
  <2>1. Grows(n) /\ UNCHANGED <<request, sent, delivered>>
    BY <1>5, MarshalGrows DEF ReadProperty, Ready
  <2> QED
    BY <2>1 DEF Steps
<1>6. ASSUME NEW n \in DOMAIN value, NilProperty(n) PROVE Steps
  <2>1. value[n] = "waiting"
    BY <1>6 DEF NilProperty, Ready
  <2>2. ~MustBeThere(n)
    <3>1. n \in Seq(Names) /\ IsField(n) /\ Chosen(n) /\ request \in Requests
      BY <2>1, NotOpened DEF Opened, Shape
    <3> QED
      BY <1>6, <3>1, FieldFacts DEF NilProperty
  <2>3. Settles(n)
    BY <1>6, <2>1, <2>2 DEF NilProperty, BecomesNull, Settles
  <2> QED
    BY <1>6, <2>3 DEF NilProperty, Steps
<1>7. ASSUME NEW n \in DOMAIN value, Join(n) PROVE Steps
  <2>1. Joins(n) /\ UNCHANGED <<request, sent, delivered>>
    BY <1>7, JoinJoins
  <2> QED
    BY <2>1 DEF Steps
<1>8. ASSUME NEW n \in DOMAIN value, Deliver(n) PROVE Steps
  BY <1>8 DEF Deliver, Sends, Steps
<1>9. ASSUME Respond PROVE Steps
  BY <1>9 DEF Respond, Sends, Steps
<1>10. ASSUME UNCHANGED vars PROVE Steps
  BY <1>10 DEF vars, Sends, Steps
<1> QED
  BY <1>1, <1>2, <1>3, <1>4, <1>5, <1>6, <1>7, <1>8, <1>9, <1>10 DEF Next

-----------------------------------------------------------------------------
(* The shape of the response is preserved                                   *)

\* Nodes stay, and what is finished stays as it is.
LEMMA FinishedStays ==
  ASSUME Steps, NEW m \in DOMAIN value
  PROVE  /\ m \in DOMAIN value'
         /\ Finished(m) => value'[m] = value[m]
<1>1. ASSUME NEW n \in DOMAIN value, Settles(n) PROVE
         m \in DOMAIN value' /\ (Finished(m) => value'[m] = value[m])
  BY <1>1 DEF Settles, Finished
<1>2. ASSUME NEW n \in DOMAIN value, Begins(n) PROVE
         m \in DOMAIN value' /\ (Finished(m) => value'[m] = value[m])
  BY <1>2 DEF Begins, Ready, Finished
<1>3. ASSUME NEW n \in DOMAIN value, Grows(n) PROVE
         m \in DOMAIN value' /\ (Finished(m) => value'[m] = value[m])
  BY <1>3 DEF Grows, Finished
<1>4. ASSUME NEW n \in DOMAIN value, Joins(n) PROVE
         m \in DOMAIN value' /\ (Finished(m) => value'[m] = value[m])
  BY <1>4 DEF Joins, Finished
<1> QED
  BY <1>1, <1>2, <1>3, <1>4 DEF Steps, Sends

\* With its parent, a node has all nodes on the way to it.
LEMMA WayOfChild ==
  ASSUME NEW m \in Seq(Names), m # <<>>, NEW T, m \in T,
         \A j \in 0 .. Len(Parent(m)) : SubSeq(Parent(m), 1, j) \in T
  PROVE  \A j \in 0 .. Len(m) : SubSeq(m, 1, j) \in T
<1> DEFINE p == Parent(m)
<1>1. Len(m) \in Nat /\ Len(m) > 0 /\ SubSeq(m, 1, Len(m)) = m
  BY WholeAndRoot
<1>2. Len(p) = Len(m) - 1 /\ p = SubSeq(m, 1, Len(m) - 1)
  BY AboveNode
<1> SUFFICES ASSUME NEW j \in 0 .. Len(m), j # Len(m)
             PROVE  SubSeq(m, 1, j) \in T
  BY <1>1
<1>3. Len(m) - 1 \in 0 .. Len(m) /\ j \in 0 .. Len(m) - 1
  <2>1. \A a \in Nat : \A i \in 0 .. a :
           a > 0 /\ i # a => a - 1 \in 0 .. a /\ i \in 0 .. a - 1
    OBVIOUS
  <2> QED
    BY ONLY <1>1, <2>1, j \in 0 .. Len(m), j # Len(m)
<1>4. SubSeq(p, 1, j) = SubSeq(m, 1, j)
  <2>1. SubSeq(SubSeq(m, 1, Len(m) - 1), 1, j) = SubSeq(m, 1, j)
    BY <1>3, PrefixOfPrefix
  <2> QED
    BY <1>2, <2>1
<1>5. j \in 0 .. Len(p)
  BY <1>2, <1>3
<1> QED
  BY <1>4, <1>5

LEMMA TreeStep ==
  ASSUME Shape, Steps
  PROVE  Tree'
<1>1. Tree
  BY DEF Shape
<1>2. ASSUME DOMAIN value' = DOMAIN value PROVE Tree'
  BY <1>1, <1>2 DEF Tree
<1>3. ASSUME NEW n \in DOMAIN value, Grows(n) PROVE Tree'
  <2>1. DOMAIN value \subseteq DOMAIN value'
    BY <1>3 DEF Grows
  <2>2. ASSUME NEW m \in DOMAIN value
        PROVE  m \in Seq(Names) /\ \A j \in 0 .. Len(m) : SubSeq(m, 1, j) \in DOMAIN value'
    BY <1>1, <2>1 DEF Tree
  <2>3. ASSUME NEW m \in DOMAIN value' \ DOMAIN value
        PROVE  m \in Seq(Names) /\ \A j \in 0 .. Len(m) : SubSeq(m, 1, j) \in DOMAIN value'
    <3>1. Grown(n, m)
      BY <1>3 DEF Grows
    <3>2. m \in Seq(Names) /\ m # <<>>
      BY <3>1 DEF Grown
    <3>3. CASE Parent(m) = n
      BY <2>2, <3>2, <3>3, WayOfChild
    <3>4. CASE Parent(m) # n
      <4>1. /\ Parent(m) \in DOMAIN value' /\ Parent(m) # <<>>
            /\ Parent(Parent(m)) = n /\ Parent(m) \in Seq(Names)
        BY <3>1, <3>2, <3>4, AboveNode DEF Grown
      <4>2. \A j \in 0 .. Len(Parent(m)) : SubSeq(Parent(m), 1, j) \in DOMAIN value'
        BY <2>2, <4>1, WayOfChild
      <4> QED
        BY <3>2, <4>2, WayOfChild
    <3> QED
      BY <3>3, <3>4
  <2>4. <<>> \in DOMAIN value'
    BY <1>1, <2>1 DEF Tree
  <2> QED
    BY <2>2, <2>3, <2>4 DEF Tree
<1>4. ASSUME NEW n \in DOMAIN value, Settles(n) \/ Begins(n) \/ Joins(n) PROVE Tree'
  BY <1>2, <1>4 DEF Settles, Begins, Joins
<1>5. ASSUME Sends PROVE Tree'
  BY <1>2, <1>5 DEF Sends
<1> QED
  BY <1>3, <1>4, <1>5 DEF Steps

LEMMA SelectedStep ==
  ASSUME Shape, Steps
  PROVE  Selected'
<1>1. \A m : Chosen(m)' <=> Chosen(m)
  BY SameRequest DEF Steps
<1>2. ASSUME NEW m \in DOMAIN value' PROVE Chosen(m)
  <2>1. CASE m \in DOMAIN value
    BY <2>1 DEF Shape, Selected
  <2>2. CASE m \notin DOMAIN value
    <3>1. PICK n \in DOMAIN value : Grows(n)
      BY <2>2 DEF Steps, Settles, Begins, Joins, Sends
    <3> QED
      BY <2>2, <3>1 DEF Grows, Grown
  <2> QED
    BY <2>1, <2>2
<1> QED
  BY <1>1, <1>2 DEF Selected

LEMMA StagesStep ==
  ASSUME Shape, Steps
  PROVE  Stages'
<1>1. \A m : (IsLeaf(m)' <=> IsLeaf(m)) /\ (IsDeferred(m)' <=> IsDeferred(m))
  BY SameRequest DEF Steps
<1>2. Tree /\ Stages
  BY DEF Shape
<1>3. ASSUME NEW m \in DOMAIN value
      PROVE  Staged(m) /\ (m # <<>> => Parent(m) \in DOMAIN value)
  BY <1>2, OnTheWay DEF Stages
<1>4. ASSUME NEW n \in DOMAIN value, value[n] \notin Opened, NEW m \in DOMAIN value, m # <<>>
      PROVE  Parent(m) # n
  BY <1>2, <1>4, NothingBelow
<1>5. \A m : IsDeferred(m) => m # <<>>
  BY DEF IsDeferred, IsField
<1>6. ASSUME NEW n \in DOMAIN value, Settles(n) PROVE Stages'
  <2>1. value' = [value EXCEPT ![n] = "null"] /\ value[n] \notin Opened
    BY <1>6 DEF Settles, Opened
  <2>2. ASSUME NEW m \in DOMAIN value PROVE Staged(m)'
    <3>1. value'[m] = value[m] \/ (m = n /\ value'[m] = "null")
      BY <2>1
    <3>2. m # <<>> => value'[Parent(m)] = value[Parent(m)]
      BY <1>3, <1>4, <2>1
    <3>3. IsDeferred(m) /\ value[Parent(m)] = "open" => m # n
      BY <1>3, <1>6 DEF Staged, Settles
    <3> QED
      BY <1>1, <1>3, <1>5, <3>1, <3>2, <3>3 DEF Staged, Opened
  <2>3. DOMAIN value' = DOMAIN value
    BY <2>1
  <2> QED
    BY <2>2, <2>3 DEF Stages
<1>7. ASSUME NEW n \in DOMAIN value, Begins(n) PROVE Stages'
  <2>1. value' = [value EXCEPT ![n] = "running"] /\ value[n] = "waiting" /\ value[n] \notin Opened
    BY <1>7 DEF Begins, Ready, Opened
  <2>2. ASSUME NEW m \in DOMAIN value PROVE Staged(m)'
    <3>1. value'[m] = value[m] \/ (m = n /\ value'[m] = "running")
      BY <2>1
    <3>2. m # <<>> => value'[Parent(m)] = value[Parent(m)]
      BY <1>3, <1>4, <2>1
    <3>3. IsDeferred(m) /\ value[Parent(m)] = "open" => m # n
      BY <1>3, <2>1 DEF Staged
    <3>4. m = n => IsField(m) /\ ~IsLeaf(m)
      BY <1>3, <2>1 DEF Staged
    <3> QED
      BY <1>1, <1>3, <1>5, <3>1, <3>2, <3>3, <3>4 DEF Staged, Opened
  <2>3. DOMAIN value' = DOMAIN value
    BY <2>1
  <2> QED
    BY <2>2, <2>3 DEF Stages
<1>8. ASSUME NEW n \in DOMAIN value, Grows(n) PROVE Stages'
  <2>1. /\ value[n] \in {"waiting", "running"} /\ value[n] \notin Opened
        /\ value'[n] = "open"
        /\ \A m \in DOMAIN value \ {n} : value'[m] = value[m]
    BY <1>8 DEF Grows, Opened
  <2>2. ASSUME NEW m \in DOMAIN value PROVE Staged(m)'
    <3>1. value'[m] = value[m] \/ (m = n /\ value'[m] = "open")
      BY <2>1
    <3>2. m # <<>> => value'[Parent(m)] = value[Parent(m)]
      BY <1>3, <1>4, <2>1
    <3>3. IsDeferred(m) /\ value[Parent(m)] = "open" => m # n
      BY <1>3, <2>1 DEF Staged
    <3> QED
      BY <1>1, <1>3, <1>5, <3>1, <3>2, <3>3 DEF Staged, Opened
  <2>3. ASSUME NEW m \in DOMAIN value' \ DOMAIN value PROVE Staged(m)'
    <3>1. Grown(n, m)
      BY <1>8 DEF Grows
    <3>2. CASE IsElement(m)
      <4>1. ~IsField(m) /\ ~IsDeferred(m) /\ value'[m] = "open" /\ value'[Parent(m)] = "open"
        BY <3>1, <3>2, Kinds DEF Grown, IsDeferred
      <4> QED
        BY <1>1, <4>1 DEF Staged, Opened
    <3>3. CASE IsField(m)
      <4>1. /\ value'[Parent(m)] = "open"
            /\ value'[m] \in {"null", "done", "deferred", "waiting"}
            /\ IsLeaf(m) <=> value'[m] \in {"null", "done"}
            /\ IsDeferred(m) <=> value'[m] = "deferred"
        BY <3>1, <3>3 DEF Grown
      <4> QED
        BY <1>1, <3>3, <4>1 DEF Staged, Opened
    <3> QED
      BY <3>1, <3>2, <3>3, Kinds DEF Grown
  <2> QED
    BY <2>2, <2>3 DEF Stages
<1>9. ASSUME NEW n \in DOMAIN value, Joins(n) PROVE Stages'
  <2>1. /\ value[n] = "open" /\ DOMAIN value' = DOMAIN value
        /\ value'[n] \in {"done", "null"}
        /\ \A m \in DOMAIN value \ {n} :
              \/ value'[m] = value[m]
              \/ /\ value[m] = "deferred" /\ value'[m] = "waiting"
                 /\ m # <<>> /\ Parent(m) = n
    BY <1>9 DEF Joins
  <2>2. ASSUME NEW m \in DOMAIN value PROVE Staged(m)'
    <3>1. m # <<>> => value[Parent(m)] \in Opened /\ Parent(m) \in DOMAIN value
      BY <1>3 DEF Staged
    <3>2. /\ m # <<>> => value'[Parent(m)] \in Opened
          /\ m # <<>> /\ value'[Parent(m)] = "open" =>
                Parent(m) # n /\ value[Parent(m)] = "open"
      BY <2>1, <3>1 DEF Opened
    <3>3. CASE m = n
      BY <1>1, <1>3, <1>5, <2>1, <3>2, <3>3 DEF Staged, Opened
    <3>4. CASE m # n /\ value'[m] = value[m]
      BY <1>1, <1>3, <1>5, <3>2, <3>4 DEF Staged, Opened
    <3>5. CASE m # n /\ value'[m] # value[m]
      <4>1. value[m] = "deferred" /\ value'[m] = "waiting" /\ m # <<>> /\ Parent(m) = n
        BY <2>1, <3>5
      <4>2. IsField(m) /\ ~IsLeaf(m)
        BY <1>3, <4>1 DEF Staged, Opened
      <4> QED
        BY <1>1, <3>2, <4>1, <4>2 DEF Staged, Opened
    <3> QED
      BY <3>3, <3>4, <3>5
  <2> QED
    BY <2>1, <2>2 DEF Stages
<1>10. ASSUME Sends PROVE Stages'
  BY <1>1, <1>2, <1>10 DEF Sends, Stages, Staged
<1> QED
  BY <1>6, <1>7, <1>8, <1>9, <1>10 DEF Steps

LEMMA ShapeStep ==
  ASSUME Shape, Steps
  PROVE  Shape'
<1>1. request' \in Requests
  BY DEF Shape, Steps
<1> QED
  BY <1>1, TreeStep, SelectedStep, StagesStep DEF Shape

-----------------------------------------------------------------------------
(* What is finished waits for nothing                                       *)

\* A finished node does not wait for one that is at work.
LEMMA NotAwaited ==
  ASSUME Joined, NEW m \in DOMAIN value, NEW n \in DOMAIN value,
         Finished(m), ~Finished(n), NEW S, S \subseteq Kept
  PROVE  ~Chain(n, m, S)
BY ChainMore DEF Joined

\* Nor does it wait for what the one at work will be given.
LEMMA NotAwaitedLater ==
  ASSUME Shape, Joined, NEW n \in DOMAIN value, Grows(n),
         NEW x \in DOMAIN value, Finished(x),
         NEW m \in DOMAIN value' \ DOMAIN value, NEW S, S \subseteq Kept
  PROVE  ~Chain(m, x, S)
<1> SUFFICES ASSUME Chain(m, x, S) PROVE FALSE
  OBVIOUS
<1>1. Grown(n, m) /\ ~Finished(n)
  BY DEF Grows, Finished
<1>2. m \in Seq(Names) /\ x \in Seq(Names) /\ n \in Seq(Names) /\ m # x
  BY <1>1, OnTheWay DEF Grown, Shape
<1>3. Chain(Parent(m), x, S)
  BY <1>2, ChainUp
<1>4. CASE Parent(m) = n
  BY <1>1, <1>3, <1>4, NotAwaited
<1>5. CASE Parent(m) # n
  <2>1. /\ Parent(m) \in DOMAIN value' \ DOMAIN value
        /\ Parent(m) # <<>> /\ Parent(Parent(m)) = n /\ Parent(m) \in Seq(Names)
    BY <1>1, <1>2, <1>5, AboveNode DEF Grown
  <2>2. Chain(n, x, S)
    BY <1>2, <1>3, <2>1, ChainUp
  <2> QED
    BY <1>1, <2>2, NotAwaited
<1> QED
  BY <1>4, <1>5

\* What is new and finished has nothing below it.
LEMMA NewEnds ==
  ASSUME Shape, Steps, NEW n \in DOMAIN value, Grows(n),
         NEW x \in DOMAIN value' \ DOMAIN value, Finished(x)',
         NEW m \in DOMAIN value', NEW S, Chain(m, x, S)
  PROVE  m = x
<1> SUFFICES ASSUME m # x PROVE FALSE
  OBVIOUS
<1>1. Tree'
  BY TreeStep
<1>2. m \in Seq(Names) /\ x \in Seq(Names)
  BY <1>1 DEF Tree
<1>3. PICK k \in 1 .. Len(m) :
        LET c == SubSeq(m, 1, k)
        IN  c \in Seq(Names) /\ c # <<>> /\ Parent(c) = x /\ c \in S /\ Chain(m, c, S)
  BY <1>2, ChainDown
<1> DEFINE c == SubSeq(m, 1, k)
<1>4. k \in 0 .. Len(m)
  BY <1>2, WholeAndRoot
<1>5. c \in DOMAIN value'
  BY <1>1, <1>4 DEF Tree
<1>6. c \notin DOMAIN value
  BY <1>3, OnTheWay DEF Shape
<1>7. value'[x] = "open"
  BY <1>3, <1>5, <1>6 DEF Grows, Grown
<1> QED
  BY <1>7 DEF Finished

LEMMA JoinedStep ==
  ASSUME Shape, Joined, Steps
  PROVE  Joined'
<1>1. Kept' = Kept /\ Tree
  BY SameRequest DEF Steps, Shape
<1> SUFFICES ASSUME NEW n \in DOMAIN value', NEW m \in DOMAIN value',
                    Finished(n)', Chain(m, n, Kept)
             PROVE  Finished(m)'
  BY <1>1 DEF Joined
<1>2. ASSUME n \in DOMAIN value, Finished(n), m \in DOMAIN value PROVE Finished(m)'
  <2>1. Finished(m)
    BY <1>2 DEF Joined
  <2> QED
    BY <1>2, <2>1, FinishedStays DEF Finished
<1>3. ASSUME NEW x \in DOMAIN value, Settles(x) PROVE Finished(m)'
  <2>1. value' = [value EXCEPT ![x] = "null"] /\ value[x] \notin Opened
    BY <1>3 DEF Settles, Opened
  <2>2. CASE n = x
    <3>1. m = n
      BY <1>1, <2>1, <2>2, NothingBelow DEF Shape
    <3> QED
      BY <3>1
  <2>3. CASE n # x
    BY <1>2, <2>1, <2>3 DEF Finished
  <2> QED
    BY <2>2, <2>3
<1>4. ASSUME NEW x \in DOMAIN value, Begins(x) PROVE Finished(m)'
  BY <1>2, <1>4 DEF Begins, Finished
<1>5. ASSUME NEW x \in DOMAIN value, Grows(x) PROVE Finished(m)'
  <2>1. CASE n \notin DOMAIN value
    <3>1. m = n
      BY <1>5, <2>1, NewEnds
    <3> QED
      BY <3>1
  <2>2. CASE n \in DOMAIN value
    <3>1. n # x /\ Finished(n)
      BY <1>5, <2>2 DEF Grows, Finished
    <3>2. m \in DOMAIN value
      BY <1>5, <2>2, <3>1, NotAwaitedLater
    <3> QED
      BY <1>2, <2>2, <3>1, <3>2
  <2> QED
    BY <2>1, <2>2
<1>6. ASSUME NEW x \in DOMAIN value, Joins(x) PROVE Finished(m)'
  <2>1. DOMAIN value' = DOMAIN value /\ n \in Seq(Names)
    BY <1>1, <1>6, OnTheWay DEF Joins
  <2>2. CASE n = x
    <3>1. CASE m = n
      BY <3>1
    <3>2. CASE m # n
      <4>1. PICK c \in DOMAIN value : c # <<>> /\ Parent(c) = n /\ c \in Kept /\ Chain(m, c, Kept)
        BY <1>1, <2>1, <3>2, ChainInTree
      <4>2. c \in Awaited(n)
        BY <4>1 DEF Awaited, Children, Kept
      <4>3. Finished(c)
        BY <1>6, <2>2, <4>2 DEF Joins
      <4>4. Finished(m)
        BY <2>1, <4>1, <4>3 DEF Joined
      <4> QED
        BY <2>1, <4>4, FinishedStays DEF Finished
    <3> QED
      BY <3>1, <3>2
  <2>3. CASE n # x
    <3>1. Finished(n)
      BY <1>6, <2>1, <2>3 DEF Joins, Finished
    <3> QED
      BY <1>2, <2>1, <3>1
  <2> QED
    BY <2>2, <2>3
<1>7. ASSUME Sends PROVE Finished(m)'
  BY <1>2, <1>7 DEF Sends, Finished
<1> QED
  BY <1>3, <1>4, <1>5, <1>6, <1>7 DEF Steps

-----------------------------------------------------------------------------
(* Nulls reach what they must, and are explained                            *)

\* A child whose null is counted is one that must be there (the null checks of the
\* objects and the loops of the lists, against schema.graphql).
LEMMA CountsAsDeclared ==
  ASSUME Shape, NEW c \in DOMAIN value, c # <<>>
  PROVE  (IsElement(c) \/ Last(c) \in Holder(c).required) <=> MustBeThere(c)
<1>1. c \in Seq(Names) /\ Chosen(c) /\ request \in Requests
  BY OnTheWay DEF Shape, Selected
<1>2. CASE IsElement(c)
  BY <1>2, Kinds DEF MustBeThere
<1>3. CASE IsField(c)
  BY <1>1, <1>3, Kinds, FieldFacts
<1> QED
  BY <1>2, <1>3, Kinds

\* A finished node gets no children any more.
LEMMA SourceStays ==
  ASSUME Shape, Steps, NEW m \in DOMAIN value, Finished(m)
  PROVE  Source(m)' <=> Source(m)
<1>1. value'[m] = value[m] /\ DOMAIN value \subseteq DOMAIN value'
  BY FinishedStays
<1>2. ASSUME value[m] = "null" PROVE Children(m)' = Children(m)
  <2>1. ASSUME NEW c \in DOMAIN value', c # <<>>, Parent(c) = m PROVE c \in DOMAIN value
    <3> SUFFICES ASSUME c \notin DOMAIN value PROVE FALSE
      OBVIOUS
    <3>1. PICK n \in DOMAIN value : Grows(n)
      BY DEF Steps, Settles, Begins, Joins, Sends
    <3>2. value'[m] = "open"
      BY <2>1, <3>1 DEF Grows, Grown
    <3> QED
      BY <1>1, <1>2, <3>2
  <2> QED
    BY <1>1, <2>1 DEF Children
<1> QED
  BY <1>1, <1>2 DEF Source

\* What reaches a finished node does so from the moment it is finished.
LEMMA ReachedStays ==
  ASSUME Shape, Joined, Steps, NEW n \in DOMAIN value, Finished(n)
  PROVE  Reached(n)' <=> Reached(n)
<1>1. Passing' = Passing /\ DOMAIN value \subseteq DOMAIN value'
  BY SameRequest, FinishedStays DEF Steps
<1>2. ASSUME NEW m \in DOMAIN value', Chain(m, n, Passing)
      PROVE  m \in DOMAIN value /\ Finished(m)
  <2>1. m \in DOMAIN value
    <3> SUFFICES ASSUME m \notin DOMAIN value PROVE FALSE
      OBVIOUS
    <3>1. PICK x \in DOMAIN value : Grows(x)
      BY DEF Steps, Settles, Begins, Joins, Sends
    <3> QED
      BY <1>2, <3>1, NotAwaitedLater, PassingIsKept
  <2> QED
    BY <1>2, <2>1, ChainMore, PassingIsKept DEF Joined
<1>3. \A m \in DOMAIN value' : Chain(m, n, Passing) => (Source(m)' <=> Source(m))
  BY <1>2, SourceStays
<1> QED
  BY <1>1, <1>2, <1>3 DEF Reached

LEMMA NullsStep ==
  ASSUME Shape, Joined, NullsPassedOn, Steps
  PROVE  NullsPassedOn'
<1>1. Passing' = Passing /\ Tree /\ Tree'
  BY SameRequest, TreeStep DEF Steps, Shape
<1> SUFFICES ASSUME NEW n \in DOMAIN value', Finished(n)'
             PROVE  value'[n] = "null" <=> Reached(n)'
  BY DEF NullsPassedOn
<1>2. n \in Seq(Names) /\ Chain(n, n, Passing)
  BY <1>1, ChainSelf DEF Tree
<1>3. CASE n \in DOMAIN value /\ Finished(n)
  BY <1>3, FinishedStays, ReachedStays DEF NullsPassedOn
<1>4. CASE ~(n \in DOMAIN value /\ Finished(n))
  <2>1. ASSUME NEW x \in DOMAIN value, Settles(x) PROVE value'[n] = "null" <=> Reached(n)'
    <3>1. /\ value' = [value EXCEPT ![x] = "null"]
          /\ value[x] \notin Opened
      BY <2>1 DEF Settles, Opened
    <3>2. n = x /\ value'[n] = "null"
      BY <1>4, <3>1 DEF Finished
    <3>3. Children(n)' = {}
      BY <1>1, <3>1, <3>2, NothingBelow DEF Children, Shape
    <3> QED
      BY <1>1, <1>2, <3>2, <3>3 DEF Reached, Source
  <2>2. ASSUME NEW x \in DOMAIN value, Grows(x) PROVE value'[n] = "null" <=> Reached(n)'
    <3>1. n \notin DOMAIN value
      BY <1>4, <2>2 DEF Grows, Finished
    <3>2. \A m \in DOMAIN value' : \A S : Chain(m, n, S) => m = n
      BY <2>2, <3>1, NewEnds
    <3>3. Children(n)' = {}
      <4> SUFFICES ASSUME NEW c \in DOMAIN value', c # <<>>, Parent(c) = n PROVE FALSE
        BY DEF Children
      <4>1. c \in Seq(Names) /\ n # c
        <5>1. c \in Seq(Names)
          BY <1>1 DEF Tree
        <5>2. Len(n) = Len(c) - 1 /\ Len(c) \in Nat
          BY <5>1, AboveNode, WholeAndRoot
        <5> QED
          BY <5>1, <5>2
      <4>2. Chain(c, c, {c})
        BY <4>1, ChainSelf
      <4>3. Chain(c, n, {c})
        BY <4>1, <4>2, ChainJoin
      <4> QED
        BY <3>2, <4>1, <4>3
    <3> QED
      BY <1>1, <1>2, <3>2, <3>3 DEF Reached, Source
  <2>3. ASSUME NEW x \in DOMAIN value, Joins(x) PROVE value'[n] = "null" <=> Reached(n)'
    <3>1. /\ n = x /\ DOMAIN value' = DOMAIN value
          /\ value'[n] = IF Invalid(n) THEN "null" ELSE "done"
          /\ \A c \in Awaited(n) : Finished(c)
      BY <1>4, <2>3 DEF Joins, Finished
    <3>2. \A c \in Awaited(n) : c \in DOMAIN value /\ c # <<>> /\ Parent(c) = n /\ ~IsDeferred(c)
      BY DEF Awaited, Children
    <3>3. ASSUME Invalid(n) PROVE Reached(n)'
      <4>1. PICK c \in Awaited(n) :
               value[c] = "null" /\ (IsElement(c) \/ Last(c) \in Holder(c).required)
        BY <3>3 DEF Invalid
      <4>2. c \in DOMAIN value /\ c # <<>> /\ Parent(c) = n /\ c \in Seq(Names) /\ c \in Passing
        BY <1>1, <3>2, <4>1, OnTheWay, CountsAsDeclared DEF Passing
      <4>3. PICK m \in DOMAIN value : Source(m) /\ Chain(m, c, Passing)
        BY <4>1, <4>2 DEF NullsPassedOn, Finished, Reached
      <4>4. m \in Seq(Names)
        BY <1>1, OnTheWay
      <4>5. Chain(m, n, Passing)
        BY <4>2, <4>3, <4>4, ChainJoin
      <4>6. Source(m)'
        BY <4>3, SourceStays DEF Finished, Source
      <4> QED
        BY <1>1, <3>1, <4>5, <4>6 DEF Reached
    <3>4. ASSUME ~Invalid(n), Reached(n)' PROVE FALSE
      <4>1. PICK m \in DOMAIN value : Source(m)' /\ Chain(m, n, Passing)
        BY <1>1, <3>1, <3>4 DEF Reached
      <4>2. m # n
        BY <3>1, <3>4, <4>1 DEF Source
      <4>3. PICK c \in DOMAIN value :
              c # <<>> /\ Parent(c) = n /\ c \in Passing /\ Chain(m, c, Passing)
        BY <1>1, <1>2, <4>1, <4>2, ChainInTree
      <4>4. c \in Awaited(n) /\ Finished(c) /\ MustBeThere(c)
        BY <3>1, <4>3 DEF Awaited, Children, Passing
      <4>5. Finished(m)
        BY <4>3, <4>4, ChainMore, PassingIsKept DEF Joined
      <4>6. Reached(c)
        BY <4>1, <4>3, <4>5, SourceStays DEF Reached
      <4>7. value[c] = "null"
        BY <4>4, <4>6 DEF NullsPassedOn
      <4> QED
        BY <3>4, <4>3, <4>4, <4>7, CountsAsDeclared DEF Invalid
    <3> QED
      BY <3>1, <3>3, <3>4
  <2> QED
    BY <1>4, <2>1, <2>2, <2>3 DEF Steps, Begins, Sends, Finished
<1> QED
  BY <1>3, <1>4

LEMMA ErrorsStep ==
  ASSUME Shape, NullsExplained, Steps
  PROVE  NullsExplained'
<1>1. /\ Passing' = Passing /\ Tree /\ Tree'
      /\ \A n : MustBeThere(n)' <=> MustBeThere(n)
  BY SameRequest, TreeStep DEF Steps, Shape
<1>2. errors \subseteq errors'
  BY DEF Steps, Settles, Begins, Grows, Joins, Sends
<1>3. ASSUME NEW e \in errors' PROVE e \in DOMAIN value' /\ value'[e] = "null"
  <2>1. CASE e \in errors
    BY <2>1, FinishedStays DEF NullsExplained, Finished
  <2>2. CASE e \notin errors
    BY <2>2 DEF Steps, Settles, Begins, Grows, Joins, Sends
  <2> QED
    BY <2>1, <2>2
<1>4. ASSUME NEW n \in DOMAIN value', value'[n] = "null", MustBeThere(n)
      PROVE  \E e \in errors' : Chain(e, n, Passing)
  <2>1. n \in Seq(Names) /\ Chain(n, n, Passing)
    BY <1>1, ChainSelf DEF Tree
  <2>2. CASE n \in DOMAIN value /\ value[n] = "null"
    BY <1>2, <1>4, <2>2 DEF NullsExplained
  <2>3. CASE ~(n \in DOMAIN value /\ value[n] = "null")
    <3>1. ASSUME NEW x \in DOMAIN value, Settles(x) PROVE n \in errors'
      BY <1>4, <2>3, <3>1 DEF Settles
    <3>2. ASSUME NEW x \in DOMAIN value, Grows(x) PROVE n \in errors'
      <4>1. n \notin DOMAIN value
        BY <1>4, <2>3, <3>2 DEF Grows
      <4> QED
        BY <1>4, <3>2, <4>1 DEF Grows
    <3>3. ASSUME NEW x \in DOMAIN value, Joins(x)
          PROVE  \E e \in errors' : Chain(e, n, Passing)
      <4>1. n = x /\ Invalid(n)
        BY <1>4, <2>3, <3>3 DEF Joins
      <4>2. PICK c \in Awaited(n) :
               value[c] = "null" /\ (IsElement(c) \/ Last(c) \in Holder(c).required)
        BY <4>1 DEF Invalid
      <4>3. c \in DOMAIN value /\ c # <<>> /\ Parent(c) = n /\ ~IsDeferred(c)
        BY DEF Awaited, Children
      <4>4. c \in Seq(Names) /\ MustBeThere(c)
        BY <1>1, <4>2, <4>3, OnTheWay, CountsAsDeclared
      <4>5. PICK e \in errors : Chain(e, c, Passing)
        BY <4>2, <4>3, <4>4 DEF NullsExplained
      <4>6. e \in Seq(Names)
        BY <1>1, OnTheWay DEF NullsExplained
      <4>7. Chain(e, n, Passing)
        BY <4>3, <4>4, <4>5, <4>6, ChainJoin DEF Passing
      <4> QED
        BY <1>2, <4>7
    <3> QED
      BY <1>4, <2>1, <2>3, <3>1, <3>2, <3>3 DEF Steps, Begins, Sends
  <2> QED
    BY <2>2, <2>3
<1> QED
  BY <1>1, <1>3, <1>4 DEF NullsExplained

-----------------------------------------------------------------------------
(* Mutations take turns                                                     *)

\* The place of the root in the request.
LEMMA PathOfRoot == Path(<<>>) = <<>>
<1>1. <<>> \in Seq(Names) /\ Len(<<>>) = 0
  BY WholeAndRoot
<1>2. Path(<<>>) \in Seq(Names) /\ Len(Path(<<>>)) = 0
  BY <1>1, PathType
<1> QED
  BY <1>2, WholeAndRoot

\* A node at the top is named by one field.
LEMMA TopNode ==
  ASSUME NEW n \in Seq(Names), Len(n) = 1
  PROVE  n # <<>> /\ Parent(n) = <<>> /\ Last(n) = n[1] /\ n = Append(<<>>, n[1])
<1>1. n # <<>>
  BY WholeAndRoot
<1>2. Parent(n) \in Seq(Names) /\ Len(Parent(n)) = 0 /\ n = Append(Parent(n), Last(n))
  BY <1>1, AboveNode
<1>3. Parent(n) = <<>>
  BY <1>2, WholeAndRoot
<1>4. Last(n) = n[1]
  BY DEF Last
<1> QED
  BY <1>1, <1>2, <1>3, <1>4

\* The root of a mutation runs its fields in turn and defers none.
LEMMA RootOfMutation ==
  ASSUME request \in Requests, request.operation = "Mutation"
  PROVE  TypeOf(<<>>) = "Mutation"
BY PathOfRoot, RootType DEF TypeOf

LEMMA TopOfMutation ==
  ASSUME request \in Requests, request.operation = "Mutation",
         NEW n \in Seq(Names), Len(n) = 1, IsField(n), Chosen(n)
  PROVE  ~IsLeaf(n) /\ ~IsDeferred(n) /\ Holder(n).concurrent = {}
<1>1. Holder(n) = Objects["Mutation"]
  BY RootOfMutation, TopNode DEF Holder
<1>2. ~IsDeferred(n)
  BY <1>1, FieldFacts, MutationFacts
<1>3. FieldOf(n).of \in DOMAIN Objects
  <2>1. Last(n) \in DOMAIN Holder(n).fields
    <3>1. Path(<<>>) \in DOMAIN request.selection /\ Last(n) \in Range(request.selection[Path(<<>>)])
      BY TopNode DEF Chosen, Selection
    <3>2. FieldIsValid(request, Path(<<>>), Last(n))
      BY <3>1, ExecutorAssumption DEF IsValid
    <3> QED
      BY <3>2, RootOfMutation, <1>1 DEF FieldIsValid, TypeOf
  <2> QED
    BY <1>1, <2>1, MutationFacts DEF FieldOf
<1> QED
  BY <1>1, <1>2, <1>3, MutationFacts DEF IsLeaf

\* What is begun at the top of a mutation was begun when those before it were
\* finished.
LEMMA ReadyInTurn ==
  ASSUME Shape, request.operation = "Mutation",
         NEW x \in DOMAIN value, NEW y \in DOMAIN value, Len(x) = 1, Len(y) = 1,
         Precedes(x, y), Ready(y)
  PROVE  Finished(x)
<1> DEFINE names == Selection(<<>>)
<1>1. /\ request \in Requests /\ x \in Seq(Names) /\ y \in Seq(Names)
      /\ Chosen(y) /\ IsField(y)
  BY OnTheWay DEF Shape, Selected, Ready, Stages, Staged, Opened
<1>2. Parent(y) = <<>> /\ Last(y) = y[1] /\ x = Append(<<>>, x[1])
  BY <1>1, TopNode
<1>3. Holder(y).concurrent = {}
  BY <1>1, TopOfMutation
<1>4. PICK i \in DOMAIN names : \E j \in DOMAIN names :
         i < j /\ names[i] = x[1] /\ names[j] = y[1]
  BY DEF Precedes
<1>5. x[1] \in Range(names)
  BY <1>4 DEF Range
<1>6. \A f \in Range(names) :
        f \notin {} /\ (Last(y) \in {} \/
          \E a, b \in DOMAIN names : a < b /\ names[a] = f /\ names[b] = Last(y))
        => Finished(Append(<<>>, f))
  BY <1>2, <1>3 DEF Ready
<1>7. Finished(Append(<<>>, x[1]))
  BY <1>2, <1>4, <1>5, <1>6
<1> QED
  BY <1>2, <1>7

LEMMA InTurnStep ==
  ASSUME Shape, InTurn, Steps
  PROVE  InTurn'
<1>1. /\ request' = request /\ Tree
      /\ \A x, y : Precedes(x, y)' <=> Precedes(x, y)
  BY SameRequest DEF Steps, Shape
<1> SUFFICES ASSUME request.operation = "Mutation",
                    NEW x \in DOMAIN value', NEW y \in DOMAIN value',
                    Len(x) = 1, Len(y) = 1, Precedes(x, y), value'[y] # "waiting"
             PROVE  Finished(x)'
  BY <1>1 DEF InTurn
<1>2. ASSUME NEW m \in DOMAIN value' \ DOMAIN value PROVE Len(m) # 1
  <2> SUFFICES ASSUME Len(m) = 1 PROVE FALSE
    OBVIOUS
  <2>1. PICK n \in DOMAIN value : Grows(n)
    BY <1>2 DEF Steps, Settles, Begins, Joins, Sends
  <2>2. Grown(n, m) /\ value[n] \notin Opened
    BY <2>1 DEF Grows, Opened
  <2>3. n # <<>>
    BY <2>2, NotOpened
  <2>4. Parent(m) = <<>>
    BY <2>2, TopNode DEF Grown
  <2> QED
    BY <2>2, <2>3, <2>4 DEF Grown
<1>3. x \in DOMAIN value /\ y \in DOMAIN value
  BY <1>2
<1>4. Finished(x)
  <2>1. CASE value[y] # "waiting"
    BY <1>3, <2>1 DEF InTurn
  <2>2. CASE value[y] = "waiting"
    <3>1. Ready(y)
      <4>1. value'[y] # value[y]
        BY <2>2
      <4>2. ASSUME NEW n \in DOMAIN value, Settles(n) PROVE Ready(y)
        BY <1>3, <2>2, <4>1, <4>2 DEF Settles
      <4>3. ASSUME NEW n \in DOMAIN value, Begins(n) PROVE Ready(y)
        BY <1>3, <2>2, <4>1, <4>3 DEF Begins
      <4>4. ASSUME NEW n \in DOMAIN value, Grows(n) PROVE Ready(y)
        BY <1>3, <2>2, <4>1, <4>4 DEF Grows
      <4>5. ASSUME NEW n \in DOMAIN value, Joins(n) PROVE Ready(y)
        BY <1>3, <2>2, <4>1, <4>5 DEF Joins
      <4> QED
        BY <4>1, <4>2, <4>3, <4>4, <4>5 DEF Steps, Sends
    <3> QED
      BY <1>3, <3>1, ReadyInTurn
  <2> QED
    BY <2>1, <2>2
<1> QED
  BY <1>3, <1>4, FinishedStays DEF Finished

\* What was sent stays sent.
LEMMA AnsweredStep ==
  ASSUME Shape, Answered, Steps
  PROVE  Answered'
<1>1. \A n : IsDeferred(n)' <=> IsDeferred(n)
  BY SameRequest DEF Steps
<1>2. \A n \in DOMAIN value : Finished(n) => n \in DOMAIN value' /\ Finished(n)'
  BY FinishedStays DEF Finished
<1>3. <<>> \in DOMAIN value
  BY DEF Shape, Tree
<1>4. /\ sent' = sent \/ (sent' = TRUE /\ Finished(<<>>))
      /\ \A n \in delivered' \ delivered : n \in DOMAIN value /\ IsDeferred(n) /\ Finished(n)
  BY DEF Steps, Sends
<1>5. (sent \in BOOLEAN)' /\ (sent => Finished(<<>>))'
  <2>1. Finished(<<>>) => Finished(<<>>)'
    BY <1>2, <1>3
  <2>2. sent \in BOOLEAN /\ (sent => Finished(<<>>))
    BY DEF Answered
  <2>3. CASE sent' = sent
    <3>1. sent' \in BOOLEAN
      BY <2>2, <2>3
    <3>2. sent' => sent
      BY <2>3
    <3> QED
      BY <2>1, <2>2, <3>1, <3>2
  <2>4. CASE sent' = TRUE /\ Finished(<<>>)
    BY <2>1, <2>4
  <2> QED
    BY <1>4, <2>3, <2>4
<1>6. ASSUME NEW n \in delivered'
      PROVE  n \in DOMAIN value' /\ IsDeferred(n)' /\ Finished(n)'
  <2>1. n \in DOMAIN value /\ IsDeferred(n) /\ Finished(n)
    BY <1>4 DEF Answered
  <2> QED
    BY <1>1, <1>2, <2>1
<1> QED
  BY <1>5, <1>6 DEF Answered

-----------------------------------------------------------------------------
(* The invariant                                                            *)

\* A response begins with the fields of the root.
LEMMA InitInv ==
  ASSUME Init
  PROVE  Inv
<1> DEFINE born == Born({<<>>}, {})
           top  == Fields({<<>>})
<1>1. request \in Requests /\ errors = {} /\ sent = FALSE /\ delivered = {}
      /\ value = born ++ [n \in {<<>>} |-> "open"]
  BY DEF Init
<1>2. <<>> \in Seq(Names) /\ Path(<<>>) \in DOMAIN request.selection
  BY <1>1, PathOfRoot, WholeAndRoot, ExecutorAssumption DEF IsValid
<1>3. /\ DOMAIN born = top
      /\ \A m \in top :
           /\ m \in Seq(Names) /\ m # <<>> /\ Parent(m) = <<>>
           /\ IsField(m) /\ Chosen(m)
           /\ born[m] \in {"done", "deferred", "waiting"}
           /\ IsLeaf(m) <=> born[m] = "done"
           /\ IsDeferred(m) <=> born[m] = "deferred"
  <2>1. /\ DOMAIN Born({<<>>}, {}) = Fields({<<>>})
        /\ \A m \in Fields({<<>>}) :
             LET b == Born({<<>>}, {})[m]
             IN  /\ m \in Seq(Names) /\ m # <<>> /\ Parent(m) \in {<<>>}
                 /\ IsField(m) /\ Chosen(m)
                 /\ b \in {"null", "done", "deferred", "waiting"}
                 /\ IsLeaf(m) <=> b \in {"null", "done"}
                 /\ IsDeferred(m) <=> b = "deferred"
                 /\ b = "null" <=> m \in {}
    <3>1. \A o \in {<<>>} : o \in Seq(Names) /\ Path(o) \in DOMAIN request.selection
      BY <1>2
    <3>2. \A m \in {} : m \in Fields({<<>>}) /\ IsLeaf(m)
      OBVIOUS
    <3> HIDE DEF born, top
    <3> QED
      BY <1>1, <3>1, <3>2, BornFacts
  <2> HIDE DEF born, top
  <2> QED
    BY <2>1 DEF born, top
<1> HIDE DEF born, top
<1>4. /\ DOMAIN value = top \cup {<<>>}
      /\ value[<<>>] = "open"
      /\ \A m \in top : value[m] = born[m]
  <2>1. value = [m \in top \cup {<<>>} |-> IF m \in top THEN born[m] ELSE "open"]
    BY <1>1, <1>3 DEF ++
  <2> QED
    BY <1>3, <2>1
<1>5. ASSUME NEW m \in top
      PROVE  /\ m \in Seq(Names) /\ m # <<>> /\ Parent(m) = <<>>
             /\ IsField(m) /\ Chosen(m)
             /\ value[m] \in {"done", "deferred", "waiting"}
             /\ IsLeaf(m) <=> value[m] = "done"
             /\ IsDeferred(m) <=> value[m] = "deferred"
  BY <1>3, <1>4
<1>6. ~IsField(<<>>) /\ ~IsElement(<<>>) /\ ~IsDeferred(<<>>)
  BY DEF IsField, IsElement, IsDeferred
<1>7. Tree
  <2>1. \A j \in 0 .. Len(<<>>) : SubSeq(<<>>, 1, j) \in DOMAIN value
    BY <1>4, WholeAndRoot
  <2>2. ASSUME NEW m \in top PROVE \A j \in 0 .. Len(m) : SubSeq(m, 1, j) \in DOMAIN value
    BY <1>4, <1>5, <2>1, WayOfChild
  <2> QED
    BY <1>2, <1>4, <1>5, <2>1, <2>2 DEF Tree
<1>8. Selected
  BY <1>4, <1>5, <1>6 DEF Selected, Chosen
<1>9. Stages
  BY <1>4, <1>5, <1>6 DEF Stages, Staged, Opened
<1>10. ASSUME NEW n \in DOMAIN value, Finished(n), NEW m \in DOMAIN value, NEW S, Chain(m, n, S)
       PROVE  m = n
  <2> SUFFICES ASSUME m # n PROVE FALSE
    OBVIOUS
  <2>1. n # <<>> /\ n \in Seq(Names)
    BY <1>4, <1>5, <1>10 DEF Finished
  <2>2. PICK c \in DOMAIN value : c # <<>> /\ Parent(c) = n
    BY <1>7, <1>10, <2>1, ChainInTree
  <2> QED
    BY <1>4, <1>5, <2>1, <2>2
<1>11. Joined
  BY <1>10 DEF Joined
<1>12. \A n \in DOMAIN value : value[n] # "null"
  BY <1>4, <1>5
<1>13. NullsPassedOn /\ NullsExplained
  BY <1>1, <1>12 DEF NullsPassedOn, NullsExplained, Reached, Source
<1>14. InTurn
  <2> SUFFICES ASSUME request.operation = "Mutation",
                      NEW y \in DOMAIN value, Len(y) = 1
               PROVE  value[y] = "waiting"
    BY DEF InTurn
  <2>1. y \in top
    BY <1>4, WholeAndRoot
  <2>2. ~IsLeaf(y) /\ ~IsDeferred(y)
    BY <1>1, <1>5, <2>1, TopOfMutation
  <2> QED
    BY <1>5, <2>1, <2>2
<1>15. Answered
  BY <1>1 DEF Answered
<1> QED
  BY <1>1, <1>7, <1>8, <1>9, <1>11, <1>13, <1>14, <1>15 DEF Inv, Shape

LEMMA InvStep ==
  ASSUME Inv, [Next]_vars
  PROVE  Inv'
<1>1. Shape /\ Joined /\ NullsPassedOn /\ NullsExplained /\ InTurn /\ Answered
  BY DEF Inv
<1>2. Steps
  BY <1>1, NextIsStep
<1> QED
  BY <1>1, <1>2, ShapeStep, JoinedStep, NullsStep, ErrorsStep, InTurnStep, AnsweredStep DEF Inv

\* The invariant from which the properties below follow holds in every state of the
\* execution of a request.
THEOREM Invariance == Spec => []Inv
<1>1. Init => Inv
  BY InitInv
<1>2. Inv /\ [Next]_vars => Inv'
  BY InvStep
<1> QED
  BY <1>1, <1>2, PTL DEF Spec

-----------------------------------------------------------------------------
(* The properties                                                           *)

\* The nodes of every response form a tree, in known states; errors name nodes, and
\* only finished deferred parts are delivered.
THEOREM TypeCorrect == Spec => []TypeOK
<1>1. ASSUME Inv PROVE TypeOK
  <2>1. Tree /\ Stages /\ request \in Requests
    BY <1>1 DEF Inv, Shape
  <2>2. ASSUME NEW n \in DOMAIN value
        PROVE  /\ value[n] \in {"deferred", "waiting", "running", "open", "done", "null"}
               /\ n # <<>> => Parent(n) \in DOMAIN value
    BY <2>1, OnTheWay DEF Stages, Staged, Opened
  <2>3. errors \subseteq DOMAIN value
    BY <1>1 DEF Inv, NullsExplained
  <2>4. sent \in BOOLEAN /\ \A n \in delivered : n \in DOMAIN value /\ IsDeferred(n) /\ Finished(n)
    BY <1>1 DEF Inv, Answered
  <2> QED
    BY <2>1, <2>2, <2>3, <2>4 DEF TypeOK
<1> QED
  BY <1>1, Invariance, PTL

\* A node is null exactly if it is null by itself or must be because of something in
\* it: the null checks of the generated objects and the loops of the generated lists
\* pass a null up as far as the declarations of schema.graphql demand, and no farther.
THEOREM NullsCorrect == Spec => []NullsReachWhatTheyMust
<1>1. ASSUME Inv PROVE NullsReachWhatTheyMust
  <2>1. Tree /\ NullsPassedOn
    BY <1>1 DEF Inv, Shape
  <2>2. \A n, m \in DOMAIN value : PassedOn(m, n) <=> Chain(m, n, Passing)
    BY <2>1, OnTheWay, PassedOnIsChain
  <2> QED
    BY <2>1, <2>2 DEF NullsReachWhatTheyMust, NullsPassedOn, Reached
<1> QED
  BY <1>1, Invariance, PTL

\* A null where the schema allows none comes with an error at or below it, except for
\* the null in the place of a deferred field, and what an error names is null: the
\* marshallers that report a null agree with the objects that count it.  A deferred part
\* that is null itself has its error, too.
THEOREM ErrorsCorrect == Spec => []ErrorsTellOfNulls
<1>1. ASSUME Inv PROVE ErrorsTellOfNulls
  <2>1. Tree /\ NullsExplained
    BY <1>1 DEF Inv, Shape
  <2>2. \A e \in errors : e \in DOMAIN value
    BY <2>1 DEF NullsExplained
  <2>3. \A n \in DOMAIN value, e \in errors : PassedOn(e, n) <=> Chain(e, n, Passing)
    BY <2>1, <2>2, OnTheWay, PassedOnIsChain
  <2>4. \A n \in DOMAIN value : value[n] = "null" /\ MustBeThere(n) =>
          \E e \in errors : PassedOn(e, n)
    BY <2>1, <2>3 DEF NullsExplained
  <2>5. \A n \in DOMAIN value : Answer(n) = "null" /\ ~IsDeferred(n) => value[n] = "null"
    BY DEF Answer
  <2> QED
    BY <2>1, <2>4, <2>5 DEF ErrorsTellOfNulls, NullsExplained
<1> QED
  BY <1>1, Invariance, PTL

\* A chain leads up to each prefix of a node.
LEMMA ChainOfPrefix ==
  ASSUME NEW m \in Seq(Names), NEW k \in 0 .. Len(m), NEW S,
         \A j \in k + 1 .. Len(m) : SubSeq(m, 1, j) \in S
  PROVE  Chain(m, SubSeq(m, 1, k), S)
<1> DEFINE n == SubSeq(m, 1, k)
<1>1. Len(m) \in Nat /\ n \in Seq(Names) /\ Len(n) = k /\ n = SubSeq(m, 1, k)
  BY WholeAndRoot, PrefixType
<1> HIDE DEF n
<1>2. IsPrefix(n, m)
  <2>1. Len(n) <= Len(m) /\ n = SubSeq(m, 1, Len(n))
    BY <1>1
  <2> QED
    BY <1>1, <2>1, PrefixIs
<1>3. Chain(m, n, S)
  BY <1>1, <1>2 DEF Chain
<1> QED
  BY <1>3 DEF n

\* What is not in a deferred part is waited for, from the root.
LEMMA ChainOfKept ==
  ASSUME NEW m \in Seq(Names), ~Postponed(m), NEW k \in 0 .. Len(m)
  PROVE  Chain(m, SubSeq(m, 1, k), Kept)
<1>1. ASSUME NEW j \in k + 1 .. Len(m) PROVE SubSeq(m, 1, j) \in Kept
  <2>1. j \in 0 .. Len(m) /\ j \in 1 .. Len(m)
    BY WholeAndRoot
  <2> QED
    BY <2>1, PrefixType DEF Kept, Postponed
<1> QED
  BY <1>1, ChainOfPrefix

\* Once the response is sent, nothing that belongs to it is at work: the wait of each
\* object and list covers its children, at any depth (Dispatch, and the WaitGroups of
\* the lists).
THEOREM StragglersCorrect == Spec => []NoStragglers
<1>1. ASSUME Inv PROVE NoStragglers
  <2>1. Tree /\ Joined /\ (sent => Finished(<<>>))
    BY <1>1 DEF Inv, Shape, Answered
  <2> SUFFICES ASSUME sent, NEW n \in DOMAIN value, ~Postponed(n)
               PROVE  Finished(n)
    BY DEF NoStragglers
  <2>2. n \in Seq(Names) /\ <<>> \in DOMAIN value
    BY <2>1 DEF Tree
  <2>3. 0 \in 0 .. Len(n) /\ SubSeq(n, 1, 0) = <<>>
    BY <2>2, WholeAndRoot
  <2>4. Chain(n, <<>>, Kept)
    BY <2>2, <2>3, ChainOfKept
  <2> QED
    BY <2>1, <2>2, <2>4 DEF Joined
<1> QED
  BY <1>1, Invariance, PTL

\* Each node lies in one field of the root, which was selected there.
LEMMA TopOf ==
  ASSUME Shape, NEW m \in DOMAIN value, m # <<>>
  PROVE  LET t == SubSeq(m, 1, 1)
         IN  /\ t \in DOMAIN value /\ Len(t) = 1 /\ t[1] = m[1]
             /\ m[1] \in Range(Selection(<<>>))
             /\ Len(m) \in Nat /\ 1 \in 0 .. Len(m)
<1> DEFINE t == SubSeq(m, 1, 1)
<1>1. m \in Seq(Names) /\ Len(m) \in Nat /\ 1 \in 0 .. Len(m)
  <2>1. m \in Seq(Names)
    BY OnTheWay DEF Shape
  <2>2. Len(m) \in Nat /\ Len(m) > 0
    BY <2>1, WholeAndRoot
  <2> QED
    BY <2>1, <2>2
<1>2. t \in DOMAIN value /\ t \in Seq(Names) /\ Len(t) = 1 /\ t[1] = m[1]
  BY <1>1, PrefixType, OnTheWay DEF Shape
<1> HIDE DEF t
<1>3. t # <<>> /\ Parent(t) = <<>> /\ Last(t) = t[1]
  BY <1>2, TopNode
<1>4. IsField(t)
  BY <1>2, <1>3, Kinds DEF Shape, Selected, Chosen, IsList, IsField
<1>5. m[1] \in Range(Selection(<<>>))
  BY <1>2, <1>3, <1>4 DEF Shape, Selected, Chosen
<1> QED
  BY <1>1, <1>2, <1>5 DEF t

\* The mutations of a request run one after the other: while one is at work, the
\* answers of those before it are complete, down to the last field that is not
\* deferred, and none after it has begun (_Mutation).
THEOREM TurnsCorrect == Spec => []MutationsInTurn
<1>1. ASSUME Inv PROVE MutationsInTurn
  <2> DEFINE names == Selection(<<>>)
             Place(f) == CHOOSE i \in DOMAIN names : names[i] = f
  <2>1. Shape /\ Tree /\ Stages /\ Joined /\ InTurn /\ request \in Requests
    BY <1>1 DEF Inv, Shape
  <2> SUFFICES ASSUME request.operation = "Mutation",
                      NEW n \in DOMAIN value, Len(n) = 1, value[n] \in {"running", "open"},
                      NEW m \in DOMAIN value, m # <<>>, m[1] # n[1]
               PROVE  IF Place(m[1]) < Place(n[1]) THEN Finished(m) \/ Postponed(m)
                      ELSE value[m] = "waiting"
    BY DEF MutationsInTurn
  <2> DEFINE t == SubSeq(m, 1, 1)
  <2>2. n \in Seq(Names) /\ m \in Seq(Names) /\ n # <<>>
    BY <2>1, OnTheWay, TopNode
  <2>3. /\ t \in DOMAIN value /\ t \in Seq(Names) /\ Len(t) = 1 /\ t[1] = m[1]
        /\ m[1] \in Range(names) /\ n[1] \in Range(names)
        /\ Len(m) \in Nat /\ 1 \in 0 .. Len(m)
    BY <2>1, <2>2, TopOf, OnTheWay
  <2>4. /\ Place(m[1]) \in DOMAIN names /\ names[Place(m[1])] = m[1]
        /\ Place(n[1]) \in DOMAIN names /\ names[Place(n[1])] = n[1]
    BY <2>3 DEF Range
  <2>5. DOMAIN names \subseteq Int
    <3>1. names \in Seq(Names)
      BY <2>1, PathOfRoot, ExecutorAssumption DEF IsValid, Selection
    <3> QED
      BY <3>1, LenProperties
  <2> HIDE DEF t, Place
  <2>6. CASE Place(m[1]) < Place(n[1])
    <3>1. Precedes(t, n)
      BY <2>3, <2>4, <2>6 DEF Precedes
    <3>2. Finished(t)
      BY <2>1, <2>3, <3>1 DEF InTurn
    <3>3. Finished(m) \/ Postponed(m)
      BY <2>1, <2>2, <2>3, <3>2, ChainOfKept DEF Joined, t
    <3> QED
      BY <2>6, <3>3
  <2>7. CASE ~(Place(m[1]) < Place(n[1]))
    <3>1. Place(n[1]) < Place(m[1])
      BY <2>4, <2>5, <2>7
    <3>2. Precedes(n, t)
      BY <2>3, <2>4, <3>1 DEF Precedes
    <3>3. value[t] = "waiting"
      BY <2>1, <2>3, <3>2 DEF InTurn, Finished
    <3>4. Chain(m, t, Seq(Names))
      <4>1. ASSUME NEW j \in 1 + 1 .. Len(m) PROVE SubSeq(m, 1, j) \in Seq(Names)
        <5>1. j \in 0 .. Len(m)
          BY <2>3
        <5> QED
          BY <2>2, <5>1, PrefixType
      <4> QED
        BY <2>2, <2>3, <4>1, ChainOfPrefix DEF t
    <3>5. m = t
      BY <2>1, <2>3, <3>3, <3>4, NothingBelow DEF Opened
    <3> QED
      BY <2>7, <3>3, <3>5
  <2> QED
    BY <2>6, <2>7
<1> QED
  BY <1>1, Invariance, PTL

\* What was sent is not written to any more, nor added to: what a goroutine writes
\* after the response lies in a deferred part, of which the response waits for nothing
\* (Exec writes the data of the response once, while those goroutines go on).
THEOREM AnswersAreFinal == Spec => AnswerIsFinal
<1>1. ASSUME Inv, [Next]_vars, sent,
             NEW n \in DOMAIN value', ~Postponed(n)
      PROVE  n \in DOMAIN value /\ value'[n] = value[n]
  <2>1. Shape /\ Tree /\ Joined /\ Finished(<<>>) /\ <<>> \in DOMAIN value
    BY <1>1 DEF Inv, Shape, Answered, Tree
  <2>2. Steps /\ Tree'
    BY <1>1, <2>1, NextIsStep, TreeStep
  <2>3. n \in Seq(Names)
    BY <2>2 DEF Tree
  <2>4. Chain(n, <<>>, Kept)
    <3>1. 0 \in 0 .. Len(n) /\ SubSeq(n, 1, 0) = <<>>
      BY <2>3, WholeAndRoot
    <3> QED
      BY <1>1, <2>3, <3>1, ChainOfKept
  <2>5. n \in DOMAIN value
    <3> SUFFICES ASSUME n \notin DOMAIN value PROVE FALSE
      OBVIOUS
    <3>1. PICK x \in DOMAIN value : Grows(x)
      BY <2>2 DEF Steps, Settles, Begins, Joins, Sends
    <3> QED
      BY <2>1, <2>4, <3>1, NotAwaitedLater
  <2>6. Finished(n)
    BY <2>1, <2>4, <2>5 DEF Joined
  <2> QED
    BY <2>2, <2>5, <2>6, FinishedStays
<1>2. Inv /\ [Next]_vars =>
        [sent => \A n \in DOMAIN value' :
           ~Postponed(n) => n \in DOMAIN value /\ value'[n] = value[n]]_vars
  BY <1>1
<1> QED
  BY <1>2, Invariance, PTL DEF Spec, AnswerIsFinal
=============================================================================
