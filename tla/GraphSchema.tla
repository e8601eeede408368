----------------------------- MODULE GraphSchema -----------------------------
(***************************************************************************)
(* What the generated executor of the gateway (graphql/generated.go) knows  *)
(* about each type of the schema.  It knows every fact twice: the function  *)
(* of a field says which value it takes and whether that may be nil, and    *)
(* the function of the object that holds the field says whether a null is   *)
(* counted against the object, and whether the field gets a goroutine.      *)
(* The tables keep the two apart, so that what follows from both can be     *)
(* compared with the declarations of schema.graphql (ExecutorProofs).       *)
(***************************************************************************)
EXTENDS Sequences

(* Function f, and g where f says nothing.                                   *)
f ++ g ==
    [x \in DOMAIN f \cup DOMAIN g |-> IF x \in DOMAIN f THEN f[x] ELSE g[x]]

(* The marshaller of a value: an object or a scalar, or a list of them, that *)
(* must be there (marshalN...) or may be nil (marshalO...).                  *)
Value(type, many, nullable) == [of |-> type, many |-> many, nullable |-> nullable]

One(type)   == Value(type, FALSE, FALSE)
Maybe(type) == Value(type, FALSE, TRUE)

AccountList         == Value("Account", TRUE, FALSE)
OrderList           == Value("Order", TRUE, FALSE)
OrderedProductList  == Value("OrderedProduct", TRUE, FALSE)
ProductList         == Value("Product", TRUE, FALSE)
DirectiveList       == Value("__Directive", TRUE, FALSE)
LocationList        == Value("__DirectiveLocation", TRUE, FALSE)
InputValueList      == Value("__InputValue", TRUE, FALSE)
TypeList            == Value("__Type", TRUE, FALSE)
MaybeEnumValueList  == Value("__EnumValue", TRUE, TRUE)
MaybeFieldList      == Value("__Field", TRUE, TRUE)
MaybeInputValueList == Value("__InputValue", TRUE, TRUE)
MaybeTypeList       == Value("__Type", TRUE, TRUE)

(* The scalar whose zero is written as null: graphql.MarshalTime.            *)
ZeroIsNull == {"Time"}

Strings(names)      == [f \in names |-> One("String")]
MaybeStrings(names) == [f \in names |-> Maybe("String")]

-----------------------------------------------------------------------------
(* The fields of each type, by their functions.                              *)

AccountFields == [id |-> One("String"), name |-> One("String"), orders |-> OrderList]

MutationFields == [createAccount |-> Maybe("Account"),
                   createProduct |-> Maybe("Product"),
                   createOrder   |-> Maybe("Order")]

OrderFields == [id         |-> One("String"), createdAt |-> One("Time"),
                totalPrice |-> One("Float"),  products  |-> OrderedProductList]

OrderedProductFields == Strings({"id", "name", "description"})
                        ++ [price |-> One("Float"), quantity |-> One("Int")]

ProductFields == Strings({"id", "name", "description"}) ++ [price |-> One("Float")]

QueryFields == [accounts |-> AccountList, products |-> ProductList]

MetaFields == [__type |-> Maybe("__Type"), __schema |-> Maybe("__Schema")]

DirectiveFields == Strings({"name"}) ++ MaybeStrings({"description"})
                   ++ [isRepeatable |-> One("Boolean"),
                       locations    |-> LocationList, args |-> InputValueList]

EnumValueFields == Strings({"name"}) ++ MaybeStrings({"description", "deprecationReason"})
                   ++ [isDeprecated |-> One("Boolean")]

FieldFields == EnumValueFields ++ [args |-> InputValueList, type |-> One("__Type")]

InputValueFields == Strings({"name"})
                    ++ MaybeStrings({"description", "defaultValue", "deprecationReason"})
                    ++ [type |-> One("__Type"), isDeprecated |-> One("Boolean")]

SchemaFields == MaybeStrings({"description"})
                ++ [types            |-> TypeList,        queryType  |-> One("__Type"),
                    mutationType     |-> Maybe("__Type"), directives |-> DirectiveList,
                    subscriptionType |-> Maybe("__Type")]

TypeNameFields == [kind |-> One("__TypeKind")]
                  ++ MaybeStrings({"name", "description", "specifiedByURL"})

TypeShapeFields == [fields        |-> MaybeFieldList, interfaces |-> MaybeTypeList,
                    possibleTypes |-> MaybeTypeList]

TypeInputFields == [enumValues  |-> MaybeEnumValueList, ofType  |-> Maybe("__Type"),
                    inputFields |-> MaybeInputValueList, isOneOf |-> Maybe("Boolean")]

-----------------------------------------------------------------------------
(* The functions of the objects: the fields whose null makes the object null *)
(* (required), those that run in goroutines once the others are done         *)
(* (concurrent), and those that a request may defer (deferrable).            *)
Object(fields, required, concurrent, deferrable) ==
    [fields |-> fields, required |-> required,
     concurrent |-> concurrent, deferrable |-> deferrable]

Inline(fields, required) == Object(fields, required, {}, {})

(* Mutant: a failed history leaves its account standing.                     *)
AccountLenient == Object(AccountFields, {"id", "name"}, {"orders"}, {"orders"})

Account == Object(AccountFields, {"id", "name", "orders"}, {"orders"}, {"orders"})

(* Mutant: the mutations of a request run like its queries.                  *)
MutationConcurrent ==
    Object(MutationFields, {}, {"createAccount", "createProduct", "createOrder"}, {})

Mutation == Inline(MutationFields, {})

Order == Inline(OrderFields, {"id", "createdAt", "totalPrice", "products"})

OrderedProduct ==
    Inline(OrderedProductFields, {"id", "name", "description", "price", "quantity"})

Product == Inline(ProductFields, {"id", "name", "description", "price"})

Query == Object(QueryFields ++ MetaFields,
                {"accounts", "products"}, {"accounts", "products"}, {})

Directive == Inline(DirectiveFields, {"name", "isRepeatable", "locations", "args"})

EnumValue == Inline(EnumValueFields, {"name", "isDeprecated"})

Field == Inline(FieldFields, {"name", "args", "type", "isDeprecated"})

InputValue == Inline(InputValueFields, {"name", "type", "isDeprecated"})

Schema == Inline(SchemaFields, {"types", "queryType", "directives"})

Type == Inline(TypeNameFields ++ TypeShapeFields ++ TypeInputFields, {"kind"})

Objects == [Account |-> Account, Mutation |-> Mutation, Order |-> Order,
            OrderedProduct |-> OrderedProduct, Product |-> Product, Query |-> Query,
            __Directive |-> Directive, __EnumValue |-> EnumValue, __Field |-> Field,
            __InputValue |-> InputValue, __Schema |-> Schema, __Type |-> Type]

(* The fields whose value takes a call to a service.                         *)
Resolvers == { <<"Query", "accounts">>, <<"Query", "products">>, <<"Account", "orders">> }
             \cup { <<"Mutation", f>> : f \in DOMAIN MutationFields }

-----------------------------------------------------------------------------
(* The types of the arguments of a field, and of the fields of an input      *)
(* object.                                                                    *)
Arguments == [createAccount |-> {"AccountInput"}, createOrder |-> {"OrderInput"},
              createProduct |-> {"ProductInput"}, __type |-> {"String"},
              accounts |-> {"PaginationInput", "String"},
              products |-> {"PaginationInput", "String"},
              args |-> {"Boolean"}, fields |-> {"Boolean"}, enumValues |-> {"Boolean"}]

AccountInput        == {"String"}
OrderInput          == {"String", "OrderedProductInput"}
OrderedProductInput == {"String", "Int"}
PaginationInput     == {"Int"}
ProductInput        == {"String", "Float"}

Inputs == [AccountInput |-> AccountInput, OrderInput |-> OrderInput,
           OrderedProductInput |-> OrderedProductInput,
           PaginationInput |-> PaginationInput, ProductInput |-> ProductInput]

(* The types a list of argument types is made of, through nested inputs.     *)
Parts(types) == types \cup UNION { Inputs[t] : t \in types \cap DOMAIN Inputs }

(* A number that is too large for its type passes the validation of the      *)
(* request and is refused when the arguments are read.                        *)
Refusable(field) ==
    /\ field \in DOMAIN Arguments
    /\ Parts(Parts(Arguments[field])) \cap {"Int", "Float"} # {}
=============================================================================
