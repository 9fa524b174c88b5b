----------------------------- MODULE OscValues ------------------------------
(***************************************************************************)
(* What the names of the internal model mean and what its parameters are    *)
(* worth: ModelResolver, and get_resolved_value() of the classes in         *)
(* model/types.py.  An element is known by its path: the positions that     *)
(* lead to it from the compilation unit.  Methods and variables, whose      *)
(* values come from Python and from the blackboard, are left out.           *)
(***************************************************************************)
EXTENDS OscModel

RECURSIVE At(_, _)
At(m, p) == IF p = <<>> THEN m ELSE At(m.kids[Head(p)], Tail(p))

Nowhere == <<>>
Parent(p) == Front(p)
Kind(m, p) == At(m, p).kind
Name(m, p) == At(m, p).name
Kids(m, p) == [k \in DOMAIN At(m, p).kids |-> Append(p, k)] \o <<>>
Smallest(S) == CHOOSE n \in S : \A k \in S : n <= k
Largest(S) == CHOOSE n \in S : \A k \in S : k <= n

\* The first child of which this holds.
FirstKid(m, p, Holds(_)) ==
    LET ks == {k \in DOMAIN At(m, p).kids : Holds(At(m, p).kids[k])}
    IN  IF ks = {} THEN Nowhere ELSE Append(p, Smallest(ks))
KidOfKind(m, p, kinds) == FirstKid(m, p, LAMBDA e : e.kind \in kinds)
get_named_child(m, p, name) == FirstKid(m, p, LAMBDA e : e.name = name)

\* The elements that come before another in the order of the visit.
Before(p, q) ==
    \E k \in DOMAIN p \cap DOMAIN q : p[k] < q[k] /\ \A j \in 1..(k - 1) : p[j] = q[j]

StructuredDeclaration ==
    {"StructDeclaration", "ActorDeclaration", "ScenarioDeclaration", "ActionDeclaration",
     "ModifierDeclaration", "BehaviorInvocation", "ModifierInvocation"}
Inherits == {"StructInherits", "ActorInherits", "ScenarioInherits", "ActionInherits"}
Parameter == {"ParameterDeclaration", "GlobalParameterDeclaration", "VariableDeclaration", "Argument"}
Literal == {"StringLiteral", "FloatLiteral", "BoolLiteral", "IntegerLiteral"}
Operation == {"BinaryExpression", "RelationExpression", "LogicalExpression"}
ValueKinds ==
    Literal \cup Operation
    \cup {"FunctionApplicationExpression", "IdentifierReference", "PhysicalLiteral",
          "EnumValueReference", "ListExpression"}
Primitive == {"string", "int", "bool", "float", "uint"}
-----------------------------------------------------------------------------
(* Names                                                                    *)

\* A name means the nearest element that has it: a child of the closest element around, the
\* first one there - but never the element that asks.
find_reference_by_name(m, p, name) ==
    LET Here(n) == {k \in DOMAIN At(m, SubSeq(p, 1, n)).kids :
                        /\ At(m, SubSeq(p, 1, n)).kids[k].name = name
                        /\ Append(SubSeq(p, 1, n), k) # p}
        levels == {n \in 0..(Len(p) - 1) : Here(n) # {}}
    IN  IF levels = {} THEN Nowhere
        ELSE Append(SubSeq(p, 1, Largest(levels)), Smallest(Here(Largest(levels))))

\* resolve() of the type a parameter is declared with; a basic type resolves to nothing.
TypeKid(m, p) == KidOfKind(m, p, {"Type", "ListType"})
is_list(m, p) == Kind(m, TypeKid(m, p)) = "ListType"
TypeName(m, t) == At(m, t).of[1]
IsPrimitive(m, t) == TypeName(m, t) \in Primitive
visit_type(m, t) ==
    IF IsPrimitive(m, t) THEN <<>> ELSE <<find_reference_by_name(m, t, TypeName(m, t))>>

\* A dotted path: its first name is looked up, each further one is a field of what is before it.
\* The type of a parameter is only known if it was visited before.
RECURSIVE Path(_, _, _, _)
Path(m, p, found, names) ==
    LET last == Last(found)
        type == visit_type(m, TypeKid(m, last))
        owner == IF Kind(m, last) # "ParameterDeclaration" THEN last
                 ELSE IF type # <<>> /\ Before(TypeKid(m, last), p) THEN type[1] ELSE Nowhere
        next == IF owner = Nowhere THEN Nowhere ELSE get_named_child(m, owner, Head(names))
    IN  IF names = <<>> \/ last = Nowhere THEN found
        ELSE Path(m, p, Append(found, next), Tail(names))

visit_identifier_reference(m, p) ==
    Path(m, p, <<find_reference_by_name(m, p, At(m, p).of[1])>>, Tail(At(m, p).of))

\* What an invocation calls: an action by its name, or one of an actor's type or of the types
\* that one inherits from.
RECURSIVE ActionOf(_, _, _)
ActionOf(m, p, type) ==
    LET found == find_reference_by_name(m, p, Name(m, type) \o "." \o At(m, p).of[1])
        inherits == KidOfKind(m, type, Inherits)
        base == IF inherits = Nowhere THEN Nowhere
                ELSE find_reference_by_name(m, inherits, At(m, inherits).of[1])
    IN  IF found # Nowhere THEN found
        ELSE IF base = Nowhere THEN Nowhere ELSE ActionOf(m, p, base)
visit_behavior_invocation(m, p) ==
    IF Len(At(m, p).of) = 1 THEN <<find_reference_by_name(m, p, At(m, p).of[1])>>
    ELSE LET actor == find_reference_by_name(m, p, At(m, p).of[2])
             type == IF actor = Nowhere \/ TypeKid(m, actor) = Nowhere THEN <<>>
                     ELSE visit_type(m, TypeKid(m, actor))
         IN  <<IF type = <<>> \/ type = <<Nowhere>> THEN Nowhere ELSE ActionOf(m, p, type[1]), actor>>

visit_enum_value_reference(m, p) ==
    LET enum == find_reference_by_name(m, Parent(p), At(m, p).of[1])
    IN  <<enum, IF enum = Nowhere THEN Nowhere
                ELSE FirstKid(m, enum, LAMBDA e : e.of = <<At(m, p).of[2]>>)>>

\* What the names in an element resolve to.
Resolution(m, p) ==
    LET e == At(m, p)
        ByName == <<find_reference_by_name(m, p, e.of[1])>>
    IN  CASE e.kind = "IdentifierReference" -> visit_identifier_reference(m, p)
          [] e.kind \in {"Type", "ListType"} -> visit_type(m, p)
          [] e.kind = "BehaviorInvocation" -> visit_behavior_invocation(m, p)
          [] e.kind = "EnumValueReference" -> visit_enum_value_reference(m, p)
          [] e.kind \in Inherits \cup {"UnitDeclaration", "PhysicalLiteral", "ModifierInvocation"} -> ByName
          [] e.kind = "EmitDirective" -> IF e.of[1] \in {"start", "end", "fail"} THEN <<>> ELSE ByName
          [] OTHER -> <<>>

\* The model with all its names resolved; what is in an emit is not visited.
RECURSIVE ResolvedFrom(_, _)
ResolvedFrom(m, p) ==
    LET e == At(m, p)
    IN  [e EXCEPT !.to = Resolution(m, p),
                  !.kids = IF e.kind = "EmitDirective" THEN @
                           ELSE Each(Kids(m, p), LAMBDA q : ResolvedFrom(m, q))]
Resolved(m) == ResolvedFrom(m, <<>>)

RECURSIVE PathsFrom(_, _)
PathsFrom(m, p) == {p} \cup UNION {PathsFrom(m, Append(p, k)) : k \in DOMAIN At(m, p).kids}
PathsIn(m) == PathsFrom(m, <<>>)
-----------------------------------------------------------------------------
(* The type of a value, as the text that declares it                        *)

Referred(m, p) == Last(At(m, p).to)
Constructed(m, p) == Referred(m, KidOfKind(m, p, {"IdentifierReference"}))

\* The declaration that the type of a parameter is, if it is not a basic one.
TypeDeclared(m, p) == At(m, TypeKid(m, p)).to

DeclaredTypeString(m, d) ==
    CASE Kind(m, d) \in Parameter -> At(m, d).of[1]
      [] Kind(m, d) = "UnitDeclaration" -> Name(m, Referred(m, d))
      [] Kind(m, d) \in StructuredDeclaration
                       \cup {"PhysicalTypeDeclaration", "EnumDeclaration", "EventDeclaration"} -> Name(m, d)
      [] OTHER -> "none"

RECURSIVE get_type_string(_, _)
get_type_string(m, p) ==
    LET e == At(m, p)
        types == Each(Kids(m, p), LAMBDA q : get_type_string(m, q))
    IN  CASE e.kind = "IntegerLiteral" -> "int"
          [] e.kind = "FloatLiteral" -> "float"
          [] e.kind = "StringLiteral" -> "string"
          [] e.kind \in {"BoolLiteral", "RelationExpression", "LogicalExpression"} -> "bool"
          [] e.kind \in {"PhysicalLiteral", "IdentifierReference"} -> DeclaredTypeString(m, Referred(m, p))
          [] e.kind = "EnumValueReference" -> Name(m, e.to[1])
          [] e.kind = "FunctionApplicationExpression" ->
                IF KidOfKind(m, p, {"IdentifierReference"}) = Nowhere THEN "none"
                ELSE DeclaredTypeString(m, Constructed(m, p))
          [] e.kind = "ListExpression" -> IF types = <<>> THEN "none" ELSE "listof" \o types[1]
          [] e.kind = "BinaryExpression" ->
                \* A sum has the type of what is added last; whether that fits is never seen.
                IF e.of[1] \in {"+", "-"} THEN Last(types)
                ELSE FoldLeft(LAMBDA t, x : IF t \in {"", "float", "int"} THEN x ELSE t, "", types)
          [] OTHER -> "none"
-----------------------------------------------------------------------------
(* Dictionaries and errors                                                  *)

Error(reason) == Value("error", 0, reason, <<>>)
IsError(v) == v.is = "error"
KeysOf(d) == Each(d.parts, LAMBDA x : x.key)
HasKey(d, key) == \E k \in DOMAIN d.parts : d.parts[k].key = key
Get(d, key) == d.parts[Smallest({k \in DOMAIN d.parts : d.parts[k].key = key})].val
Put(d, key, val) ==
    IF IsError(d) THEN d
    ELSE IF IsError(val) THEN val
    ELSE IF HasKey(d, key)
         THEN Dict(Each(d.parts, LAMBDA x : IF x.key = key THEN Item(key, val) ELSE x))
         ELSE Dict(Append(d.parts, Item(key, val)))

RECURSIVE merge_nested_dicts(_, _, _)
merge_nested_dicts(d1, d2, key_must_exist) ==
    LET Merge(d, x) ==
            IF IsError(d) THEN d
            ELSE IF key_must_exist /\ ~HasKey(d, x.key) THEN Error("key not found")
            ELSE IF HasKey(d, x.key) /\ Get(d, x.key).is = "dict" /\ x.val.is = "dict"
                 THEN Put(d, x.key, merge_nested_dicts(Get(d, x.key), x.val, key_must_exist))
                 ELSE Put(d, x.key, x.val)
    IN  IF IsError(d1) THEN d1
        ELSE IF d2.is # "dict" THEN IF IsError(d2) THEN d2 ELSE Error("no dictionary")
        ELSE FoldLeft(Merge, d1, d2.parts)
-----------------------------------------------------------------------------
(* Operators                                                                *)

Numeric(v) == v.is \in {"int", "float", "bool"}
Wider(a, b) == IF "float" \in {a.is, b.is} THEN "float" ELSE "int"
Equal(a, b) == IF Numeric(a) /\ Numeric(b) THEN a.num = b.num ELSE a = b

\* A quotient that is not whole is out of this model; and, or combine truth values.
Computed(op, a, b) ==
    IF IsError(a) THEN a
    ELSE IF IsError(b) THEN b
    ELSE CASE op = "==" -> Truth(Equal(a, b))
           [] op = "!=" -> Truth(~Equal(a, b))
           [] op = "+" /\ a.is = "string" /\ b.is = "string" -> Text(a.text \o b.text)
           [] op = "+" /\ Numeric(a) /\ Numeric(b) -> Number(Wider(a, b), a.num + b.num)
           [] op = "-" /\ Numeric(a) /\ Numeric(b) -> Number(Wider(a, b), a.num - b.num)
           [] op = "*" /\ Numeric(a) /\ Numeric(b) -> Number(Wider(a, b), a.num * b.num)
           [] op = "/" /\ Numeric(a) /\ Numeric(b) /\ b.num > 0 /\ a.num % b.num = 0 ->
                Number("float", a.num \div b.num)
           [] op = "%" /\ Numeric(a) /\ Numeric(b) /\ b.num > 0 -> Number(Wider(a, b), a.num % b.num)
           [] op = "<" /\ Numeric(a) /\ Numeric(b) -> Truth(a.num < b.num)
           [] op = "<=" /\ Numeric(a) /\ Numeric(b) -> Truth(a.num <= b.num)
           [] op = ">" /\ Numeric(a) /\ Numeric(b) -> Truth(a.num > b.num)
           [] op = ">=" /\ Numeric(a) /\ Numeric(b) -> Truth(a.num >= b.num)
           [] op = "and" /\ a.is = "bool" /\ b.is = "bool" -> Truth(a.num = 1 /\ b.num = 1)
           [] op = "or" /\ a.is = "bool" /\ b.is = "bool" -> Truth(a.num = 1 \/ b.num = 1)
           [] OTHER -> Error("operands")
Negated(a) == IF IsError(a) THEN a ELSE Truth(a.num = 0 /\ a.text = "" /\ a.parts = <<>>)
-----------------------------------------------------------------------------
(* get_resolved_value(), of each class                                      *)

RECURSIVE get_resolved_value(_, _, _)

\* What stands for the value of a parameter: only if nothing but its type stands beside it.
get_value_child(m, p) ==
    IF Len(At(m, p).kids) = 2 /\ At(m, p).kids[2].kind \in ValueKinds THEN Append(p, 2) ELSE Nowhere

\* The path of members that a keep is about, without the "it", and the element it is set to.
KeepPath(m, p) == Tail(At(m, p).kids[1].kids[1].of)
KeepIsEquality(m, p) ==
    LET e == At(m, p)
    IN  /\ Len(e.kids) = 1 /\ e.kids[1].kind = "RelationExpression" /\ Len(e.kids[1].kids) = 2
        /\ e.kids[1].of = <<"==">>
        /\ e.kids[1].kids[1].kind = "FieldAccessExpression"
        /\ Head(e.kids[1].kids[1].of) = "it"
RECURSIVE Nested(_, _)
Nested(path, val) ==
    IF path = <<>> THEN val ELSE Put(Dict(<<>>), Head(path), Nested(Tail(path), val))
KeepValue(m, p, active) ==
    IF KeepIsEquality(m, p)
    THEN Nested(KeepPath(m, p), get_resolved_value(m, p \o <<1, 2>>, active))
    ELSE Error("keep")

ParameterValue(m, p, active) ==
    LET val == get_value_child(m, p)
        vals == IF val = Nowhere THEN Dict(<<>>) ELSE get_resolved_value(m, val, active)
        type == TypeDeclared(m, p)
        params == IF type # <<>> /\ Kind(m, type[1]) \in StructuredDeclaration /\ ~is_list(m, p)
                  THEN merge_nested_dicts(get_resolved_value(m, type[1], active), vals, TRUE)
                  ELSE vals
    IN  FoldLeft(LAMBDA d, q : IF Kind(m, q) = "KeepConstraintDeclaration"
                               THEN merge_nested_dicts(d, KeepValue(m, q, active), TRUE) ELSE d,
                 params, Kids(m, p))

get_base_type(m, p) ==
    IF Kind(m, p) \in {"BehaviorInvocation", "ModifierInvocation"} THEN At(m, p).to[1]
    ELSE LET inherits == KidOfKind(m, p, Inherits)
         IN  IF inherits = Nowhere THEN Nowhere ELSE At(m, inherits).to[1]

\* Arguments, given in their order or by name, over the parameters in a dictionary.
Arguments(m, p, params, active) ==
    LET keys == IF IsError(params) THEN <<>> ELSE KeysOf(params)
        Args(kind) == SelectSeq(Kids(m, p), LAMBDA q : Kind(m, q) = kind)
        positional == Args("PositionalArgument")
        Positional == FoldLeft(LAMBDA d, k : IF k > Len(keys) THEN Error("too many arguments")
                                             ELSE Put(d, keys[k], get_resolved_value(m, positional[k], active)),
                               params, [k \in DOMAIN positional |-> k])
    IN  FoldLeft(LAMBDA d, q : Put(d, Name(m, q), get_resolved_value(m, q, active)),
                 Positional, Args("NamedArgument"))

StructuredValue(m, p, active) ==
    LET base == get_base_type(m, p)
        inherited == IF base = Nowhere THEN Dict(<<>>) ELSE get_resolved_value(m, base, active)
        Field(d, q) ==
            LET type == TypeDeclared(m, q)
                typed == IF type = <<>> THEN d
                         ELSE Put(d, Name(m, q), get_resolved_value(m, type[1], active))
                val == get_value_child(m, q)
            IN  IF val # Nowhere THEN Put(typed, Name(m, q), get_resolved_value(m, val, active))
                ELSE IF IsError(typed) \/ HasKey(typed, Name(m, q)) THEN typed
                ELSE Put(typed, Name(m, q), None)
        Member(d, q) ==
            CASE Kind(m, q) = "ParameterDeclaration" -> Field(d, q)
              [] Kind(m, q) = "KeepConstraintDeclaration" ->
                    merge_nested_dicts(d, KeepValue(m, q, active), FALSE)
              [] OTHER -> d
    IN  FoldLeft(Member, Arguments(m, p, inherited, active), Kids(m, p))

FunctionApplicationValue(m, p, active) ==
    LET ref == KidOfKind(m, p, {"IdentifierReference"})
        params == get_resolved_value(m, ref, active)
    IN  IF params.is \in {"dict", "error"} THEN Arguments(m, p, params, active)
        ELSE Error("not applicable")

IdentifierReferenceValue(m, p, active) ==
    LET to == At(m, p).to
        val == get_resolved_value(m, to[1], active)
        Member(v, q) ==
            IF IsError(v) THEN v
            ELSE IF v.is = "dict" /\ HasKey(v, Name(m, q)) THEN Get(v, Name(m, q))
            ELSE Error("member not found")
        basic == Kind(m, to[1]) \in Parameter
                 /\ (TypeDeclared(m, to[1]) = <<>>
                     \/ Kind(m, TypeDeclared(m, to[1])[1]) = "PhysicalTypeDeclaration")
    IN  IF Len(to) > 1 THEN FoldLeft(Member, val, Tail(to))
        ELSE IF val = Dict(<<>>) /\ basic THEN Error("no value") ELSE val

\* Evaluation that comes back to an element it is in the middle of goes round for ever - unless
\* it passes a reference to a single name, which notices that it is being resolved already.
CircularUnguarded(m, p, active) == Error("recursion")
Circular(m, p, active) ==
    LET from == Smallest({k \in DOMAIN active : active[k] = p})
        guarded == \E k \in from..Len(active) :
                       /\ Kind(m, active[k]) = "IdentifierReference"
                       /\ Len(At(m, active[k]).to) = 1
    IN  IF guarded THEN Error("its own value") ELSE Error("recursion")

OperationValue(m, p, active) ==
    LET e == At(m, p)
        Operand(k) == get_resolved_value(m, Append(p, k), active)
    IN  IF e.of = <<"not">> THEN Negated(Operand(1))
        ELSE IF Len(e.kids) # 2 THEN Error("two operands expected")
        ELSE Computed(e.of[1], Operand(1), Operand(2))

\* The number of a member of an enumeration: as written, or the one after the member before.
EnumNumberByPosition(m, q) == Last(q) - 1
EnumNumber(m, q) ==
    FoldLeft(LAMBDA n, e : IF e.value = None THEN n + 1 ELSE e.value.num + 1,
             0, SubSeq(At(m, Parent(q)).kids, 1, Last(q))) - 1

get_resolved_value(m, p, active) ==
    LET e == At(m, p)
        within == Append(active, p)
        Of(q) == get_resolved_value(m, q, active)
    IN  IF e.kind \in {"IdentifierReference"} \cup StructuredDeclaration /\ Contains(active, p)
        THEN Circular(m, p, active)
        ELSE CASE e.kind = "IdentifierReference" -> IdentifierReferenceValue(m, p, within)
               [] e.kind \in StructuredDeclaration -> StructuredValue(m, p, within)
               [] e.kind \in Literal -> e.value
               [] e.kind = "PhysicalLiteral" ->
                     Computed("*", Of(Append(p, 1)), At(m, KidOfKind(m, e.to[1], {"SIUnitSpecifier"})).value)
               [] e.kind = "EnumValueReference" -> Value("enum", EnumNumber(m, e.to[2]), e.of[2], <<>>)
               [] e.kind = "ListExpression" ->
                     LET entries == Each(Kids(m, p), Of)
                         errors == SelectSeq(entries, IsError)
                     IN  IF errors # <<>> THEN errors[1] ELSE List(entries)
               [] e.kind \in {"NamedArgument", "PositionalArgument"} ->
                     IF Len(e.kids) = 1 THEN Of(Append(p, 1)) ELSE Error("argument")
               [] e.kind = "FunctionApplicationExpression" -> FunctionApplicationValue(m, p, active)
               [] e.kind \in Operation -> OperationValue(m, p, active)
               [] e.kind \in Parameter -> ParameterValue(m, p, active)
               [] e.kind = "KeepConstraintDeclaration" -> KeepValue(m, p, active)
               [] OTHER -> None

ValueOf(m, p) == get_resolved_value(m, p, <<>>)
=============================================================================
