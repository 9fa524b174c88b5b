---------------------------- MODULE OscOverrides ----------------------------
(***************************************************************************)
(* The scenario parameter file of OpenScenario2Parser: how the entries of a *)
(* document are put into the resolved model, and the template that is       *)
(* written from one.  What an entry does not fit is refused: a Refused      *)
(* element takes its place.                                                 *)
(***************************************************************************)
EXTENDS OscResolver

IsNumber(v) == v.is \in {"int", "float", "bool"}
IsInt(v) == v.is \in {"int", "bool"}
Str(v) == [v EXCEPT !.is = "string"]
LiteralOf(kind, v) == Element(kind, "", <<>>, v)
With(e, kids) == [e EXCEPT !.kids = kids]

\* The value a literal of this class takes over from an entry, if it does.
Fits(kind, v) ==
    CASE kind = "BoolLiteral" -> v.is = "bool"
      [] kind = "FloatLiteral" -> IsNumber(v)
      [] kind = "IntegerLiteral" -> IsInt(v)
      [] kind = "StringLiteral" -> TRUE
      [] OTHER -> FALSE
Taken(kind, v) ==
    CASE kind = "FloatLiteral" -> Number("float", v.num)
      [] kind = "IntegerLiteral" -> Number("int", v.num)
      [] kind = "StringLiteral" -> Str(v)
      [] OTHER -> v
check_and_convert_override_value_literal_type(kind, v) ==
    IF Fits(kind, v) THEN LiteralOf(kind, Taken(kind, v)) ELSE Refused

LiteralKind == [string |-> "StringLiteral", float |-> "FloatLiteral",
                int |-> "IntegerLiteral", bool |-> "BoolLiteral"]
create_override_value_base_literal(type, v) ==
    IF type \in DOMAIN LiteralKind
    THEN check_and_convert_override_value_literal_type(LiteralKind[type], v)
    ELSE Refused

\* The unit in which an entry is taken for a parameter that has no value of its own.
UnitOf == [length |-> "m", time |-> "s", speed |-> "mps", acceleration |-> "mpss",
           jerk |-> "mpspsps", angle |-> "rad", angular_rate |-> "radps",
           angular_acceleration |-> "radpsps", mass |-> "kg"]
PhysicalLiteralOf(unit, literal) ==
    [Element("PhysicalLiteral", "", <<>>, None) EXCEPT !.to = <<unit>>, !.kids = <<literal>>]
create_override_value_physical_literal(m, type, v) ==
    LET unit == IF Name(m, type) \in DOMAIN UnitOf
                THEN find_reference_by_name(m, type, UnitOf[Name(m, type)]) ELSE Nowhere
    IN  IF IsNumber(v) /\ unit # Nowhere
        THEN PhysicalLiteralOf(unit, LiteralOf("FloatLiteral", Number("float", v.num)))
        ELSE Refused

\* type(...), with no arguments yet.
Application(m, type) ==
    With(Element("FunctionApplicationExpression", "", <<Name(m, type)>>, None),
         <<[Element("IdentifierReference", "", <<>>, None) EXCEPT !.to = <<type>>]>>)

RECURSIVE create_override_value_function_application(_, _, _, _, _),
          set_override_value_list_entries(_, _, _, _), CreatedArgument(_, _, _)

set_override_value_list_entries(m, e, t, v) ==
    LET type == At(m, t).to
        Entry(x) ==
            IF type = <<>> THEN <<create_override_value_base_literal(TypeName(m, t), x)>>
            ELSE CASE Kind(m, type[1]) = "PhysicalTypeDeclaration" ->
                        <<create_override_value_physical_literal(m, type[1], x)>>
                   [] Kind(m, type[1]) = "StructDeclaration" ->
                        <<IF x.is # "dict" THEN Refused
                          ELSE create_override_value_function_application(
                                   m, Application(m, type[1]), type[1], ToSet(KeysOf(x)), x)>>
                   [] OTHER -> <<>>
    IN  IF v.is # "list" THEN Refused
        ELSE With(e, FlattenSeq(Each(v.parts, LAMBDA x : Entry(x.val))))

\* An argument for a field that the application does not have yet: like the field's default,
\* or, if it has none, as the entry is written.  The text "false" counts as true here.
CreatedArgument(m, q, v) ==
    LET val == get_value_child(m, q)
        type == TypeDeclared(m, q)
        literal == At(m, val).kids[1].kind
    IN  IF is_list(m, q)
        THEN set_override_value_list_entries(
                 m, Element("ListExpression", "", <<>>, None), TypeKid(m, q), v)
        ELSE IF val # Nowhere
        THEN CASE Kind(m, val) = "BoolLiteral" ->
                    IF v.is = "bool" THEN LiteralOf("BoolLiteral", Truth(TRUE)) ELSE Refused
               [] Kind(m, val) \in Literal \ {"BoolLiteral"} ->
                    check_and_convert_override_value_literal_type(Kind(m, val), v)
               [] Kind(m, val) = "PhysicalLiteral" ->
                    IF Fits(literal, v)
                    THEN PhysicalLiteralOf(At(m, val).to[1], LiteralOf(literal, Taken(literal, v)))
                    ELSE Refused
               [] OTHER -> Refused
        ELSE CASE v.is = "dict" /\ type # <<>> ->
                    create_override_value_function_application(
                        m, Application(m, type[1]), type[1], ToSet(KeysOf(v)), v)
               [] v.is = "string" -> LiteralOf("StringLiteral", v)
               [] v.is = "float" -> LiteralOf("FloatLiteral", v)
               [] IsInt(v) -> LiteralOf("IntegerLiteral", Number("int", v.num))
               [] OTHER -> Refused

create_override_value_function_application(m, e, type, keys, v) ==
    LET fields == SelectSeq(Kids(m, type), LAMBDA q : Name(m, q) \in keys /\ Kind(m, q) \in Parameter)
        Argument(q) ==
            With(Element("NamedArgument", Name(m, q), <<>>, None),
                 <<CreatedArgument(m, q, Get(v, Name(m, q)))>>)
    IN  IF keys \ {Name(m, q) : q \in ToSet(fields)} # {} THEN Refused
        ELSE With(e, e.kids \o Each(fields, Argument))

RECURSIVE set_override_value(_, _, _), set_override_value_function_application(_, _, _)

\* The entries go to the arguments that are there, in their order or by name; then new
\* arguments are made for those that are left.
set_override_value_function_application(m, e, v) ==
    LET ref == Last(e.kids[1].to)
        ref_fields == SelectSeq(Kids(m, ref), LAMBDA q : Kind(m, q) = "ParameterDeclaration")
        Position(k) == Cardinality({j \in 1..k : e.kids[j].kind = "PositionalArgument"})
        arg_name(k) ==
            IF e.kids[k].kind = "NamedArgument" THEN e.kids[k].name
            ELSE Name(m, ref_fields[Position(k)])
        given == {arg_name(k) : k \in 2..Len(e.kids)}
        Argument(k) ==
            LET field == get_named_child(m, ref, arg_name(k))
                child_app == e.kids[k].kids[1]
                entry == Get(v, arg_name(k))
            IN  IF k = 1 \/ ~HasKey(v, arg_name(k)) THEN e.kids[k]
                ELSE With(e.kids[k],
                          <<IF field = Nowhere THEN Refused
                            ELSE IF is_list(m, field)
                                 THEN set_override_value_list_entries(m, child_app, TypeKid(m, field), entry)
                                 ELSE set_override_value(m, child_app, entry)>>)
    IN  IF v.is # "dict" \/ Len(e.kids[1].to) # 1 THEN Refused
        ELSE create_override_value_function_application(
                 m, With(e, [k \in DOMAIN e.kids |-> Argument(k)] \o <<>>), ref,
                 ToSet(KeysOf(v)) \ given, v)

set_override_value(m, e, v) ==
    CASE e.kind = "FunctionApplicationExpression" -> set_override_value_function_application(m, e, v)
      [] e.kind \in Literal ->
            IF Fits(e.kind, v) THEN [e EXCEPT !.value = Taken(e.kind, v)] ELSE Refused
      [] e.kind = "PhysicalLiteral" ->
            IF e.kids[1].kind \in {"FloatLiteral", "IntegerLiteral"} /\ Fits(e.kids[1].kind, v)
            THEN [e EXCEPT !.kids[1].value = Taken(e.kids[1].kind, v)] ELSE Refused
      [] OTHER -> Refused

\* The value that a parameter without one gets: t and type are what it is declared with.
CreatedValue(m, t, type, v) ==
    IF Kind(m, t) = "ListType"
    THEN set_override_value_list_entries(m, Element("ListExpression", "", <<>>, None), t, v)
    ELSE IF type = <<>> THEN create_override_value_base_literal(TypeName(m, t), v)
    ELSE CASE Kind(m, type[1]) = "PhysicalTypeDeclaration" ->
                 create_override_value_physical_literal(m, type[1], v)
           [] Kind(m, type[1]) = "StructDeclaration" /\ v.is = "dict" ->
                 create_override_value_function_application(
                     m, Application(m, type[1]), type[1], ToSet(KeysOf(v)), v)
           [] OTHER -> Refused

\* A parameter with the entry for it: its value is changed, or it gets one.
OverriddenParameter(m, p, v) ==
    IF get_value_child(m, p) = Nowhere
    THEN With(At(m, p), Append(At(m, p).kids, CreatedValue(m, TypeKid(m, p), TypeDeclared(m, p), v)))
    ELSE [At(m, p) EXCEPT !.kids[2] =
             IF is_list(m, p) THEN set_override_value_list_entries(m, @, TypeKid(m, p), v)
             ELSE set_override_value(m, @, v)]

ScenarioPaths(m) == SelectSeq(Kids(m, <<>>), LAMBDA p : Kind(m, p) = "ScenarioDeclaration")
ParameterPaths(m, s) == SelectSeq(Kids(m, s), LAMBDA p : Kind(m, p) = "ParameterDeclaration")

\* The entries of a document that name no scenario, or no parameter of the scenario.
UnknownOverrides(m, doc) ==
    LET Named(name) == {s \in ToSet(ScenarioPaths(m)) : Name(m, s) = name}
    IN  \E k \in DOMAIN doc.parts :
            \/ Named(doc.parts[k].key) = {}
            \/ /\ doc.parts[k].val.is = "dict"
               /\ \E s \in Named(doc.parts[k].key) :
                      ~(ToSet(KeysOf(doc.parts[k].val))
                        \subseteq {Name(m, p) : p \in ToSet(ParameterPaths(m, s))})

apply_parameter_overrides(m, doc) ==
    LET Entry(p) ==
            IF HasKey(doc, Name(m, Parent(p))) THEN Get(doc, Name(m, Parent(p))) ELSE Dict(<<>>)
        Member(p) ==
            IF Kind(m, p) = "ParameterDeclaration" /\ HasKey(Entry(p), Name(m, p))
            THEN OverriddenParameter(m, p, Get(Entry(p), Name(m, p)))
            ELSE At(m, p)
        Declaration(s) ==
            IF Kind(m, s) = "ScenarioDeclaration" THEN With(At(m, s), Each(Kids(m, s), Member))
            ELSE At(m, s)
    IN  With(m, Each(Kids(m, <<>>), Declaration)
                \o (IF UnknownOverrides(m, doc) THEN <<Refused>> ELSE <<>>))
-----------------------------------------------------------------------------
\* What the template has for a parameter: its value, or one of its type; nothing for some types.
DefaultOf(m, p) ==
    LET type == TypeDeclared(m, p)
        basic == TypeName(m, TypeKid(m, p))
    IN  IF is_list(m, p) THEN <<List(<<>>)>>
        ELSE IF type = <<>>
             THEN CASE basic = "string" -> <<Text("")>>
                    [] basic = "float" -> <<Number("float", 0)>>
                    [] basic = "int" -> <<Number("int", 0)>>
                    [] basic = "bool" -> <<Truth(FALSE)>>
                    [] OTHER -> <<Error("Invalid base type")>>
             ELSE CASE Kind(m, type[1]) = "PhysicalTypeDeclaration" -> <<Number("float", 0)>>
                    [] Kind(m, type[1]) = "StructDeclaration" -> <<ValueOf(m, type[1])>>
                    [] OTHER -> <<>>

TemplateOfDefaults(m) ==
    LET Entry(p) == Each(DefaultOf(m, p), LAMBDA v : Item(Name(m, p), v))
        Scenario(s) == Item(Name(m, s), Dict(FlattenSeq(Each(ParameterPaths(m, s), Entry))))
    IN  Dict(Each(ScenarioPaths(m), Scenario))
create_parameter_file_template(m) ==
    LET Entry(p) ==
            LET val == get_value_child(m, p)
            IN  Each(IF val = Nowhere THEN DefaultOf(m, p) ELSE <<ValueOf(m, val)>>,
                     LAMBDA v : Item(Name(m, p), v))
        Scenario(s) == Item(Name(m, s), Dict(FlattenSeq(Each(ParameterPaths(m, s), Entry))))
    IN  Dict(Each(ScenarioPaths(m), Scenario))

\* An entry cannot be computed.
HasError(doc) ==
    \E i \in DOMAIN doc.parts : \E k \in DOMAIN doc.parts[i].val.parts : IsError(doc.parts[i].val.parts[k].val)

\* The parameters of a scenario with the values they have.
Params(m, s) ==
    FoldLeft(LAMBDA d, p : Put(d, Name(m, p), ValueOf(m, p)), Dict(<<>>), ParameterPaths(m, s))
=============================================================================
