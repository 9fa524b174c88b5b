---------------------------- MODULE OscResolver -----------------------------
(***************************************************************************)
(* What resolve_internal_model refuses: the checks that ModelResolver makes *)
(* on the elements it visits.  The Python function behind an external       *)
(* method, and its parameters, are left out.                                *)
(***************************************************************************)
EXTENDS OscValues

RECURSIVE get_parameter_names(_, _)
get_parameter_names(m, p) ==
    LET base == get_base_type(m, p)
    IN  (IF base = Nowhere THEN {} ELSE get_parameter_names(m, base))
        \cup {Name(m, q) : q \in {x \in ToSet(Kids(m, p)) : Kind(m, x) = "ParameterDeclaration"}}

\* A value next to a type that it does not have; what is neither a value nor a keep.
check_parameter_type(m, p) ==
    LET val == get_value_child(m, p)
        declared == IF At(m, p).of[1] = "uint" THEN "int" ELSE At(m, p).of[1]
        entry == TypeName(m, TypeKid(m, p))
    IN  IF val = Nowhere
        THEN Len(At(m, p).kids) # 2 \/ Kind(m, Append(p, 2)) = "KeepConstraintDeclaration"
        ELSE /\ get_type_string(m, val) = declared
             /\ Kind(m, val) = "ListExpression" =>
                    \A k \in DOMAIN Kids(m, val) : get_type_string(m, Kids(m, val)[k]) = entry

\* A keep is an equality about a member, which the value of the type it constrains has.
RECURSIVE HasMember(_, _)
HasMember(v, path) ==
    path # <<>> =>
        v.is = "dict" /\ HasKey(v, Head(path)) /\ HasMember(Get(v, Head(path)), Tail(path))
visit_keep_constraint_declaration(m, p) ==
    LET around == Parent(p)
        definition ==
            CASE Kind(m, around) \in Parameter -> TypeDeclared(m, around)
              [] Kind(m, around) = "BehaviorInvocation" -> <<At(m, around).to[1]>>
              [] Kind(m, around) \in StructuredDeclaration -> <<around>>
              [] OTHER -> <<>>
    IN  /\ KeepIsEquality(m, p)
        /\ definition # <<>>
        /\ Kind(m, definition[1]) \in StructuredDeclaration
        /\ HasMember(ValueOf(m, definition[1]), KeepPath(m, p))

\* The files other than the caller's own that declare an action of this name.
declarations_named(m, name) ==
    {At(m, p).file : p \in {q \in PathsIn(m) : Kind(m, q) = "ActionDeclaration" /\ Name(m, q) = name}}
ArgumentsAccepted(m, p) ==
    LET names == get_parameter_names(m, p)
        Is(kind) == {k \in DOMAIN Kids(m, p) : Kind(m, Append(p, k)) = kind}
    IN  /\ \A k \in Is("NamedArgument") : Name(m, Append(p, k)) \in names
        /\ \A i \in Is("PositionalArgument"), k \in Is("NamedArgument") : i < k
        /\ Cardinality(Is("PositionalArgument")) <= Cardinality(names)
InvocationAccepted(m, p) ==
    /\ Len(At(m, p).of) = 1 =>
          Cardinality(declarations_named(m, At(m, p).of[1]) \ {At(m, p).file}) <= 1
    /\ ArgumentsAccepted(m, p)

visit_action_declaration(m, p) ==
    /\ get_parameter_names(m, p) \cap {"name", "associated_actor"} = {}
    /\ Len(At(m, p).of) = 2 => find_reference_by_name(m, p, At(m, p).of[1]) # Nowhere

\* The element is accepted, given that all its names are resolved.
Accepted(m, p) ==
    LET e == At(m, p)
    IN  CASE e.kind = "PhysicalLiteral" -> KidOfKind(m, e.to[1], {"SIUnitSpecifier"}) # Nowhere
          [] e.kind \in {"ParameterDeclaration", "GlobalParameterDeclaration"} -> check_parameter_type(m, p)
          [] e.kind = "KeepConstraintDeclaration" -> visit_keep_constraint_declaration(m, p)
          [] e.kind = "BehaviorInvocation" -> InvocationAccepted(m, p)
          [] e.kind = "ModifierInvocation" -> e.of[2] = "" /\ e.of[3] = ""
          [] e.kind = "ActionDeclaration" -> visit_action_declaration(m, p)
          [] e.kind = "MethodDeclaration" ->
                \E k \in DOMAIN e.kids : e.kids[k].kind = "MethodBody" /\ e.kids[k].of # <<"">>
          [] e.kind = "DoDirective" -> Kind(m, Parent(p)) = "ScenarioDeclaration"
          [] OTHER -> TRUE

resolve_internal_model(m) ==
    LET paths == PathsIn(m)
    IN  /\ \A p \in paths : Nowhere \notin ToSet(At(m, p).to)
        /\ \A p \in paths : Accepted(m, p)
=============================================================================
