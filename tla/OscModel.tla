------------------------------ MODULE OscModel ------------------------------
(***************************************************************************)
(* ModelBuilder: how the parse tree of a scenario file becomes the internal *)
(* model, a tree of elements named by their classes in model/types.py.      *)
(* Each rule with an enter method makes an element or is refused; a rule    *)
(* without one leaves its parts to the element around it.                   *)
(***************************************************************************)
EXTENDS OscLexicon, Integers, Sequences, SequencesExt

(* What the program computes with.  A number is a number and the type it has; the parts of a
   list are its entries, those of a dictionary its items in their order.                      *)
Value(is, num, text, parts) == [is |-> is, num |-> num, text |-> text, parts |-> parts]
None == Value("none", 0, "", <<>>)
Number(is, n) == Value(is, n, "", <<>>)
Truth(b) == Number("bool", IF b THEN 1 ELSE 0)
Text(s) == Value("string", 0, s, <<>>)
List(vs) == Value("list", 0, "", [k \in DOMAIN vs |-> [key |-> "", val |-> vs[k]]])
Dict(items) == Value("dict", 0, "", items)
Item(key, val) == [key |-> key, val |-> val]

\* An element: its class, its name, the names it mentions, its value if it is a literal, where it
\* is written, the elements its names resolve to, and its children.
Element(kind, name, of, value) ==
    [kind |-> kind, name |-> name, of |-> of, value |-> value,
     file |-> "", line |-> 0, to |-> <<>>, kids |-> <<>>]
CompilationUnit == Element("CompilationUnit", "", <<>>, None)
Refused == Element("Refused", "", <<>>, None)
-----------------------------------------------------------------------------
(* Reading a parse tree                                                     *)

Each(s, F(_)) == [k \in DOMAIN s |-> F(s[k])] \o <<>>
Sub(t, rule) == SelectSeq(t.kids, LAMBDA k : k.rule = rule)
Has(t, rule) == Sub(t, rule) # <<>>

\* getText(): the tokens without what is between them.
RECURSIVE getText(_)
getText(t) == IF t.kids = <<>> THEN t.text ELSE FoldLeft(LAMBDA s, k : s \o getText(k), "", t.kids)
TextOf(t, rule) == IF Has(t, rule) THEN getText(Sub(t, rule)[1]) ELSE ""

\* The names of a path a.b.c.
RECURSIVE Words(_)
Words(t) ==
    IF t.kids # <<>> THEN FlattenSeq(Each(t.kids, Words)) ELSE IF t.rule = "." THEN <<>> ELSE <<t.text>>

RECURSIVE LineOf(_)
LineOf(t) == IF t.kids = <<>> THEN t.line ELSE LineOf(t.kids[1])

Denoted(t) == Lexicon[getText(t)].value
-----------------------------------------------------------------------------
(* The rules whose element only takes over what stands in its parts: the    *)
(* class, the rule that holds its name, and the rules it keeps the text of. *)

Plain(kind, name, of) == [kind |-> kind, name |-> name, of |-> of]

TypeElements ==
    [physicalTypeDeclaration |-> Plain("PhysicalTypeDeclaration", "physicalTypeName", <<>>),
     unitDeclaration |-> Plain("UnitDeclaration", "unitName", <<"physicalTypeName">>)]
EnumElements ==
    [enumDeclaration |-> Plain("EnumDeclaration", "enumName", <<>>),
     enumValueReference |-> Plain("EnumValueReference", "", <<"enumName", "enumMemberName">>)]
StructElements ==
    [structDeclaration |-> Plain("StructDeclaration", "structName", <<>>),
     structInherits |-> Plain("StructInherits", "", <<"structName">>),
     actorDeclaration |-> Plain("ActorDeclaration", "actorName", <<>>),
     actorInherits |-> Plain("ActorInherits", "", <<"actorName">>)]
BehaviorElements ==
    [scenarioDeclaration |-> Plain("ScenarioDeclaration", "qualifiedBehaviorName", <<>>),
     scenarioInherits |-> Plain("ScenarioInherits", "", <<"qualifiedBehaviorName">>),
     actionInherits |-> Plain("ActionInherits", "", <<"qualifiedBehaviorName">>),
     modifierDeclaration |-> Plain("ModifierDeclaration", "modifierName", <<>>)]
FieldElements ==
    [globalParameterDeclaration |-> Plain("GlobalParameterDeclaration", "fieldName", <<"typeDeclarator">>),
     parameterDeclaration |-> Plain("ParameterDeclaration", "fieldName", <<"typeDeclarator">>),
     variableDeclaration |-> Plain("VariableDeclaration", "fieldName", <<"typeDeclarator">>)]
EventElements ==
    [eventDeclaration |-> Plain("EventDeclaration", "eventName", <<>>),
     eventReference |-> Plain("EventReference", "", <<"eventPath">>),
     eventFieldDecl |-> Plain("EventFieldDecl", "", <<"eventFieldName">>),
     eventCondition |-> Plain("EventCondition", "", <<>>),
     riseExpression |-> Plain("RiseExpression", "", <<>>),
     fallExpression |-> Plain("FallExpression", "", <<>>),
     elapsedExpression |-> Plain("ElapsedExpression", "", <<>>)]
ConstraintElements == [keepConstraintDeclaration |-> Plain("KeepConstraintDeclaration", "", <<>>)]
InvocationElements ==
    [modifierInvocation |-> Plain("ModifierInvocation", "",
                                 <<"modifierName", "actorExpression", "behaviorExpression">>),
     doDirective |-> Plain("DoDirective", "", <<>>)]
DirectiveElements ==
    [waitDirective |-> Plain("WaitDirective", "", <<>>),
     emitDirective |-> Plain("EmitDirective", "eventName", <<"eventName">>),
     untilDirective |-> Plain("UntilDirective", "", <<>>)]
MethodElements ==
    [methodDeclaration |-> Plain("MethodDeclaration", "methodName", <<"returnType">>),
     methodImplementation |-> Plain("MethodBody", "", <<"structuredIdentifier">>)]
OperatorElements ==
    [relationExp |-> Plain("RelationExpression", "", <<"relationalOp">>),
     additiveExp |-> Plain("BinaryExpression", "", <<"additiveOp">>),
     multiplicativeExp |-> Plain("BinaryExpression", "", <<"multiplicativeOp">>)]
ArgumentElements ==
    [argumentSpecification |-> Plain("Argument", "argumentName", <<"typeDeclarator">>),
     positionalArgument |-> Plain("PositionalArgument", "", <<>>),
     namedArgument |-> Plain("NamedArgument", "argumentName", <<>>)]
PlainElements ==
    TypeElements @@ EnumElements @@ StructElements @@ BehaviorElements @@ FieldElements
    @@ EventElements @@ ConstraintElements @@ InvocationElements @@ DirectiveElements @@ MethodElements
    @@ OperatorElements @@ ArgumentElements

\* The rules whose enter method raises.
RefusedExtensions == {"enumTypeExtension", "structuredTypeExtension"}
RefusedCoverage == {"coverDeclaration", "recordDeclaration"}
RefusedExpressions == {"castExpression", "elementAccessExpression", "typeTestExpression"}
RefusedDirectives == {"onDirective", "callDirective"}
RefusedRules ==
    {"inheritsCondition", "everyExpression", "sampleExpression", "removeDefaultDeclaration",
     "rangeConstructor"}
    \cup RefusedExtensions \cup RefusedCoverage \cup RefusedExpressions \cup RefusedDirectives

\* The forms of a rule that its enter method refuses.
RefusedForm(t) ==
    \/ t.rule = "modifierDeclaration" /\ (Has(t, "actorName") \/ Has(t, "qualifiedBehaviorName"))
    \/ t.rule \in DOMAIN FieldElements /\ Len(Sub(t, "fieldName")) # 1
    \/ t.rule = "eventDeclaration" /\ Has(t, "eventSpecification")
    \/ t.rule = "keepConstraintDeclaration" /\ Has(t, "constraintQualifier")
    \/ t.rule = "siUnitSpecifier" /\ ~Has(t, "siFactor")
-----------------------------------------------------------------------------
(* The rules whose enter method does more                                   *)

enterSiUnitSpecifier(t) ==
    Element("SIUnitSpecifier", "", <<>>, Denoted(Sub(t, "siFactor")[1].kids[3]))
enterEnumMemberDecl(t) ==
    Element("EnumMemberDeclaration", "", <<TextOf(t, "enumMemberName")>>,
            IF Has(t, "enumMemberValue") THEN Denoted(Sub(t, "enumMemberValue")[1]) ELSE None)
enterActionDeclaration(t) ==
    Element("ActionDeclaration", TextOf(t, "qualifiedBehaviorName"),
            Words(Sub(t, "qualifiedBehaviorName")[1]), None)
enterTypeDeclarator(t) ==
    IF Has(t, "aggregateTypeDeclarator")
    THEN Element("ListType", "", <<getText(t.kids[1].kids[1].kids[3])>>, None)
    ELSE Element("Type", "", <<getText(t)>>, None)
enterDoMember(t, label) ==
    Element("DoMember", label, <<getText(Sub(t, "composition")[1].kids[1])>>, None)
enterBehaviorInvocation(t, label) ==
    Element("BehaviorInvocation", label,
            <<TextOf(t, "behaviorName")>>
            \o (IF Has(t, "actorExpression") THEN <<TextOf(t, "actorExpression")>> ELSE <<>>), None)
enterImplication == Element("LogicalExpression", "", <<"=>">>, None)
enterDisjunction == Element("LogicalExpression", "", <<"or">>, None)
enterConjunction == Element("LogicalExpression", "", <<"and">>, None)
enterInversion == Element("LogicalExpression", "", <<"not">>, None)
enterFunctionApplicationExpression(t) ==
    Element("FunctionApplicationExpression", "", <<getText(t.kids[1])>>, None)
enterFieldAccessExpression(t) ==
    Element("FieldAccessExpression", "", Words(t), None)
enterIdentifierReference(t) == Element("IdentifierReference", "", Words(t), None)

\* A token inside valueExp that is a literal by itself.
enterValueExp(t) ==
    Element(t.kids[1].rule, "", <<>>, Denoted(t.kids[1]))
enterIntegerLiteral(t) == Element("IntegerLiteral", "", <<>>, Denoted(t))
enterPhysicalLiteral(t) == Element("PhysicalLiteral", "", <<TextOf(t, "unitName")>>, None)
enterListConstructor == Element("ListExpression", "", <<>>, None)
FloatOf(t) ==
    IF t.rule = "physicalLiteral"
    THEN Each(Sub(t, "FloatLiteral"), LAMBDA k : Element("FloatLiteral", "", <<>>, Denoted(k)))
    ELSE <<>>
Placed(e, t, file) == [e EXCEPT !.file = file, !.line = LineOf(t)]

\* What the enter method of a rule makes: one element or none.
Entered(t, label) ==
    LET plain == PlainElements[t.rule]
        Several(rule) == Len(Sub(t, rule)) > 1
        One(e, made) == IF made THEN <<e>> ELSE <<>>
    IN  IF t.rule \in RefusedRules \/ RefusedForm(t) THEN <<Refused>>
        ELSE CASE t.rule = "siUnitSpecifier" -> <<enterSiUnitSpecifier(t)>>
               [] t.rule = "enumMemberDecl" -> <<enterEnumMemberDecl(t)>>
               [] t.rule = "actionDeclaration" -> <<enterActionDeclaration(t)>>
               [] t.rule = "typeDeclarator" -> <<enterTypeDeclarator(t)>>
               [] t.rule = "doMember" -> IF Has(t, "composition") THEN <<enterDoMember(t, label)>> ELSE <<>>
               [] t.rule = "behaviorInvocation" -> <<enterBehaviorInvocation(t, label)>>
               [] t.rule = "implication" -> One(enterImplication, Several("disjunction"))
               [] t.rule = "disjunction" -> One(enterDisjunction, Several("conjunction"))
               [] t.rule = "conjunction" -> One(enterConjunction, Several("inversion"))
               [] t.rule = "inversion" -> One(enterInversion, Has(t, "inversion"))
               [] t.rule = "functionApplicationExpression" -> <<enterFunctionApplicationExpression(t)>>
               [] t.rule \in {"fieldAccessExpression", "fieldAccess"} -> <<enterFieldAccessExpression(t)>>
               [] t.rule = "identifierReference" -> <<enterIdentifierReference(t)>>
               [] t.rule = "valueExp" ->
                     IF t.kids[1].rule \in {"FloatLiteral", "BoolLiteral", "StringLiteral"}
                     THEN <<enterValueExp(t)>> ELSE <<>>
               [] t.rule = "integerLiteral" -> <<enterIntegerLiteral(t)>>
               [] t.rule = "physicalLiteral" -> <<enterPhysicalLiteral(t)>>
               [] t.rule = "listConstructor" -> <<enterListConstructor>>
               [] t.rule \in DOMAIN PlainElements ->
                     <<Element(plain.kind, IF plain.name = "" THEN "" ELSE TextOf(t, plain.name),
                               Each(plain.of, LAMBDA rule : TextOf(t, rule)), None)>>
               [] OTHER -> <<>>

\* The walk over a tree: the elements it adds to the one that is open, with all that is in them.
\* A label holds for the invocation in its member of a do, current_label.
RECURSIVE Walked(_, _, _)
Walked(t, current_label, file) ==
    LET label == IF t.rule = "doMember" THEN TextOf(t, "labelName") ELSE current_label
        floats == Each(FloatOf(t), LAMBDA e : Placed(e, t, file))
        kids == floats \o FlattenSeq(Each(t.kids, LAMBDA k : Walked(k, label, file)))
    IN  IF t.kids = <<>> THEN <<>>
        ELSE LET made == Entered(t, label)
             IN  IF made = <<>> THEN kids
                 ELSE <<[Placed(made[1], t, file) EXCEPT !.kids = kids]>>

RECURSIVE HasRefused(_)
HasRefused(e) == e.kind = "Refused" \/ \E k \in DOMAIN e.kids : HasRefused(e.kids[k])
=============================================================================
