----------------------------- MODULE OscGrammar -----------------------------
(***************************************************************************)
(* The syntax of the scenario language as the generated parser accepts it:  *)
(* one definition for each method of OpenSCENARIO2Parser, in the order the  *)
(* alternatives are tried.  The prediction tables, the error reports and    *)
(* the accessors of the generated contexts are left out; what the ANTLR     *)
(* runtime does with a rule is in OscParser.                                *)
(***************************************************************************)
EXTENDS Sequences

(* A rule is an expression over tokens: sequence, choice, repetition.       *)
T(kind) == [op |-> "token", of |-> kind]
a & b == [op |-> "cat", of |-> IF a.op = "cat" THEN Append(a.of, b) ELSE <<a, b>>]
a | b == [op |-> "or", of |-> IF a.op = "or" THEN Append(a.of, b) ELSE <<a, b>>]
a ^* == [op |-> "star", of |-> a]
a ^+ == a & (a ^*)
a ^# == [op |-> "opt", of |-> a]

\* What a rule, or a labelled alternative of one, matches becomes a node of the parse tree.
Node(name, e) == [op |-> "node", of |-> e, name |-> name]

\* A rule by its name: those through which the grammar is recursive, and those used in many places.
Ref(rule) == [op |-> "ref", of |-> rule]

\* A left-recursive rule: an operand, then tails that take all that is before them as their first.
LeftRecursive(operand, tails) == [op |-> "left", of |-> <<operand, tails>>]

\* One or several between commas; in parentheses; the indented block of a declaration, or no block.
Listed(e) == e & ((T(",") & e) ^*)
Parenthesised(e) == T("(") & e & T(")")
Block(e) == T(":") & T("NEWLINE") & T("INDENT") & (e ^+) & T("DEDENT")
BlockOrNewline(e) == Block(e) | T("NEWLINE")

Name == T("Identifier")
-----------------------------------------------------------------------------
(* Names, literals and arguments                                           *)

fieldName == Node("fieldName", Name)
structName == Node("structName", Name)
actorName == Node("actorName", Name)
behaviorName == Node("behaviorName", Name)
modifierName == Node("modifierName", Name)
methodName == Node("methodName", Name)
argumentName == Node("argumentName", Name)
typeName == Node("typeName", Name)
eventName == Node("eventName", Name)
eventFieldName == Node("eventFieldName", Name)
enumName == Node("enumName", Name)
enumMemberName == Node("enumMemberName", Name)
physicalTypeName == Node("physicalTypeName", Name)
labelName == Node("labelName", Name)
targetName == Node("targetName", Name)
qualifiedBehaviorName == Node("qualifiedBehaviorName", ((actorName & T(".")) ^#) & behaviorName)
structuredIdentifier ==
    LeftRecursive(Node("structuredIdentifier", Name), <<Node("structuredIdentifier", T(".") & Name)>>)
identifierReference == Node("identifierReference", ((fieldName & T(".")) ^*) & fieldName)
enumValueReference == Node("enumValueReference", enumName & T("!") & enumMemberName)

siBaseUnitName ==
    Node("siBaseUnitName",
         T("kg") | T("m") | T("s") | T("A") | T("K") | T("mol") | T("cd") | T("rad"))
unitName == Node("unitName", Name | siBaseUnitName)
integerLiteral == Node("integerLiteral", T("UintLiteral") | T("HexUintLiteral") | T("IntLiteral"))
physicalLiteral == Node("physicalLiteral", (T("FloatLiteral") | Ref("integerLiteral")) & unitName)

positionalArgument == Node("positionalArgument", Ref("expression"))
namedArgument == Node("namedArgument", argumentName & T(":") & Ref("expression"))
argumentList ==
    Node("argumentList",
         Listed(positionalArgument) & ((T(",") & namedArgument) ^*) | Listed(namedArgument))
-----------------------------------------------------------------------------
(* Types                                                                   *)

primitiveType ==
    Node("primitiveType", T("int") | T("uint") | T("float") | T("bool") | T("string"))
nonAggregateTypeDeclarator ==
    Node("nonAggregateTypeDeclarator", primitiveType | typeName | Ref("qualifiedBehaviorName"))
listTypeDeclarator == Node("listTypeDeclarator", T("list") & T("of") & nonAggregateTypeDeclarator)
aggregateTypeDeclarator == Node("aggregateTypeDeclarator", listTypeDeclarator)
typeDeclarator == Node("typeDeclarator", nonAggregateTypeDeclarator | aggregateTypeDeclarator)
-----------------------------------------------------------------------------
(* Expressions, from what binds strongest to what binds weakest            *)

listConstructor == Node("listConstructor", T("[") & Listed(Ref("expression")) & T("]"))
rangeConstructor ==
    Node("rangeConstructor",
         T("range") & Parenthesised(Ref("expression") & T(",") & Ref("expression"))
         | T("[") & Ref("expression") & T("..") & Ref("expression") & T("]"))
valueExp ==
    Node("valueExp",
         physicalLiteral | T("FloatLiteral") | Ref("integerLiteral") | T("BoolLiteral")
         | T("StringLiteral") | identifierReference | enumValueReference
         | listConstructor | rangeConstructor)
primaryExp == Node("primaryExp", Ref("valueExp") | T("it") | Name | Parenthesised(Ref("expression")))
postfixExp ==
    LeftRecursive(Node("primaryExpression", primaryExp),
        <<Node("castExpression", T(".") & T("as") & Parenthesised(Ref("typeDeclarator"))),
          Node("typeTestExpression", T(".") & T("is") & Parenthesised(Ref("typeDeclarator"))),
          Node("elementAccessExpression", T("[") & Ref("expression") & T("]")),
          Node("functionApplicationExpression", Parenthesised(Ref("argumentList") ^#)),
          Node("fieldAccessExpression", T(".") & fieldName)>>)
fieldAccess == Node("fieldAccess", Ref("postfixExp") & T(".") & fieldName)
factor == Node("factor", Ref("postfixExp") | T("-") & Ref("factor"))
multiplicativeOp == Node("multiplicativeOp", T("*") | T("/") | T("%"))
term ==
    LeftRecursive(Node("factorExp", Ref("factor")), <<Node("multiplicativeExp", multiplicativeOp & Ref("factor"))>>)
additiveOp == Node("additiveOp", T("+") | T("-"))
sumExpression ==
    LeftRecursive(Node("termExp", Ref("term")), <<Node("additiveExp", additiveOp & Ref("term"))>>)
relationalOp ==
    Node("relationalOp", T("==") | T("!=") | T("<") | T("<=") | T(">") | T(">=") | T("in"))
relation ==
    LeftRecursive(Node("sumExp", Ref("sumExpression")), <<Node("relationExp", relationalOp & Ref("sumExpression"))>>)
inversion == Node("inversion", T("not") & Ref("inversion") | Ref("relation"))
conjunction == Node("conjunction", Ref("inversion") & ((T("and") & Ref("inversion")) ^*))
disjunction == Node("disjunction", Ref("conjunction") & ((T("or") & Ref("conjunction")) ^*))
implication == Node("implication", Ref("disjunction") & ((T("=>") & Ref("disjunction")) ^*))
ternaryOpExp ==
    Node("ternaryOpExp", Ref("implication") & T("?") & Ref("expression") & T(":") & Ref("expression"))
expression == Node("expression", Ref("implication") | ternaryOpExp)

defaultValue == Node("defaultValue", Ref("expression"))
boolExpression == Node("boolExpression", Ref("expression"))
durationExpression == Node("durationExpression", Ref("expression"))
constraintExpression == Node("constraintExpression", Ref("expression"))
argumentSpecification ==
    Node("argumentSpecification",
         argumentName & T(":") & Ref("typeDeclarator") & ((T("=") & defaultValue) ^#))
argumentListSpecification == Node("argumentListSpecification", Listed(argumentSpecification))
-----------------------------------------------------------------------------
(* Events                                                                  *)

eventPath == Node("eventPath", ((Ref("expression") & T(".")) ^#) & eventName)
eventReference == Node("eventReference", T("@") & eventPath)
eventFieldDecl == Node("eventFieldDecl", T("as") & eventFieldName)
riseExpression == Node("riseExpression", T("rise") & Parenthesised(boolExpression))
fallExpression == Node("fallExpression", T("fall") & Parenthesised(boolExpression))
elapsedExpression == Node("elapsedExpression", T("elapsed") & Parenthesised(durationExpression))

\* The second argument, an identifier that reads "offset", cannot be written: offset is a keyword.
everyExpression == Node("everyExpression", T("every") & Parenthesised(durationExpression))

eventCondition ==
    Node("eventCondition",
         boolExpression | riseExpression | fallExpression | elapsedExpression | everyExpression)
eventSpecification ==
    Node("eventSpecification",
         eventReference & (((eventFieldDecl ^#) & T("if") & eventCondition) ^#) | eventCondition)
eventDeclaration ==
    Node("eventDeclaration",
         T("event") & eventName & (Parenthesised(Ref("argumentListSpecification")) ^#)
         & ((T("is") & Ref("eventSpecification")) ^#) & T("NEWLINE"))
-----------------------------------------------------------------------------
(* Fields, constraints, methods and coverage                               *)

constraintQualifier == Node("constraintQualifier", T("default") | T("hard"))
keepConstraintDeclaration ==
    Node("keepConstraintDeclaration",
         T("keep") & Parenthesised((constraintQualifier ^#) & constraintExpression) & T("NEWLINE"))
parameterReference == Node("parameterReference", fieldName | fieldAccess)
removeDefaultDeclaration ==
    Node("removeDefaultDeclaration",
         T("remove_default") & Parenthesised(parameterReference) & T("NEWLINE"))
constraintDeclaration ==
    Node("constraintDeclaration", keepConstraintDeclaration | removeDefaultDeclaration)

coverageArgumentList ==
    Node("coverageExpression", T(",") & T("expression") & T(":") & Ref("expression"))
    | Node("coverageUnit", T(",") & T("unit") & T(":") & unitName)
    | Node("coverageRange", T(",") & T("range") & T(":") & rangeConstructor)
    | Node("coverageEvery", T(",") & T("every") & T(":") & Ref("valueExp"))
    | Node("coverageEvent", T(",") & T("event") & T(":") & eventName)
    | Node("coverageNameArgument", T(",") & namedArgument)
Coverage == Parenthesised((targetName ^#) & (coverageArgumentList ^*)) & T("NEWLINE")
coverDeclaration == Node("coverDeclaration", T("cover") & Coverage)
recordDeclaration == Node("recordDeclaration", T("record") & Coverage)
coverageDeclaration == Node("coverageDeclaration", coverDeclaration | recordDeclaration)

parameterWithMember == Node("parameterWithMember", Ref("constraintDeclaration") | Ref("coverageDeclaration"))
parameterWithDeclaration ==
    Node("parameterWithDeclaration", T("with") & Block(parameterWithMember))
NamesTypeDefault ==
    Listed(fieldName) & T(":") & Ref("typeDeclarator") & ((T("=") & defaultValue) ^#)
    & (parameterWithDeclaration | T("NEWLINE"))
parameterDeclaration == Node("parameterDeclaration", Ref("NamesTypeDefault"))
sampleExpression ==
    Node("sampleExpression",
         T("sample") & Parenthesised(Ref("expression") & T(",") & Ref("eventSpecification")
                                     & ((T(",") & defaultValue) ^#)))
variableDeclaration ==
    Node("variableDeclaration",
         T("var") & Listed(fieldName) & T(":") & Ref("typeDeclarator")
         & ((T("=") & (sampleExpression | Ref("valueExp"))) ^#) & T("NEWLINE"))
fieldDeclaration == Node("fieldDeclaration", parameterDeclaration | variableDeclaration)

returnType == Node("returnType", Ref("typeDeclarator"))
methodQualifier == Node("methodQualifier", T("only"))
methodImplementation ==
    Node("methodImplementation",
         T("is") & (methodQualifier ^#)
         & (T("expression") & Ref("expression") | T("undefined")
            | T("external") & structuredIdentifier & Parenthesised(Ref("argumentList") ^#)))
methodDeclaration ==
    Node("methodDeclaration",
         T("def") & methodName & Parenthesised(Ref("argumentListSpecification") ^#)
         & ((T("->") & returnType) ^#) & methodImplementation & T("NEWLINE"))
methodInvocation == Node("methodInvocation", Ref("postfixExp") & Parenthesised(Ref("argumentList") ^#))
-----------------------------------------------------------------------------
(* Behaviour                                                               *)

callDirective == Node("callDirective", T("call") & methodInvocation & T("NEWLINE"))
emitDirective ==
    Node("emitDirective", T("emit") & eventName & (Parenthesised(Ref("argumentList")) ^#) & T("NEWLINE"))
waitDirective == Node("waitDirective", T("wait") & Ref("eventSpecification") & T("NEWLINE"))
untilDirective == Node("untilDirective", T("until") & Ref("eventSpecification") & T("NEWLINE"))

actorExpression == Node("actorExpression", actorName)
behaviorExpression == Node("behaviorExpression", actorExpression & T(".") & behaviorName)
modifierInvocation ==
    Node("modifierInvocation",
         (((behaviorExpression | actorExpression) & T(".")) ^#)
         & modifierName & Parenthesised(Ref("argumentList") ^#) & T("NEWLINE"))
behaviorWithMember ==
    Node("behaviorWithMember", Ref("constraintDeclaration") | modifierInvocation | untilDirective)
behaviorWithDeclaration == Node("behaviorWithDeclaration", T("with") & Block(behaviorWithMember))
behaviorInvocation ==
    Node("behaviorInvocation",
         ((actorExpression & T(".")) ^#) & behaviorName & Parenthesised(Ref("argumentList") ^#)
         & (Ref("behaviorWithDeclaration") | T("NEWLINE")))
compositionOperator == Node("compositionOperator", T("serial") | T("one_of") | T("parallel"))
composition ==
    Node("composition",
         compositionOperator & (Parenthesised(Ref("argumentList") ^#) ^#) & Block(Ref("doMember"))
         & (Ref("behaviorWithDeclaration") ^#))
doMember ==
    Node("doMember",
         ((labelName & T(":")) ^#)
         & (composition | behaviorInvocation | waitDirective | emitDirective | callDirective))
doDirective == Node("doDirective", T("do") & Ref("doMember"))
onMember == Node("onMember", callDirective | emitDirective)
onDirective == Node("onDirective", T("on") & Ref("eventSpecification") & Block(onMember))
behaviorSpecification == Node("behaviorSpecification", onDirective | doDirective)
-----------------------------------------------------------------------------
(* Declarations                                                            *)

siBaseExponent == Node("siBaseExponent", siBaseUnitName & T(":") & Ref("integerLiteral"))
siBaseExponentList == Node("siBaseExponentList", Listed(siBaseExponent))
sIBaseUnitSpecifier == Node("sIBaseUnitSpecifier", T("SI") & Parenthesised(Ref("siBaseExponentList")))
baseUnitSpecifier == Node("baseUnitSpecifier", sIBaseUnitSpecifier)
physicalTypeDeclaration ==
    Node("physicalTypeDeclaration",
         T("type") & physicalTypeName & T("is") & baseUnitSpecifier & T("NEWLINE"))
siFactor == Node("siFactor", T("factor") & T(":") & (T("FloatLiteral") | Ref("integerLiteral")))
siOffset == Node("siOffset", T("offset") & T(":") & (T("FloatLiteral") | Ref("integerLiteral")))
siUnitSpecifier ==
    Node("siUnitSpecifier",
         T("SI") & Parenthesised(Ref("siBaseExponentList") & ((T(",") & siFactor) ^#)
                                 & ((T(",") & siOffset) ^#)))
unitSpecifier == Node("unitSpecifier", siUnitSpecifier)
unitDeclaration ==
    Node("unitDeclaration",
         T("unit") & unitName & T("of") & physicalTypeName & T("is") & unitSpecifier & T("NEWLINE"))

enumMemberValue == Node("enumMemberValue", T("UintLiteral") | T("HexUintLiteral"))
enumMemberDecl == Node("enumMemberDecl", enumMemberName & ((T("=") & enumMemberValue) ^#))
enumDeclaration ==
    Node("enumDeclaration",
         T("enum") & enumName & T(":") & T("[") & Listed(enumMemberDecl) & T("]") & T("NEWLINE"))

inheritsCondition ==
    Node("inheritsCondition",
         Parenthesised(fieldName & T("==") & (enumValueReference | T("BoolLiteral"))))
structInherits == Node("structInherits", T("inherits") & structName & (Ref("inheritsCondition") ^#))
structMemberDecl ==
    Node("structMemberDecl",
         eventDeclaration | fieldDeclaration | Ref("constraintDeclaration") | methodDeclaration
         | Ref("coverageDeclaration"))
structDeclaration ==
    Node("structDeclaration",
         T("struct") & structName & (structInherits ^#) & (BlockOrNewline(Ref("structMemberDecl"))))
actorInherits == Node("actorInherits", T("inherits") & actorName & (Ref("inheritsCondition") ^#))
actorMemberDecl ==
    Node("actorMemberDecl",
         eventDeclaration | fieldDeclaration | Ref("constraintDeclaration") | methodDeclaration
         | Ref("coverageDeclaration"))
actorDeclaration ==
    Node("actorDeclaration",
         T("actor") & actorName & (actorInherits ^#) & (BlockOrNewline(Ref("actorMemberDecl"))))

scenarioMemberDecl ==
    Node("scenarioMemberDecl",
         eventDeclaration | fieldDeclaration | Ref("constraintDeclaration") | methodDeclaration
         | Ref("coverageDeclaration") | modifierInvocation)
actionInherits ==
    Node("actionInherits", T("inherits") & Ref("qualifiedBehaviorName") & (Ref("inheritsCondition") ^#))
actionDeclaration ==
    Node("actionDeclaration",
         T("action") & Ref("qualifiedBehaviorName") & (actionInherits ^#)
         & (BlockOrNewline(Ref("scenarioMemberDecl") | Ref("behaviorSpecification"))))
scenarioInherits ==
    Node("scenarioInherits", T("inherits") & Ref("qualifiedBehaviorName") & (Ref("inheritsCondition") ^#))
scenarioDeclaration ==
    Node("scenarioDeclaration",
         T("scenario") & Ref("qualifiedBehaviorName") & (scenarioInherits ^#)
         & (BlockOrNewline(Ref("scenarioMemberDecl") | Ref("behaviorSpecification"))))
modifierDeclaration ==
    Node("modifierDeclaration",
         T("modifier") & ((actorName & T(".")) ^#) & modifierName
         & ((T("of") & Ref("qualifiedBehaviorName")) ^#) & (BlockOrNewline(Ref("scenarioMemberDecl"))))

enumTypeExtension ==
    Node("enumTypeExtension",
         T("extend") & enumName & T(":") & T("[") & Listed(enumMemberDecl) & T("]") & T("NEWLINE"))
extendableTypeName == Node("extendableTypeName", typeName | Ref("qualifiedBehaviorName"))
extensionMemberDecl ==
    Node("extensionMemberDecl",
         Ref("structMemberDecl") | Ref("actorMemberDecl") | Ref("scenarioMemberDecl") | Ref("behaviorSpecification"))
structuredTypeExtension ==
    Node("structuredTypeExtension",
         T("extend") & extendableTypeName & Block(extensionMemberDecl))
typeExtension == Node("typeExtension", enumTypeExtension | structuredTypeExtension)
globalParameterDeclaration == Node("globalParameterDeclaration", T("global") & Ref("NamesTypeDefault"))

oscDeclaration ==
    Node("oscDeclaration",
         physicalTypeDeclaration | unitDeclaration | enumDeclaration | structDeclaration
         | actorDeclaration | actionDeclaration | scenarioDeclaration | modifierDeclaration
         | typeExtension | globalParameterDeclaration | T("NEWLINE"))
importReference == Node("importReference", T("StringLiteral") | structuredIdentifier)
importStatement ==
    Node("importStatement", T("import") & importReference & T("NEWLINE") | T("NEWLINE"))
preludeStatement == Node("preludeStatement", importStatement)
osc_file ==
    Node("osc_file", (preludeStatement ^*) & (oscDeclaration ^*) & (T("NEWLINE") ^*) & T("EOF"))

\* What the names of Ref stand for.
Rules ==
    [qualifiedBehaviorName |-> qualifiedBehaviorName,
     integerLiteral |-> integerLiteral,
     argumentList |-> argumentList,
     typeDeclarator |-> typeDeclarator,
     valueExp |-> valueExp,
     postfixExp |-> postfixExp,
     factor |-> factor,
     term |-> term,
     sumExpression |-> sumExpression,
     relation |-> relation,
     inversion |-> inversion,
     conjunction |-> conjunction,
     disjunction |-> disjunction,
     implication |-> implication,
     expression |-> expression,
     argumentListSpecification |-> argumentListSpecification,
     eventSpecification |-> eventSpecification,
     constraintDeclaration |-> constraintDeclaration,
     coverageDeclaration |-> coverageDeclaration,
     NamesTypeDefault |-> NamesTypeDefault,
     behaviorWithDeclaration |-> behaviorWithDeclaration,
     doMember |-> doMember,
     behaviorSpecification |-> behaviorSpecification,
     siBaseExponentList |-> siBaseExponentList,
     inheritsCondition |-> inheritsCondition,
     structMemberDecl |-> structMemberDecl,
     actorMemberDecl |-> actorMemberDecl,
     scenarioMemberDecl |-> scenarioMemberDecl]
=============================================================================
