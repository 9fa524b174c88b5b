------------------------------ MODULE MCFrontEnd ------------------------------
(* Small scenario files and documents for FrontEnd. *)
EXTENDS FrontEndProperties, TLC

L(n, lexemes) == [spaces |-> [k \in 1..n |-> " "], lexemes |-> lexemes]
File(lines) == [lines |-> lines, terminated |-> TRUE]
Given(f) == [file |-> f, docs |-> <<>>, template |-> "none"]
Over(f, docs) == [file |-> f, docs |-> docs, template |-> "none"]
Template(f, file) == [file |-> f, docs |-> <<>>, template |-> file]

\* TLC evaluates a constant function once if it is not put together with @@.
Numbers == 0..12 \cup {20}
Word(kind, value) == [kind |-> kind, value |-> value]
Literals ==
    LET words ==
            {<<ToString(n), Word("UintLiteral", Number("int", n))>> : n \in Numbers}
            \cup {<<l, Word("StringLiteral", Text(l))>> :
                      l \in {"'x'", "'y'", "'lib'", "'left'", "'right'", "'base'", "'circle'", "'back'", "'lost'"}}
            \cup {<<"-2", Word("IntLiteral", Number("int", -2))>>,
                  <<"2.0", Word("FloatLiteral", Number("float", 2))>>,
                  <<"5.0", Word("FloatLiteral", Number("float", 5))>>,
                  <<"true", Word("BoolLiteral", Truth(TRUE))>>,
                  <<"false", Word("BoolLiteral", Truth(FALSE))>>}
    IN  [l \in {w[1] : w \in words} |-> (CHOOSE w \in words : w[1] = l)[2]]
-----------------------------------------------------------------------------
(* Blocks: where the last three lines of a plan start. *)
Columns == {<<a, b, c>> : a \in {8, 10, 12}, b \in {8, 12, 16}, c \in {8, 12, 16}}
Plan(c) ==
    File(<< L(0, <<"scenario", "plan", ":">>),
            L(4, <<"do", "serial", ":">>),
            L(8, <<"serial", ":">>),
            L(12, <<"emit", "end">>),
            L(c[1], <<"parallel", ":">>),
            L(c[2], <<"emit", "end">>),
            L(c[3], <<"emit", "end">>) >>)
Wrapped ==
    [terminated |-> FALSE, lines |->
        << L(0, <<"#">>), L(0, <<"action", "log", ":">>),
           L(4, <<"msg", ":", "string", "=", "'x'">>),
           L(2, <<>>),
           L(0, <<"scenario", "plan", ":">>),
           [spaces |-> <<" ", "\t">>, lexemes |-> <<"do", "serial", ":">>],
           L(2, <<"#">>),
           L(12, <<"log", "(", "msg", ":">>),
           L(0, <<"'y'", ")">>),
           L(12, <<"parallel", "\\">>),
           L(2, <<":">>),
           L(14, <<"emit", "/*", "end">>),
           L(0, <<>>),
           L(14, <<"log", "(", ")", "with", ":">>),
           L(16, <<"until", "2", "<", "1", "#">>),
           L(12, <<"emit", "end">>) >>]
Tabbed ==
    File(<< L(0, <<"scenario", "plan", ":">>),
            L(4, <<"do", "serial", ":">>),
            L(8, <<"serial", ":">>),
            L(12, <<"emit", "end">>),
            [spaces |-> <<" ", " ", " ", " ", "\t">>, lexemes |-> <<"emit", "end">>] >>)
-----------------------------------------------------------------------------
(* Expressions *)
Arithmetic == <<"+", "-", "*", "/", "%">>
Parameters(type, exprs) ==
    [k \in DOMAIN exprs |-> L(4, <<"p" \o ToString(k), ":", type, "=">> \o exprs[k])]
Sums ==
    [k \in 1..25 |-> <<"12", Arithmetic[1 + ((k - 1) \div 5)], "6", Arithmetic[1 + ((k - 1) % 5)], "2">>]
    \o << <<"12", "-", "(", "6", "-", "2", ")">>, <<"(", "12", "-", "6", ")", "*", "2">>,
          <<"p1", "-", "p2", "*", "p3", "-", "1">> >>
Truths ==
    << <<"1", "+", "2", "<", "2", "*", "2">>, <<"4", "-", "2", "-", "1", "==", "1">>,
       <<"not", "1", "==", "2">>, <<"not", "true", "or", "true">>, <<"true", "or", "true", "and", "false">>,
       <<"not", "(", "true", "or", "false", ")">>, <<"1", "<", "2", "==", "true">>,
       <<"not", "not", "p1", "and", "p2">>, <<"1", "!=", "1", "or", "2", ">=", "2">> >>
EmitEnd == << L(4, <<"do", "serial", ":">>), L(8, <<"emit", "end">>) >>
Scenario(lines) == << L(0, <<"scenario", "test", ":">>) >> \o lines \o EmitEnd
-----------------------------------------------------------------------------
(* Imports *)
Import(words) == L(0, <<"import">> \o words)
Plain0(name) == << L(0, <<"struct", name, ":">>), L(4, <<"x", ":", "int", "=", "1">>) >>
-----------------------------------------------------------------------------
(* Overrides *)
Units ==
    << L(0, <<"type", "length", "is", "SI", "(", "m", ":", "1", ")">>),
       L(0, <<"unit", "m", "of", "length", "is", "SI", "(", "m", ":", "1", ",", "factor", ":", "1", ")">>),
       L(0, <<"unit", "km", "of", "length", "is", "SI", "(", "m", ":", "1", ",", "factor", ":", "12", ")">>) >>
Structs ==
    << L(0, <<"struct", "spot", ":">>),
       L(4, <<"x", ":", "length", "=", "2.0", "m">>),
       L(4, <<"y", ":", "int", "=", "3">>),
       L(0, <<"struct", "pose", "inherits", "spot", ":">>),
       L(4, <<"z", ":", "spot", "=", "spot", "(", "y", ":", "4", ")">>),
       L(4, <<"u", ":", "spot">>) >>
Overridable ==
    Units \o Structs \o Scenario(
        << L(4, <<"p", ":", "pose", "=", "pose", "(", "z", ":", "spot", "(", "1", "m", ",", "y", ":", "7", ")", ")">>),
           L(4, <<"q", ":", "spot", "=", "spot", "(", "1", "m", ")">>),
           L(4, <<"t", ":", "string", "=", "'x'">>),
           L(4, <<"n", ":", "int">>),
           L(4, <<"o", ":", "int", "=", "3">>),
           L(4, <<"d", ":", "length">>),
           L(4, <<"r", ":", "spot">>),
           L(4, <<"l", ":", "list", "of", "spot", "=", "[", "spot", "(", "y", ":", "1", ")", "]">>) >>)
\* A sum cannot stand beside a parameter that has no value yet, so it has a file of its own.
Constructed0 ==
    Units \o Structs \o Scenario(
        << L(4, <<"p", ":", "pose", "=", "pose", "(", "2", "km", ",", "y", ":", "7", ",", "u", ":",
                  "spot", "(", "1", "m", ",", "3", ")", ")">>),
           L(4, <<"q", ":", "spot", "=", "spot", "(", "x", ":", "i", ",", "y", ":", "j", "+", "1", ")">>),
           L(4, <<"r", ":", "pose", "=", "pose", "(", "1", "m", ",", "2", ",", "spot", "(", "y", ":", "6", ")", ")">>),
           L(4, <<"i", ":", "length", "=", "3", "*", "2", "km", "+", "1", "m">>),
           L(4, <<"j", ":", "int", "=", "4">>),
           L(4, <<"t", ":", "spot", "with", ":">>),
           L(8, <<"keep", "(", "it", ".", "y", "==", "j", ")">>),
           L(4, <<"k", ":", "int", "=", "q", ".", "y">>) >>)
Summed ==
    Scenario(<< L(4, <<"o", ":", "int", "=", "3">>),
                L(4, <<"v", ":", "int", "=", "o", "+", "2", "*", "o">>) >>)

Test(items) == Dict(<<Item("test", Dict(items))>>)
Needs == <<Item("n", Whole(5)), Item("d", Whole(4))>>
Spot(x, y) == Dict(<<Item("x", Whole(x)), Item("y", Whole(y))>>)
Y(n) == Dict(<<Item("y", Whole(n))>>)
Documents1 ==
    << Test(Needs \o <<Item("p", Dict(<<Item("z", Y(8))>>))>>),
       Test(Needs \o <<Item("p", Dict(<<Item("z", Dict(<<Item("x", Whole(8))>>)), Item("u", Y(1))>>)),
                     Item("o", Whole(8))>>),
       Test(Needs \o <<Item("q", Y(9)), Item("r", Spot(5, 6)), Item("t", Text("z"))>>),
       Test(Needs \o <<Item("q", Spot(3, 4)), Item("l", List(<<Y(5), Spot(1, 2)>>)),
                     Item(Output, Text("out"))>>),
       Test(Needs) >>
Refusals ==
    { <<Test(<<Item("w", Whole(1))>>)>>, <<Dict(<<Item("other", Dict(<<>>))>>)>>,
      <<Test(<<Item("o", Text("8"))>>)>>, <<Test(<<Item("p", Dict(<<Item("w", Whole(1))>>))>>)>>,
      <<Test(<<Item("p", Dict(<<Item("y", Whole(1))>>))>>)>>,
      <<Test(Needs \o <<Item(Output, Whole(1))>>)>>, <<Test(Needs \o <<Item(Output, Text("../up"))>>)>> }
-----------------------------------------------------------------------------
(* Circles *)
Circles ==
    << << L(4, <<"a", ":", "int", "=", "b", "+", "1">>), L(4, <<"b", ":", "int", "=", "c">>),
          L(4, <<"c", ":", "int", "=", "a">>) >>,
       << L(4, <<"a", ":", "int", "=", "b">>), L(4, <<"b", ":", "int", "=", "c">>),
          L(4, <<"c", ":", "int", "=", "2">>) >>,
       << L(4, <<"y", ":", "int", "=", "5">>), L(4, <<"q", ":", "spot", "=", "spot", "(", "y", ":", "y", ")">>) >>,
       << L(4, <<"i", ":", "int", "=", "5">>), L(4, <<"q", ":", "spot", "=", "spot", "(", "y", ":", "i", ")">>) >>,
       << L(4, <<"q", ":", "spot", "=", "spot", "(", "y", ":", "i", ")">>), L(4, <<"i", ":", "int", "=", "q", ".", "y">>) >> >>
\* A field of a struct that is computed from itself, and a struct that has itself as a field.
Endless ==
    << Units \o Structs \o Scenario(<<L(4, <<"q", ":", "spot", "=", "spot", "(", "x", ":", "q", ".", "x", ")">>)>>),
       << L(0, <<"struct", "node", ":">>), L(4, <<"next", ":", "node">>) >> \o Scenario(<<L(4, <<"q", ":", "node">>)>>) >>
-----------------------------------------------------------------------------
(* What else there is in a file *)
Features ==
    << L(0, <<"enum", "color", ":", "[", "red", ",", "green", "=", "4", ",", "blue", "]">>),
       L(0, <<"actor", "base">>),
       L(0, <<"actor", "robot", "inherits", "base", ":">>),
       L(4, <<"id", ":", "int", "=", "1">>),
       L(0, <<"action", "log", ":">>),
       L(4, <<"msg", ":", "string", "=", "'x'">>),
       L(0, <<"action", "shout", "inherits", "log", ":">>),
       L(4, <<"times", ":", "int">>),
       L(0, <<"action", "base", ".", "move", ":">>),
       L(4, <<"far", ":", "float", "=", "2.0">>),
       L(0, <<"modifier", "limit", ":">>),
       L(4, <<"to", ":", "int", "=", "1">>),
       L(0, <<"global", "level", ":", "int", "=", "7">>),
       L(0, <<"struct", "tool", ":">>),
       L(4, <<"def", "size", "(", ")", "->", "int", "is", "external", "lib", ".", "size", "(", ")">>),
       L(0, <<"scenario", "other">>),
       L(0, <<"scenario", "test", "inherits", "other", ":">>),
       L(4, <<"r", ":", "robot">>),
       L(4, <<"c", ":", "color", "=", "color", "!", "blue">>),
       L(4, <<"g", ":", "color", "=", "color", "!", "red">>),
       L(4, <<"high", ":", "int", "=", "level">>),
       L(4, <<"names", ":", "list", "of", "string", "=", "[", "'x'", ",", "'y'", "]">>),
       L(4, <<"var", "count", ":", "int", "=", "1">>),
       L(4, <<"event", "done">>),
       L(4, <<"do", "parallel", ":">>),
       L(8, <<"r", ".", "move", "(", "5.0", ")">>),
       L(8, <<"twice", ":", "shout", "(", "'y'", ",", "times", ":", "2", ")", "with", ":">>),
       L(12, <<"limit", "(", "to", ":", "3", ")">>),
       L(8, <<"one_of", ":">>),
       L(12, <<"wait", "@", "done">>),
       L(12, <<"wait", "rise", "(", "high", ">", "3", ")">>),
       L(12, <<"wait", "fall", "(", "high", "in", "names", ")">>),
       L(8, <<"emit", "done">>) >>
Wrong == \* each of these lines is refused in the place of a parameter
    { <<"a", ":", "int", "=", "'x'">>, <<"a", ":", "missing">>, <<"a", ",", "b", ":", "int">>,
      <<"a", ":", "bool", "=", "true", "and", "true", "and", "true">>, <<"a", ":", "int", "=", "b">>,
      <<"cover", "(", "a", ")">>, <<"a", ":", "int", "=", "1", ".", "as", "(", "int", ")">>, <<"a", ":">>,
      <<"a", ":", "list", "of", "int", "=", "[", "1", ",", "'x'", "]">> }
-----------------------------------------------------------------------------
(* A field that is a truth value, overridden where the file gives it and where it does not. *)
Flagged ==
    << L(0, <<"struct", "gate", ":">>), L(4, <<"shut", ":", "bool", "=", "true">>) >>
    \o Scenario(<< L(4, <<"g", ":", "gate", "=", "gate", "(", "shut", ":", "true", ")">>),
                   L(4, <<"h", ":", "gate", "=", "gate", "(", ")">>) >>)
Shut == Dict(<<Item("shut", Truth(FALSE))>>)
FlagPrograms == {Over("flagged", <<Test(<<Item("g", Shut)>>), Test(<<Item("h", Shut)>>)>>)}
-----------------------------------------------------------------------------
OtherFiles ==
    [wrapped |-> Wrapped,
     tabbed |-> Tabbed,
     features |-> File(Features),
     pair |-> File(Scenario(<<L(4, <<"o", ":", "int", "=", "1">>)>>)
                   \o << L(0, <<"scenario", "rest", ":">>), L(4, <<"o", ":", "int", "=", "2">>) >> \o EmitEnd),
     double |-> File(Scenario(<<>>) \o Scenario(<<>>)),
     templated |-> File(Units \o Scenario(
         << L(4, <<"o", ":", "int", "=", "1">>), L(4, <<"t", ":", "string", "=", "'x'">>),
            L(4, <<"b", ":", "bool", "=", "true">>), L(4, <<"d", ":", "length", "=", "2.0", "m">>),
            L(4, <<"l", ":", "list", "of", "int", "=", "[", "1", ",", "2", "]">>),
            L(4, <<"e", ":", "length">>), L(4, <<"n", ":", "string">>), L(4, <<"v", ":", "bool">>) >>)),
     kept |-> File(Units \o Structs \o Scenario(
         << L(4, <<"j", ":", "int">>), L(4, <<"t", ":", "spot", "with", ":">>),
            L(8, <<"keep", "(", "it", ".", "y", "==", "j", ")">>) >>)),
     sums |-> File(Scenario(Parameters("int", Sums))),
     truths |-> File(Scenario(Parameters("bool", Truths))),
     overridable |-> File(Overridable),
     constructed |-> File(Constructed0),
     summed |-> File(Summed),
     flagged |-> File(Flagged),
     top |-> File(<<Import(<<"'left'">>), Import(<<"'right'">>), Import(<<"osc", ".", "lib">>)>>
                  \o Plain0("t") \o Scenario(<<>>)),
     left |-> File(<<Import(<<"'base'">>)>> \o Plain0("l")),
     right |-> File(<<Import(<<"osc", ".", "lib">>), Import(<<"'base'">>)>> \o Plain0("r")),
     base |-> File(Plain0("b")),
     lib |-> File(<<Import(<<"'base'">>)>> \o Plain0("i")),
     circle |-> File(<<Import(<<"'back'">>)>> \o Plain0("c") \o Scenario(<<>>)),
     back |-> File(<<Import(<<"'circle'">>), Import(<<"'back'">>), Import(<<"'base'">>)>> \o Plain0("k")),
     clash |-> File(<<Import(<<"osc", ".", "twice">>)>> \o Scenario(<<>>)),
     unknown |-> File(<<Import(<<"lib", ".", "osc">>)>> \o Scenario(<<>>)),
     gone |-> File(<<Import(<<"'lost'">>)>> \o Scenario(<<>>))]
PlanFiles == {<<"plan" \o ToString(c), Plan(c)>> : c \in Columns}
CircleFiles ==
    {<<"circle" \o ToString(k), File(Units \o Structs \o Scenario(Circles[k]))>> : k \in DOMAIN Circles}
WrongFiles == {<<"wrong" \o ToString(l), File(Scenario(<<L(4, l)>>))>> : l \in Wrong}
EndlessFiles == {<<"endless" \o ToString(k), File(Endless[k])>> : k \in DOMAIN Endless}
MCSources ==
    LET files == PlanFiles \cup CircleFiles \cup WrongFiles \cup EndlessFiles
                 \cup {<<f, OtherFiles[f]>> : f \in DOMAIN OtherFiles}
    IN  [f \in {x[1] : x \in files} |-> (CHOOSE x \in files : x[1] = f)[2]]
MCLocated ==
    [x \in {<<"top", "'left'">>, <<"top", "'right'">>, <<"left", "'base'">>, <<"right", "'base'">>,
            <<"lib", "'base'">>, <<"circle", "'back'">>, <<"back", "'circle'">>, <<"back", "'back'">>,
            <<"back", "'base'">>, <<"gone", "'lost'">>} |->
        CASE x[2] = "'left'" -> "left" [] x[2] = "'right'" -> "right" [] x[2] = "'base'" -> "base"
          [] x[2] = "'back'" -> "back" [] x[2] = "'circle'" -> "circle" [] x[2] = "'lost'" -> "lost"]
MCLibraries ==
    [library \in {<<"lib">>, <<"twice">>} |-> IF library = <<"lib">> THEN {"lib"} ELSE {"lib", "base"}]

MCPrograms ==
    {Given(x[1]) : x \in PlanFiles \cup CircleFiles \cup WrongFiles \cup EndlessFiles}
    \cup {Template(f, "new") : f \in {"templated", "overridable", "kept", "circle1"}}
    \cup {Template("templated", "exists"),
          Over("pair", <<Dict(<<Item("rest", Dict(<<Item("o", Whole(7))>>))>>)>>)}
    \cup {Given(f) : f \in {"features", "double", "wrapped", "tabbed", "sums", "truths", "constructed",
                           "top", "circle", "clash", "unknown", "gone"}}
    \cup {Over("overridable", Documents1), Over("summed", <<Test(<<Item("o", Whole(7))>>), Test(<<>>)>>)}
    \cup {Over("overridable", docs) : docs \in Refusals}
===============================================================================
