------------------------- MODULE FrontEndProperties -------------------------
(***************************************************************************)
(* What a scenario author relies on when a file is loaded.  The references  *)
(* are written without the parser, the resolver and the overriding: from    *)
(* the lines of the files, the order of the operators, and the nesting of   *)
(* the documents.                                                           *)
(***************************************************************************)
EXTENDS FrontEnd

\* The state is what the code keeps: the lexer's, a walk is under way unless all files are read, and
\* results are of documents.
TypeOK ==
    /\ phase \in {"reading", "walking", "resolving", "overriding", "building", "ready", "failed"}
    /\ LexerTypeOK
    /\ phase = "walking" => walks # <<>>
    /\ phase \in {"resolving", "overriding", "building", "ready"} => walks = <<>>
    /\ doc_idx \in 0..Len(program.docs) + 1
    /\ \A k \in DOMAIN results : results[k].doc \in 1..doc_idx
    /\ Len(template_file) <= 1 /\ (template_file # <<>> => results = <<>>)
-----------------------------------------------------------------------------
(* Lines that begin something: not blank, not a comment, not the rest of the line before. *)
CodeLinesIn(f) ==
    LET lines == Sources[f].lines
        Opened(k, brackets) == Len(SelectSeq(lines[k].lexemes, LAMBDA w : w \in brackets))
        open[k \in 0..Len(lines)] ==
            IF k = 0 THEN 0 ELSE open[k - 1] + Opened(k, {"(", "["}) - Opened(k, {")", "]"})
    IN  {k \in DOMAIN lines : /\ lines[k].lexemes # <<>> /\ Head(lines[k].lexemes) # LineComment
                              /\ open[k - 1] = 0
                              /\ k > 1 => LineJoining \notin ToSet(lines[k - 1].lexemes)}
CodeLines == [f \in DOMAIN Sources |-> CodeLinesIn(f)]
Indentation(f, k) ==
    FoldLeft(LAMBDA n, ch : IF ch = " " THEN n + 1 ELSE 8 * (1 + n \div 8), 0, Sources[f].lines[k].spaces)
-----------------------------------------------------------------------------
(* Files                                                                    *)

\* The statements of each file, by its lines: what starts in the first column.
StatementLines ==
    [f \in DOMAIN Sources |->
        LET code == CodeLines[f]
        IN  SelectSeq([k \in DOMAIN Sources[f].lines |-> k],
                      LAMBDA k : k \in code /\ Indentation(f, k) = 0)]
MeantBy(f, words) ==
    IF <<f, words[1]>> \in DOMAIN Located THEN {Located[<<f, words[1]>>]}
    ELSE LET library == SelectSeq(Tail(words), LAMBDA w : w # ".")
         IN  IF library \in DOMAIN Libraries THEN Libraries[library] ELSE {}
StatementAt(f, k) ==
    LET words == Sources[f].lines[k].lexemes
    IN  [imports |-> Head(words) = "import",
         means |-> IF Head(words) = "import" THEN MeantBy(f, Tail(words)) ELSE {}]
StatementsOf == [f \in DOMAIN Sources |-> Each(StatementLines[f], LAMBDA k : StatementAt(f, k))]

\* What is walked through, behind the statements that are left (a line break is none); the file that
\* is read has yet to begin.  Nothing is walked through when the file is refused.
IsStatement(t) == Imports(t) \/ (t.rule = "oscDeclaration" /\ t.kids[1].rule # "NEWLINE")
Left(w) == Len(SelectSeq(w.rest, IsStatement))
WalkedThrough ==
    IF phase = "failed" THEN <<>>
    ELSE Each(walks, LAMBDA w : [file |-> w.file, done |-> Len(StatementsOf[w.file]) - Left(w)])
         \o IF phase = "reading" THEN <<[file |-> reading, done |-> 0]>> ELSE <<>>
DeclaredSoFar ==
    Each(model.kids, LAMBDA e : <<e.file, Len(SelectSeq(StatementLines[e.file], LAMBDA k : k <= e.line))>>)

\* However files import each other, in a circle or by two ways, the front end walks through them as
\* ImportWalk promises: each file is read once, each declaration is in the model once, in its order,
\* and behind those of the files that are imported before it - unless they were begun before.
Promise ==
    INSTANCE ImportWalk WITH Contents <- StatementsOf, first <- program.file, walks <- WalkedThrough,
                             made <- DeclaredSoFar, refused <- phase = "failed"
LoadsAsPromised == Promise!Spec
-----------------------------------------------------------------------------
(* Blocks                                                                   *)

Start(f, k) == Largest({j \in CodeLines[f] : j <= k})

\* The line whose block a line is in: the nearest line before that is further left, if the line is
\* as far right as the first one of that block, and otherwise the line whose block that one is in.
RECURSIVE BlockOf(_, _)
BlockOf(f, k) ==
    LET around == Largest({j \in CodeLines[f] : j < k /\ Indentation(f, j) < Indentation(f, k)})
        first == Smallest({j \in CodeLines[f] : j > around})
    IN  IF Indentation(f, first) = Indentation(f, k) THEN around ELSE BlockOf(f, around)

\* What a line says belongs to the element whose block the line is indented into - over comments,
\* blank lines, tabs, joined lines and lines inside brackets, and however many blocks end at once.
BlocksFollowIndentation ==
    /\ phase = "reading" => BlocksNest /\ BlocksByColumn
    /\ phase = "resolving" =>
        \A p \in {q \in PathsIn(model) : Len(q) > 1} :
            LET f == At(model, p).file
                here == Start(f, At(model, p).line)
                owner == Start(f, At(model, Parent(p)).line)
            IN  here # owner => owner = BlockOf(f, here)
-----------------------------------------------------------------------------
(* Expressions                                                              *)

\* The operators, those that bind least first.
Precedence ==
    << {"or"}, {"and"}, {"not"}, {"==", "!=", "<", "<=", ">", ">="}, {"+", "-"}, {"*", "/", "%"} >>
AsNumber(b) == IF b THEN 1 ELSE 0
Calculated(op, a, b) ==
    CASE op = "or" -> AsNumber(a + b > 0) [] op = "and" -> a * b
      [] op = "==" -> AsNumber(a = b) [] op = "!=" -> AsNumber(a # b)
      [] op = "<" -> AsNumber(a < b) [] op = "<=" -> AsNumber(a <= b)
      [] op = ">" -> AsNumber(a > b) [] op = ">=" -> AsNumber(a >= b)
      [] op = "+" -> a + b [] op = "-" -> a - b [] op = "*" -> a * b
      [] op = "/" -> a \div b [] op = "%" -> a % b

Whole(n) == Number("int", n)

\* The words between commas outside of brackets.
Separated(words) ==
    LET UpTo(k, brackets) == Len(SelectSeq(SubSeq(words, 1, k), LAMBDA w : w \in brackets))
        commas == {k \in DOMAIN words : words[k] = "," /\ UpTo(k, {"(", "["}) = UpTo(k, {")", "]"})}
        ends == SetToSortSeq(commas \cup {Len(words) + 1}, <)
    IN  IF words = <<>> THEN <<>>
        ELSE [k \in DOMAIN ends |-> SubSeq(words, (IF k = 1 THEN 0 ELSE ends[k - 1]) + 1, ends[k] - 1)]

\* The lines that declare structs and units, and the fields of a struct, inherited ones first.
LineOfThe(kind, name) ==
    CHOOSE x \in UNION {{<<f, k>> : k \in DOMAIN Sources[f].lines} : f \in ToSet(parsed_files)} :
        /\ Len(Sources[x[1]].lines[x[2]].lexemes) > 1
        /\ SubSeq(Sources[x[1]].lines[x[2]].lexemes, 1, 2) = <<kind, name>>
RECURSIVE FieldLines(_)
FieldLines(struct) ==
    LET f == LineOfThe("struct", struct)[1]
        at == LineOfThe("struct", struct)[2]
        lines == Sources[f].lines
        end == Smallest({k \in (at + 1)..Len(lines) : lines[k].spaces = <<>>})
    IN  (IF Contains(lines[at].lexemes, "inherits") THEN FieldLines(lines[at].lexemes[4]) ELSE <<>>)
        \o [k \in 1..(end - at - 1) |-> lines[at + k].lexemes]
WordsOfThe(kind, name) ==
    Sources[LineOfThe(kind, name)[1]].lines[LineOfThe(kind, name)[2]].lexemes
Factor(unit) ==
    LET words == WordsOfThe("unit", unit)
    IN  Lexicon[words[Len(words) - 1]].value.num

\* A member of an enumeration has the number written behind it or the one after the member before.
MemberNumber(enum, member) ==
    LET words == WordsOfThe("enum", enum)
        members == Separated(SubSeq(words, 5, Len(words) - 1))
        number[k \in DOMAIN members] ==
            IF Len(members[k]) = 3 THEN Lexicon[members[k][3]].value.num
            ELSE IF k = 1 THEN 0 ELSE number[k - 1] + 1
    IN  number[CHOOSE k \in DOMAIN members : members[k][1] = member]

\* What words mean when names have these values: a sum or comparison is split at the last of the
\* operators that bind least, outside of brackets; struct(...) has a value for each field, the one
\* given at its position or by its name, or its default.
Splits(words, level) ==
    LET UpTo(k, bracket) == Len(SelectSeq(SubSeq(words, 1, k), LAMBDA w : w = bracket))
    IN  {k \in DOMAIN words : words[k] \in Precedence[level] /\ UpTo(k, "(") = UpTo(k, ")")}
SplitLevels(words) == {l \in DOMAIN Precedence : Splits(words, l) # {}}
SplitAt(words) ==
    LET splits == Splits(words, Smallest(SplitLevels(words)))
    IN  IF words[1] = "not" THEN Smallest(splits) ELSE Largest(splits)

RECURSIVE Meaning(_, _)
MeaningOfSum(op, left, right, names) ==
    IF op = "not" THEN Whole(1 - Meaning(right, names).num)
    ELSE Whole(Calculated(op, Meaning(left, names).num, Meaning(right, names).num))
MeaningOfStruct(fields, given, names) ==
    LET Named(k) == Len(given[k]) > 2 /\ given[k][2] = ":"
        by_name(k) == {j \in DOMAIN given : Named(j) /\ given[j][1] = fields[k][1]}
        by_position(k) == {j \in DOMAIN given : j = k /\ ~Named(j)}
        written(k) ==
            IF by_name(k) # {} THEN Tail(Tail(given[Largest(by_name(k))]))
            ELSE IF by_position(k) # {} THEN given[k]
            ELSE IF Len(fields[k]) > 3 THEN SubSeq(fields[k], 5, Len(fields[k]))
            ELSE <<fields[k][3], "(", ")">>
    IN  Dict([k \in DOMAIN fields |-> Item(fields[k][1], Meaning(written(k), names))])
MeaningOfName(name, names) ==
    IF name \in DOMAIN Lexicon THEN Lexicon[name].value
    ELSE IF HasKey(names, name) THEN Get(names, name)
    ELSE LET global == WordsOfThe("global", name)
         IN  Meaning(SubSeq(global, 6, Len(global)), names)
Meaning(words, names) ==
    IF SplitLevels(words) # {}
    THEN LET at == SplitAt(words)
         IN  MeaningOfSum(words[at], SubSeq(words, 1, at - 1), SubSeq(words, at + 1, Len(words)), names)
    ELSE IF words[1] = "(" THEN Meaning(SubSeq(words, 2, Len(words) - 1), names)
    ELSE IF Len(words) = 1 THEN MeaningOfName(words[1], names)
    ELSE IF Len(words) = 2 THEN Whole(Lexicon[words[1]].value.num * Factor(words[2]))
    ELSE CASE words[2] = "!" -> Value("enum", MemberNumber(words[1], words[3]), words[3], <<>>)
           [] words[2] = "." -> Get(MeaningOfName(words[1], names), words[3])
           [] OTHER -> MeaningOfStruct(FieldLines(words[1]),
                                       Separated(SubSeq(words, 3, Len(words) - 1)), names)

RECURSIVE SameValue(_, _)
SameValue(v, w) ==
    \/ v = w
    \/ Numeric(v) /\ Numeric(w) /\ v.num = w.num
    \/ /\ v.is = w.is /\ v.is \in {"dict", "list"} /\ Len(v.parts) = Len(w.parts)
       /\ \A k \in DOMAIN v.parts : v.parts[k].key = w.parts[k].key
                                     /\ SameValue(v.parts[k].val, w.parts[k].val)

Entries(r) ==
    LET doc == IF program.docs = <<>> THEN Dict(<<>>) ELSE program.docs[r.doc]
    IN  IF HasKey(doc, r.name) THEN Get(doc, r.name) ELSE Dict(<<>>)
DeclarationOf(r, name) ==
    LET s == CHOOSE q \in ToSet(ScenarioPaths(base_model)) : Name(base_model, q) = r.name
    IN  CHOOSE p \in ToSet(ParameterPaths(base_model, s)) : Name(base_model, p) = name
WordsOf(r, name) ==
    LET e == At(base_model, DeclarationOf(r, name))
        words == Sources[e.file].lines[e.line].lexemes
    IN  IF Len(words) > 4 /\ words[4] = "=" THEN SubSeq(words, 5, Len(words)) ELSE <<>>
Computable(r, name) ==
    /\ ~HasKey(Entries(r), name)
    /\ ~is_list(base_model, DeclarationOf(r, name))
    /\ WordsOf(r, name) # <<>>

\* A parameter whose value is an expression has the value that the expression has as it is written,
\* with what the other parameters were overridden with; a struct has its fields as they were given.
EvaluatesAsWritten ==
    \A k \in DOMAIN results : \A name \in ToSet(KeysOf(results[k].params)) :
        Computable(results[k], name) =>
            SameValue(Get(results[k].params, name), Meaning(WordsOf(results[k], name), results[k].params))
-----------------------------------------------------------------------------
(* Overrides                                                                *)

RECURSIVE LaidOver(_, _)
LaidOver(v, x) ==
    IF v.is # "dict" \/ x.is # "dict" THEN x
    ELSE Dict(Each(v.parts, LAMBDA i : IF HasKey(x, i.key) THEN Item(i.key, LaidOver(i.val, Get(x, i.key)))
                                       ELSE i))
\* An entry of a list of structs is laid over the struct.
ExpectedOverride(p, v, x) ==
    IF x.is = "list" /\ TypeDeclared(base_model, p) # <<>>
    THEN List(Each(x.parts, LAMBDA i : LaidOver(ValueOf(base_model, TypeDeclared(base_model, p)[1]), i.val)))
    ELSE LaidOver(v, x)

\* Each document is laid over what the file says: a parameter has the entry of the document, field
\* by field down to the fields of fields, in SI base units, and where it has no entry what it has
\* without documents; nothing of one document is left for the next.  A field may have its value by
\* name or by default, and by position in a struct that inherits no field; that is what the files of
\* run front_end are made of.  The code does otherwise for a position in a struct that does inherit
\* (evaluation counts the inherited fields, overriding does not), for a number that the file gives in
\* another unit, and for a truth value of a field that the file gives no argument (run override_flag).
OverridesLayOver ==
    \A k \in DOMAIN results :
        LET r == results[k]
            Declared(name) == DeclarationOf(r, name)
            before == Params(base_model, Parent(Declared(KeysOf(r.params)[1])))
            Mentions(name) == ToSet(WordsOf(r, name)) \cap ToSet(KeysOf(Entries(r)))
        IN  \A name \in ToSet(KeysOf(r.params)) :
                IF HasKey(Entries(r), name)
                THEN SameValue(Get(r.params, name),
                               ExpectedOverride(Declared(name), Get(before, name), Get(Entries(r), name)))
                ELSE Mentions(name) = {} => Get(r.params, name) = Get(before, name)
-----------------------------------------------------------------------------
(* Circles                                                                  *)

\* What the value of an element is computed from.
Needed(m, p) ==
    LET e == At(m, p)
    IN  ToSet(SelectSeq(Kids(m, p), LAMBDA q : Kind(m, q) \notin {"Type", "DoDirective"}))
        \cup ToSet(e.to) \cup (IF e.kind \in Parameter THEN ToSet(TypeDeclared(m, p)) ELSE {})

\* All that elements are computed from, on ways that end at some others.
RECURSIVE AllNeeded(_, _, _, _)
AllNeeded(m, known, new, ends) ==
    LET more == UNION {Needed(m, p) : p \in new \ ends} \ (known \cup new)
    IN  IF more = {} THEN known \cup new ELSE AllNeeded(m, known \cup new, more, ends)
InCircle(m, p, ends) == p \in AllNeeded(m, {}, Needed(m, p), ends)

\* References to a plain name watch whether they are being resolved already; a circle that has none
\* of them is endless.
AllOf(m, s) == AllNeeded(m, {}, ToSet(ParameterPaths(m, s)), {})
Watching(m, s) == {p \in AllOf(m, s) : Kind(m, p) = "IdentifierReference" /\ Len(At(m, p).to) = 1}
Circle(m, s) == \E p \in Watching(m, s) : InCircle(m, p, {})
EndlessCircle(m, s) == \E p \in AllOf(m, s) \ Watching(m, s) : InCircle(m, p, Watching(m, s))

\* A parameter whose value leads back to itself by a reference to a plain name, over however many
\* others and through fields and defaults, is refused with a diagnosis, and no other one is.  Python
\* gives out only for circles that have no such reference.
CyclesAreDiagnosed ==
    phase = "building" =>
        \A s \in ToSet(ScenarioPaths(model)) :
            LET params == Params(model, s)
            IN  /\ params = Error("its own value") => Circle(model, s)
                /\ params = Error("recursion") => EndlessCircle(model, s)
                /\ Circle(model, s) \/ EndlessCircle(model, s) =>
                        params \in {Error("its own value"), Error("recursion")}

-----------------------------------------------------------------------------
(* The template                                                             *)

\* Parameters that a template gives a literal in SI base units, or a list of them.
PlainValue(p) ==
    \/ Kind(base_model, p) \in Literal
    \/ Kind(base_model, p) = "PhysicalLiteral" /\ Computed("*", Whole(1),
            At(base_model, KidOfKind(base_model, At(base_model, p).to[1], {"SIUnitSpecifier"})).value).num = 1
PlainParameter(p) ==
    LET val == get_value_child(base_model, p)
        type == TypeDeclared(base_model, p)
    IN  /\ type = <<>> \/ Kind(base_model, type[1]) = "PhysicalTypeDeclaration"
        /\ \/ val = Nowhere
           \/ PlainValue(val)
           \/ Kind(base_model, val) = "ListExpression" /\ \A q \in ToSet(Kids(base_model, val)) : PlainValue(q)

\* A template is a document to start from: given to the program as it was written, with the file it
\* was written for, it is taken, and changes the value of no parameter - if those of the file are
\* literals, in SI base units, or lists of them.  A value that is computed cannot be overridden, and
\* one in another unit is multiplied twice.
TemplateReadsBack ==
    phase = "ready" /\ program.template # "none" =>
        \A s \in ToSet(ScenarioPaths(base_model)) :
            LET again == apply_parameter_overrides(base_model, template_file[1])
                given == {p \in ToSet(ParameterPaths(base_model, s)) : get_value_child(base_model, p) # Nowhere}
            IN  (\A p \in ToSet(ParameterPaths(base_model, s)) : PlainParameter(p)) =>
                    /\ ~HasRefused(again)
                    /\ \A p \in given : SameValue(ValueOf(again, p), ValueOf(base_model, p))
-----------------------------------------------------------------------------
\* A file is loaded or refused: reading, walking and importing come to an end.
LoadingEnds == <>Ended
=============================================================================
