------------------------------ MODULE FrontEnd ------------------------------
(***************************************************************************)
(* OpenScenario2Parser.process_file: from a scenario file, the files it     *)
(* imports and the documents of a parameter file to the scenarios that are  *)
(* run and the values of their parameters - or to a refusal.                *)
(*                                                                          *)
(* A file is read line by line (OscLexer) and parsed (OscParser); the walk  *)
(* over its tree goes one statement or declaration at a time, because an    *)
(* import puts another file in between.  Then the names are resolved        *)
(* (OscResolver), and each document is laid over a copy of the model        *)
(* (OscOverrides).                                                          *)
(***************************************************************************)
EXTENDS OscLexer, OscOverrides

CONSTANTS
    Programs,       \* what is given to the program: [file, docs, template]
    Escaping,       \* the relative paths that lead out of the output directory
    Located,        \* the file that a relative path in a file leads to, by <<file, path>>
    Libraries       \* the files that are installed under the name of a library

ASSUME FrontEndAssumption ==
    /\ \A prog \in Programs :
           /\ prog.file \in DOMAIN Sources
           /\ prog.template \in {"none", "new", "exists"}
           /\ prog.template # "none" => prog.docs = <<>>
    /\ \A lib \in DOMAIN Libraries : IsFiniteSet(Libraries[lib])

VARIABLES
    program,        \* the file, the documents, and whether a template is to be written: "none", "new" or
                    \* "exists", if there is a file of that name
    phase,          \* "reading", "walking", "resolving", "overriding", "building", "ready" or "failed"
    parsed_files,   \* the files that were opened, in this order
    walks,          \* the walks that are under way, innermost last: [file, rest of the tree]
    model,          \* the internal model
    base_model,     \* the model before the documents
    doc_idx,        \* how many documents are done
    results,        \* the scenarios to run: [doc, name, params, output_dir]
    template_file   \* the document that was written as a template

vars == <<lexer, program, phase, parsed_files, walks, model, base_model, doc_idx, results, template_file>>
\* What is handed out: nothing while the files are read.
output == <<doc_idx, results, template_file>>

Parser == INSTANCE OscParser

Init ==
    /\ program \in Programs
    /\ phase = "reading"
    /\ parsed_files = <<program.file>>
    /\ reading = program.file /\ LexerInit
    /\ walks = <<>>
    /\ model = CompilationUnit
    /\ base_model = CompilationUnit
    /\ doc_idx = 0
    /\ results = <<>>
    /\ template_file = <<>>

Fail ==
    /\ phase' = "failed"
    /\ UNCHANGED <<lexer, program, parsed_files, walks, model, base_model, output>>
-----------------------------------------------------------------------------
(* Reading and parsing                                                      *)

ReadNextLine ==
    /\ phase = "reading"
    /\ ReadLine
    /\ UNCHANGED <<program, phase, parsed_files, walks, model, base_model, output>>

\* All lines are read: the tree of the file, unless there is a syntax error.
parse_input_stream ==
    /\ phase = "reading"
    /\ FileRead
    /\ \E trees \in {Parser!ParseTrees(AllTokens)} :
           IF trees = <<>> THEN Fail
           ELSE /\ walks' = Append(walks, [file |-> reading, rest |-> trees[1].kids])
                /\ phase' = "walking"
                /\ UNCHANGED <<lexer, program, parsed_files, model, base_model, output>>
-----------------------------------------------------------------------------
(* The walk over the trees                                                  *)

Walk == Last(walks)
Statement == Head(Walk.rest)
Imports(t) == t.rule = "preludeStatement" /\ Has(t.kids[1], "importReference")
Moved == Append(Front(walks), [Walk EXCEPT !.rest = Tail(@)])

\* A file that was opened before is not read again, whoever imports it.
AlreadyReadByThisFile(file) == file = Walk.file
AlreadyRead(file) == Contains(parsed_files, file)

\* The walk goes on behind an import that is done or skipped.
NotMovedIfSkipped(file) == IF AlreadyRead(file) THEN walks ELSE Moved
MovedPastImport(file) == Moved

\* The files an import may mean: those of a library, or the one at a path.
ImportedFiles(t) ==
    LET reference == Sub(t.kids[1], "importReference")[1].kids[1]
        library == SubSeq(Words(reference), 2, Len(Words(reference)))
    IN  IF reference.rule = "StringLiteral" THEN {Located[<<Walk.file, reference.text>>]}
        ELSE IF Head(Words(reference)) # "osc" \/ library \notin DOMAIN Libraries THEN {}
        ELSE Libraries[library]

\* A new file is read before the walk goes on.
enterImportReference ==
    /\ phase = "walking" /\ Walk.rest # <<>> /\ Imports(Statement)
    /\ LET files == ImportedFiles(Statement)
           file == CHOOSE f \in files : TRUE
       IN  IF Cardinality(files) # 1 THEN Fail
           ELSE /\ walks' = MovedPastImport(file)
                /\ IF AlreadyRead(file)
                   THEN UNCHANGED <<lexer, phase, parsed_files>>
                   ELSE /\ parsed_files' = Append(parsed_files, file)
                        /\ IF file \in DOMAIN Sources
                           THEN StartReading(file) /\ phase' = "reading"
                           ELSE UNCHANGED lexer /\ phase' = "failed"
                /\ UNCHANGED <<program, model, base_model, output>>

\* A declaration is added to the model with all that is in it.
WalkDeclaration ==
    /\ phase = "walking" /\ Walk.rest # <<>> /\ ~Imports(Statement)
    /\ \E elements \in {Walked(Statement, "", Walk.file)} :
           IF \E k \in DOMAIN elements : HasRefused(elements[k]) THEN Fail
           ELSE /\ model' = [model EXCEPT !.kids = @ \o elements]
                /\ walks' = Moved
                /\ UNCHANGED <<lexer, program, phase, parsed_files, base_model, output>>

EndWalk ==
    /\ phase = "walking" /\ Walk.rest = <<>>
    /\ walks' = Front(walks)
    /\ phase' = IF Len(walks) = 1 THEN "resolving" ELSE "walking"
    /\ UNCHANGED <<lexer, program, parsed_files, model, base_model, output>>
-----------------------------------------------------------------------------
(* Resolving and overriding                                                 *)

Resolve ==
    /\ phase = "resolving"
    /\ \E resolved \in {Resolved(model)} :
           IF resolve_internal_model(resolved)
           THEN /\ base_model' = resolved
                /\ phase' = "overriding"
                /\ UNCHANGED <<lexer, program, parsed_files, walks, model, output>>
           ELSE Fail

\* The documents; a run without one is a run with one that overrides nothing.
Documents == IF program.docs = <<>> THEN 1 ELSE Len(program.docs)
Document(k) == IF program.docs = <<>> THEN Dict(<<>>) ELSE program.docs[k]

\* A document may say where the results of a scenario go.  That is taken out of it, as it is no
\* parameter, and must be a path that stays in the output directory.
Output == "_output_dir"
HasOutput(entries) == entries.is = "dict" /\ HasKey(entries, Output)
OutputRefused(doc) ==
    \E k \in DOMAIN doc.parts :
        /\ HasOutput(doc.parts[k].val)
        /\ LET dir == Get(doc.parts[k].val, Output) IN dir.is # "string" \/ dir.text \in Escaping
Cleaned(doc) ==
    LET Entries(v) == IF HasOutput(v) THEN Dict(SelectSeq(v.parts, LAMBDA x : x.key # Output)) ELSE v
    IN  Dict(Each(doc.parts, LAMBDA x : Item(x.key, Entries(x.val))))
OutputDirectory(doc, name) ==
    IF HasKey(doc, name) /\ HasOutput(Get(doc, name)) THEN <<Get(Get(doc, name), Output).text>> ELSE <<>>

\* The next document is laid over a copy of the model.
NotCopied == IF doc_idx = 0 THEN base_model ELSE model
Copied == base_model
ApplyOverrides ==
    /\ phase = "overriding" /\ program.template = "none" /\ doc_idx < Documents
    /\ \E doc \in {Document(doc_idx + 1)} :
       \E overridden \in {apply_parameter_overrides(Copied, Cleaned(doc))} :
           IF OutputRefused(doc) \/ HasRefused(overridden) THEN Fail
           ELSE /\ model' = overridden
                /\ doc_idx' = doc_idx + 1
                /\ phase' = "building"
                /\ UNCHANGED <<lexer, program, parsed_files, walks, base_model, results, template_file>>

\* A tree for every scenario of the model, and the values its parameters have.
CreateTrees ==
    /\ phase = "building"
    /\ LET scenarios == ScenarioPaths(model)
           Result(s) == [doc |-> doc_idx, name |-> Name(model, s), params |-> Params(model, s),
                         output_dir |-> OutputDirectory(Document(doc_idx), Name(model, s))]
       IN  IF scenarios = <<>> \/ \E k \in DOMAIN scenarios : IsError(Params(model, scenarios[k]))
           THEN Fail
           ELSE /\ results' = results \o Each(scenarios, Result)
                /\ phase' = "overriding"
                /\ UNCHANGED <<lexer, program, parsed_files, walks, model, base_model, doc_idx, template_file>>

\* All documents are done: each scenario has a name of its own, or the file is refused.
Finish ==
    /\ phase = "overriding" /\ program.template = "none" /\ doc_idx = Documents
    /\ IF \E i, j \in DOMAIN results : i # j /\ results[i].doc = results[j].doc
                                              /\ results[i].name = results[j].name
       THEN Fail
       ELSE /\ phase' = "ready"
            /\ UNCHANGED <<lexer, program, parsed_files, walks, model, base_model, output>>

\* With no documents, the values of the parameters are written as a document to start from, unless
\* there is a file of that name; no scenario is run.  Then a single scenario is evaluated as well.
WriteTemplate ==
    /\ phase = "overriding" /\ program.template # "none"
    /\ \E doc \in {create_parameter_file_template(base_model)} :
       LET scenarios == ScenarioPaths(base_model)
           wrong == Len(scenarios) = 1 /\ IsError(Params(base_model, scenarios[1]))
       IN  IF program.template = "exists" \/ HasError(doc) THEN Fail
           ELSE /\ template_file' = <<doc>>
                /\ phase' = IF wrong THEN "failed" ELSE "ready"
                /\ UNCHANGED <<lexer, program, parsed_files, walks, model, base_model, doc_idx, results>>

\* The steps that go from line to line and from file to file, and those that compute a result.
Proceed == ReadNextLine \/ enterImportReference \/ EndWalk
Compute ==
    \/ parse_input_stream \/ WalkDeclaration \/ Resolve
    \/ ApplyOverrides \/ CreateTrees \/ Finish \/ WriteTemplate
Next == Proceed \/ Compute

\* The program runs on until it is through.  The fairness of the steps that compute a result is
\* stated with their guards instead of ENABLED, which would evaluate whole files.
Ended == phase \in {"ready", "failed"}
MustCompute ==
    \/ phase = "reading" /\ FileRead
    \/ phase = "walking" /\ Walk.rest # <<>> /\ ~Imports(Statement)
    \/ phase \in {"resolving", "overriding", "building"}
Fairness == WF_vars(Proceed) /\ ([]<>~MustCompute \/ []<><<Compute>>_vars)
Spec == Init /\ [][Next]_vars /\ Fairness
=============================================================================
