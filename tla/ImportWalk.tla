----------------------------- MODULE ImportWalk -----------------------------
(***************************************************************************)
(* What loading a scenario file promises about the files it imports:       *)
(* however they import each other, in a circle or by two ways, each is     *)
(* read once, and what it declares is there once, in its order, and before *)
(* what is declared behind the import of it.                               *)
(***************************************************************************)
EXTENDS Integers, Sequences

CONSTANT Contents   \* the statements of every file there is: [imports, means], means being the
                    \* files that an import may stand for

VARIABLES
    first,          \* the file that is loaded; never changes
    parsed_files,   \* the files that were opened, in this order
    walks,          \* the files that are walked through, innermost last: [file, done]
    made,           \* the declarations that were added to the model: <<file, statement>>
    refused         \* the file is refused

vars == <<first, parsed_files, walks, made, refused>>
-----------------------------------------------------------------------------
Files == DOMAIN Contents
Statements(f) == 1..Len(Contents[f])
Meant(f, k) == Contents[f][k].means
ImportsIn(f) == {k \in Statements(f) : Contents[f][k].imports}
DeclarationsIn(f) == Statements(f) \ ImportsIn(f)
ImportsOf(f) == UNION {Meant(f, k) : k \in ImportsIn(f)}

\* The files there are and those that are only named.
Names == Files \cup UNION {ImportsOf(f) : f \in Files}

Init ==
    /\ \A f \in Files : Len(Contents[f]) \in Nat
    /\ first \in Files
    /\ parsed_files = <<first>>
    /\ walks = <<[file |-> first, done |-> 0]>>
    /\ made = <<>>
    /\ refused = FALSE

Opened == {parsed_files[i] : i \in DOMAIN parsed_files}
Walk == walks[Len(walks)]
Here == Walk.done + 1
Going == walks # <<>> /\ Here \in Statements(Walk.file)
Moved == [walks EXCEPT ![Len(walks)].done = Here]

\* An import of one file that was opened before: by this walk or another, done or not.
SkipImport ==
    /\ Going /\ Here \in ImportsIn(Walk.file)
    /\ \E g \in Opened : Meant(Walk.file, Here) = {g}
    /\ walks' = Moved
    /\ UNCHANGED <<first, parsed_files, made, refused>>

\* An import of a new one, which is walked through first.
OpenImport ==
    /\ Going /\ Here \in ImportsIn(Walk.file)
    /\ \E g \in Files \ Opened :
           /\ Meant(Walk.file, Here) = {g}
           /\ parsed_files' = Append(parsed_files, g)
           /\ walks' = Append(Moved, [file |-> g, done |-> 0])
    /\ UNCHANGED <<first, made, refused>>

Declare ==
    /\ Going /\ Here \in DeclarationsIn(Walk.file)
    /\ made' = Append(made, <<Walk.file, Here>>)
    /\ walks' = Moved
    /\ UNCHANGED <<first, parsed_files, refused>>

\* A file is through, and the one that imports it goes on.
EndWalk ==
    /\ walks # <<>> /\ ~Going
    /\ walks' = SubSeq(walks, 1, Len(walks) - 1)
    /\ UNCHANGED <<first, parsed_files, made, refused>>

\* Everything may be refused, also when all is read; a file that cannot be opened was noted before.
Refuse ==
    /\ ~refused
    /\ refused' = TRUE
    /\ walks' = <<>>
    /\ \/ UNCHANGED parsed_files
       \/ /\ Going /\ Here \in ImportsIn(Walk.file)
          /\ \E g \in Meant(Walk.file, Here) \ Opened : parsed_files' = Append(parsed_files, g)
    /\ UNCHANGED <<first, made>>

Next == SkipImport \/ OpenImport \/ Declare \/ EndWalk \/ Refuse

Spec == Init /\ [][Next]_vars
-----------------------------------------------------------------------------
(* What is promised                                                        *)

Loaded == walks = <<>> /\ ~refused
Earlier(f, g) ==
    \E a, b \in DOMAIN parsed_files : parsed_files[a] = f /\ parsed_files[b] = g /\ a < b

\* No file is opened twice; of a file that is loaded, the files it imports and those that they
\* import are read, and no others.
EveryFileOnce ==
    /\ \A a, b \in DOMAIN parsed_files : parsed_files[a] = parsed_files[b] => a = b
    /\ Loaded =>
        /\ first \in Opened /\ \A f \in Opened : ImportsOf(f) \subseteq Opened
        /\ \A S \in SUBSET Opened :
               first \in S /\ (\A f \in S : ImportsOf(f) \subseteq S) => S = Opened

\* Of each file that is read, each declaration is in the model once and in its order.
EveryDeclarationOnce ==
    /\ \A i, j \in DOMAIN made :
           i < j /\ made[i][1] = made[j][1] => made[i][2] < made[j][2]
    /\ Loaded =>
        {made[j] : j \in DOMAIN made} = UNION {{f} \X DeclarationsIn(f) : f \in Opened}

\* What is imported is declared before what is written behind the import - unless it was begun before
\* the importing file.
ImportedComesFirst ==
    \A f \in Files : \A m \in ImportsIn(f) : \A g \in Meant(f, m) : \A j \in DOMAIN made :
        made[j][1] = f /\ m < made[j][2] /\ Earlier(f, g) =>
            \A k \in DeclarationsIn(g) : \E i \in 1..(j - 1) : made[i] = <<g, k>>
=============================================================================
