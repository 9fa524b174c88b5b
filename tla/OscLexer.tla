------------------------------ MODULE OscLexer ------------------------------
(***************************************************************************)
(* How the text of a scenario file becomes tokens.  The grammar has blocks  *)
(* of indented lines, so the lexer's handwritten part turns what is at the  *)
(* start of a line into NEWLINE, INDENT and DEDENT tokens.  A line is its   *)
(* leading blanks and its lexemes; a line is one step.                      *)
(***************************************************************************)
EXTENDS OscLexicon, Integers, Sequences, SequencesExt

CONSTANT Sources    \* the files, by name: [lines, terminated], a line being [spaces, lexemes]

\* What a lexeme is that stands for no token: a comment to the end of the line, a comment
\* between /* and */, and a backslash that joins the next line to this one.
LineComment == "#"
BlockComment == "/*"
LineJoining == "\\"

\* A tab moves to the next multiple of eight.
TabIsEightBlanks(spaces) == FoldLeft(LAMBDA n, ch : IF ch = "\t" THEN n + 8 ELSE n + 1, 0, spaces)
getIndentationCount(spaces) ==
    FoldLeft(LAMBDA n, ch : IF ch = "\t" THEN n + (8 - (n % 8)) ELSE n + 1, 0, spaces)

ASSUME LexerAssumption ==
    \A f \in DOMAIN Sources :
        /\ Sources[f].lines \in Seq([spaces : Seq(STRING), lexemes : Seq(STRING)])
        /\ Sources[f].terminated \in BOOLEAN
        /\ \A i \in 1..Len(Sources[f].lines) : getIndentationCount(Sources[f].lines[i].spaces) \in Nat

VARIABLES
    reading,        \* the name of the file that is read, or "" for none
    line,           \* how many of its lines are read
    indents,        \* the columns at which the open blocks start, innermost last
    opened,         \* how many ( and [ are open
    tokens          \* the tokens of the lines read so far

lexer == <<reading, line, indents, opened, tokens>>
-----------------------------------------------------------------------------
Token(kind, text, i) == [kind |-> kind, text |-> text, line |-> i]
Lines == Sources[reading].lines
Column(i) == getIndentationCount(Lines[i].spaces)
Blank(i) == Lines[i].lexemes = <<>>
Joined(i) == Lines[i].lexemes # <<>> /\ Last(Lines[i].lexemes) = LineJoining

Lexemes(i) == SelectSeq(Lines[i].lexemes, LAMBDA x : x \notin {LineComment, BlockComment, LineJoining})
TokensOf(i) == [k \in 1..Len(Lexemes(i)) |-> Token(KindOf(Lexemes(i)[k]), Lexemes(i)[k], i)]
Count(i, kinds) == Len(SelectSeq(Lexemes(i), LAMBDA x : x \in kinds))
OpenedAfter(i) == opened + Count(i, {"(", "["}) - Count(i, {")", "]"})

\* Line i ends with a line break.
Broken(i) == i < Len(Lines) \/ Sources[reading].terminated

\* The line break after line i counts for nothing: inside brackets, or before another line
\* break or a line comment - unless that line break is the file's last character.
NewlineSkipped(i) ==
    \/ OpenedAfter(i) > 0
    \/ /\ i < Len(Lines)
       /\ \/ Blank(i + 1) /\ i + 1 < Len(Lines)
          \/ ~Blank(i + 1) /\ Head(Lines[i + 1].lexemes) = LineComment

\* How many of the open blocks a line at this column is still inside of.
StillOpen(column) ==
    CHOOSE k \in 0..Len(indents) :
        /\ k = 0 \/ indents[k] <= column
        /\ \A j \in (k + 1)..Len(indents) : indents[j] > column

Outermost == IF indents = <<>> THEN 0 ELSE Head(indents)
Innermost == IF indents = <<>> THEN 0 ELSE Last(indents)
Dedents(n, i) == [k \in 1..n |-> Token("DEDENT", "", i)]

\* The column that the line break after line i leads to.
NextColumn(i) == IF i < Len(Lines) THEN Column(i + 1) ELSE 0

NEWLINE_action(i) ==
    LET column == NextColumn(i)
        open == StillOpen(column)
        here == tokens \o TokensOf(i)
    IN  IF NewlineSkipped(i)
        THEN tokens' = here /\ UNCHANGED indents
        ELSE \/ /\ column = Innermost
                /\ tokens' = here \o <<Token("NEWLINE", "", i)>>
                /\ UNCHANGED indents
             \/ /\ column > Innermost
                /\ tokens' = here \o <<Token("NEWLINE", "", i), Token("INDENT", "", i)>>
                /\ indents' = Append(indents, column)
             \/ /\ column < Innermost
                /\ tokens' = here \o <<Token("NEWLINE", "", i)>> \o Dedents(Len(indents) - open, i)
                /\ indents' = SubSeq(indents, 1, open)

\* The next line and the line break after it, if there is one and it is not joined.
ReadLine ==
    /\ reading # ""
    /\ line < Len(Lines)
    /\ line' = line + 1
    /\ opened' = OpenedAfter(line + 1)
    /\ IF Broken(line + 1) /\ ~Joined(line + 1)
       THEN NEWLINE_action(line + 1)
       ELSE tokens' = tokens \o TokensOf(line + 1) /\ UNCHANGED indents
    /\ UNCHANGED reading

\* What the end of the file adds: blocks that are still open are closed, behind a NEWLINE.
TokensAtEnd ==
    (IF indents = <<>> THEN <<>> ELSE <<Token("NEWLINE", "", line)>> \o Dedents(Len(indents), line))
    \o <<Token("EOF", "", line)>>

\* A new file, from its start: reset().
StartReading(f) ==
    /\ reading' = f
    /\ line' = 0
    /\ indents' = <<>>
    /\ opened' = 0
    /\ tokens' = <<>>

\* The last token is handed on and the lexer is done with the file.
FileRead == reading # "" /\ line = Len(Lines)
AllTokens == tokens \o TokensAtEnd

\* The lexer by itself: one file after the other, in any order.
LexerInit ==
    /\ reading \in DOMAIN Sources
    /\ line = 0 /\ indents = <<>> /\ opened = 0 /\ tokens = <<>>
LexerNext == ReadLine \/ \E f \in DOMAIN Sources : StartReading(f)
LexerSpec == LexerInit /\ [][LexerNext]_lexer
-----------------------------------------------------------------------------
(* What the tokens promise                                                 *)

\* Open blocks start ever further right, and every token is of a line that is read.
LexerTypeOK ==
    /\ reading \in DOMAIN Sources /\ line \in 0..Len(Lines)
    /\ indents \in Seq(Nat \ {0}) /\ opened \in Int
    /\ \A j, k \in DOMAIN indents : j < k => indents[j] < indents[k]
    /\ \A k \in DOMAIN tokens : tokens[k].line \in 1..line

\* How many blocks the first n of the tokens begin and do not end.
Places(ts, n, kind) == {p \in 1..n : ts[p].kind = kind}
Depth(ts, n) == Cardinality(Places(ts, n, "INDENT")) - Cardinality(Places(ts, n, "DEDENT"))

\* The column of the line that a token at the end of one leads to, and the blocks that none of the
\* line breaks since their start leads out of.
LeadsTo(ts, p) == NextColumn(ts[p].line)
Around(ts, n) ==
    {p \in Places(ts, n, "INDENT") :
        \A q \in p..n : ts[q].kind = "NEWLINE" => LeadsTo(ts, p) <= LeadsTo(ts, q)}

\* Wherever a file ends, each of its blocks ends once and behind its start.
BlocksNest ==
    LET all == AllTokens
    IN  /\ \A n \in DOMAIN all : all[n].kind = "DEDENT" => Depth(all, n) >= 0
        /\ Depth(all, Len(all)) = 0

\* A block begins where a line break leads further right than all blocks around it began, and it ends
\* with the first one that leads further left: a line in between is in the outer one.
BlocksByColumn ==
    /\ \A p \in 1..Len(tokens) :
           tokens[p].kind = "INDENT" <=>
               /\ p > 1 /\ tokens[p - 1].kind = "NEWLINE"
               /\ LeadsTo(tokens, p - 1) > 0
               /\ \A b \in Around(tokens, p - 2) : LeadsTo(tokens, p - 1) > LeadsTo(tokens, b)
    /\ Depth(tokens, Len(tokens)) = Cardinality(Around(tokens, Len(tokens)))
=============================================================================
