----------------------------- MODULE OscLexicon -----------------------------
(***************************************************************************)
(* The words of a scenario file.  What is not a keyword and not a literal   *)
(* is an identifier.                                                        *)
(***************************************************************************)

CONSTANT Lexicon    \* of every lexeme that is a literal, [kind |-> of token, value |-> what it denotes]

Keywords ==
    {"import", ".", "type", "is", "SI", "unit", "of", ",", ":", "factor", "offset", "kg", "m", "s",
     "A", "K", "mol", "cd", "rad", "enum", "=", "!", "==", "struct", "inherits", "actor",
     "scenario", "action", "modifier", "extend", "global", "list", "int", "uint", "float", "bool",
     "string", "event", "if", "@", "as", "rise", "fall", "elapsed", "every", "var", "sample",
     "with", "keep", "default", "hard", "remove_default", "on", "do", "serial", "one_of",
     "parallel", "wait", "emit", "call", "until", "def", "->", "expression", "undefined",
     "external", "only", "cover", "record", "range", "?", "=>", "or", "and", "not", "!=", "<",
     "<=", ">", ">=", "in", "+", "-", "*", "/", "%", "it", "..", "[", "]", "(", ")"}

KindOf(lexeme) ==
    IF lexeme \in Keywords THEN lexeme
    ELSE IF lexeme \in DOMAIN Lexicon THEN Lexicon[lexeme].kind ELSE "Identifier"

\* The tokens that no word stands for; the lexer makes them of the ends and the starts of lines.
LayoutKinds == {"NEWLINE", "INDENT", "DEDENT", "EOF"}

ASSUME LexiconAssumption == \A lexeme \in DOMAIN Lexicon : Lexicon[lexeme].kind \notin LayoutKinds
=============================================================================
