----------------------------- MODULE OscParser ------------------------------
(***************************************************************************)
(* What the ANTLR runtime (external) does with the rules of OscGrammar.  It *)
(* follows all alternatives token by token; of those that end up expecting  *)
(* the same tokens it keeps the one that comes first, and a repetition goes *)
(* on for as long as it can.                                                *)
(***************************************************************************)
EXTENDS OscGrammar, Integers, Sequences, SequencesExt

\* A node of the parse tree; a token is a node without members, and only its line counts.
TreeNode(rule, text, line, kids) == [rule |-> rule, text |-> text, line |-> line, kids |-> kids]

\* An alternative that is followed: what it still expects, and the nodes it has begun, innermost last.
Alternative(todo, begun) == [todo |-> todo, begun |-> begun]

\* Behind what a node is made of; between the operand of a left-recursive rule and its tails.
NodeEnd == [op |-> "end"]
TailsOf(tails) == [op |-> "tails", of |-> tails]

Inner(begun) == Last(begun)
WithKid(begun, kid) == Append(Front(begun), [Inner(begun) EXCEPT !.kids = Append(@, kid)])
WithoutLastKid(begun) == Append(Front(begun), [Inner(begun) EXCEPT !.kids = Front(@)])

\* F of every member; the concatenation makes TLC compute the sequence once and not at every use.
Map(s, F(_)) == [k \in DOMAIN s |-> F(s[k])] \o <<>>

\* The ways an alternative can go on, each up to the next token it expects of this kind.
RECURSIVE Followed(_, _)
Followed(a, kind) ==
    LET e == Head(a.todo)
        Expecting(es, begun) == Followed(Alternative(es \o Tail(a.todo), begun), kind)
        Begin(n, kids) == Append(a.begun, TreeNode(n.name, "", 0, kids))
    IN  CASE e.op = "token" -> IF e.of = kind THEN <<a>> ELSE <<>>
          [] e.op = "ref" -> Expecting(<<Rules[e.of]>>, a.begun)
          [] e.op = "cat" -> Expecting(e.of, a.begun)
          [] e.op = "or" -> FlattenSeq(Map(e.of, LAMBDA f : Expecting(<<f>>, a.begun)))
          [] e.op = "opt" -> Expecting(<<e.of>>, a.begun) \o Expecting(<<>>, a.begun)
          [] e.op = "star" -> Expecting(<<e.of, e>>, a.begun) \o Expecting(<<>>, a.begun)
          [] e.op = "node" -> Expecting(<<e.of, NodeEnd>>, Begin(e, <<>>))
          [] e.op = "end" -> Expecting(<<>>, WithKid(Front(a.begun), Inner(a.begun)))
          [] e.op = "left" -> Expecting(<<e.of[1], TailsOf(e.of[2])>>, a.begun)
          [] e.op = "tails" ->
                LET operand == Last(Inner(a.begun).kids)
                    Taking(n) ==
                        Followed(Alternative(<<n.of, NodeEnd, e>> \o Tail(a.todo),
                                     Append(WithoutLastKid(a.begun), TreeNode(n.name, "", 0, <<operand>>))),
                                 kind)
                IN  FlattenSeq(Map(e.of, Taking)) \o Expecting(<<>>, a.begun)

\* The token is read: it becomes a member of the innermost node.
Past(a, token) == Alternative(Tail(a.todo), WithKid(a.begun, TreeNode(token.kind, token.text, token.line, <<>>)))

FirstPerTodo(as) ==
    IF Len(as) <= 1 THEN as
    ELSE FoldLeft(LAMBDA kept, a :
                      IF \E k \in DOMAIN kept : kept[k].todo = a.todo THEN kept ELSE Append(kept, a),
                  <<>>, as)

RECURSIVE Parse(_, _, _)
Parse(as, s, i) ==
    IF as = <<>> \/ i > Len(s) THEN as
    ELSE Parse(FirstPerTodo(FlattenSeq(Map(as, LAMBDA a :
                   Map(Followed(a, s[i].kind), LAMBDA b : Past(b, s[i]))))), s, i + 1)

\* The tree of the file, in a sequence that is empty if the file has a syntax error.
ParseTrees(s) ==
    Map(Parse(<<Alternative(<<osc_file.of>>, <<TreeNode("osc_file", "", 0, <<>>)>>)>>, s, 1),
        LAMBDA a : a.begun[1])
=============================================================================
