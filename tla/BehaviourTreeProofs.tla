-------------------------- MODULE BehaviourTreeProofs --------------------------
(***************************************************************************)
(* Proofs about BehaviourTree, for every forest of elements, any number of  *)
(* behaviours, events and ticks and any bound on the clock: type            *)
(* correctness, that nothing runs below what has ended, that an until ends  *)
(* the whole invocation, that a timeout ends the scenario, and that a       *)
(* condition that is to last has lasted.  The statements about the tree     *)
(* come first, then the invariant, then the four kinds of step a tick is    *)
(* made of, then the actions, each one of a kind, and last what the answers *)
(* of a tick say.                                                           *)
(***************************************************************************)
EXTENDS BehaviourTree, SequenceTheorems, WellFoundedInduction, TLAPS
-----------------------------------------------------------------------------
(* The tree                                                                *)

\* What TreeAssumption says of one element.
LEMMA ElementFacts ==
    ASSUME NEW e \in DOMAIN Elements
    PROVE  /\ e \in Nat
           /\ Elements[e].op \in Leaves \cup Sequential \cup Concurrent
           /\ Elements[e].members \in Seq(DOMAIN Elements) /\ Elements[e].untils \in Seq(DOMAIN Elements)
           /\ Elements[e].members = <<>> <=> Elements[e].op \in Leaves
           /\ Elements[e].op = "elapsed" => Elements[e].arg \in Nat
           /\ DOMAIN Elements[e].modifiers = 1..Len(Elements[e].modifiers)
           /\ Len(Elements[e].modifiers) \in Nat
<1>1. IsElement(Elements[e]) /\ DOMAIN Elements \subseteq Nat
  BY TreeAssumption
<1> QED
  BY <1>1 DEF IsElement

\* The layers of an element run from the until, or from the first modifier, to the behaviour itself.
LEMMA LayerFacts ==
    ASSUME NEW e \in DOMAIN Elements
    PROVE  /\ Innermost(e) \in Nat \ {0}
           /\ Outermost(e) = <<e, Outermost(e)[2]>> /\ Outermost(e)[2] \in {0, 1}
           /\ Outermost(e)[2] = 0 <=> Elements[e].untils # <<>>
           /\ Outermost(e)[2] <= Innermost(e)
<1>1. Innermost(e) \in Nat \ {0}
  BY ElementFacts DEF Innermost
<1>2. /\ Outermost(e) = <<e, Outermost(e)[2]>> /\ Outermost(e)[2] \in {0, 1}
      /\ Outermost(e)[2] = 0 <=> Elements[e].untils # <<>>
  BY DEF Outermost
<1> QED
  BY <1>1, <1>2

\* Each layer of an element is a behaviour.
LEMMA IsNode ==
    ASSUME NEW e \in DOMAIN Elements, NEW l \in Nat, Outermost(e)[2] <= l, l <= Innermost(e)
    PROVE  <<e, l>> \in Nodes
<1>1. l \in Outermost(e)[2]..Innermost(e)
  BY LayerFacts
<1>2. <<e, l>> \in {e} \X (Outermost(e)[2]..Innermost(e))
  BY <1>1
<1> QED
  BY <1>2 DEF Nodes

\* So is the outermost layer.
LEMMA OutermostIsNode == ASSUME NEW e \in DOMAIN Elements PROVE Outermost(e) \in Nodes
<1>1. Outermost(e)[2] \in Nat
  BY LayerFacts
<1>2. <<e, Outermost(e)[2]>> \in Nodes
  BY <1>1, LayerFacts, IsNode
<1> QED
  BY <1>2, LayerFacts

\* A behaviour is an element and one of its layers: an until, a modifier or what the element is.
LEMMA NodeFacts ==
    ASSUME NEW n \in Nodes
    PROVE  /\ n = <<n[1], n[2]>> /\ n[1] \in DOMAIN Elements
           /\ n[2] \in Nat /\ n[2] <= Innermost(n[1]) /\ Outermost(n[1])[2] <= n[2]
           /\ Innermost(n[1]) \in Nat \ {0}
           /\ n[2] = 0 \/ n[2] \in 1..(Innermost(n[1]) - 1) \/ n[2] = Innermost(n[1])
<1>1. PICK e \in DOMAIN Elements : n \in {e} \X (Outermost(e)[2]..Innermost(e))
  BY DEF Nodes
<1>2. n = <<n[1], n[2]>> /\ n[1] = e /\ n[2] \in Outermost(e)[2]..Innermost(e)
  BY <1>1
<1>3. Outermost(e)[2] \in {0, 1} /\ Innermost(e) \in Nat \ {0}
  BY LayerFacts
<1>4. n[2] \in Nat /\ n[2] <= Innermost(e) /\ Outermost(e)[2] <= n[2]
  BY <1>2, <1>3
<1>5. n[2] = 0 \/ n[2] \in 1..(Innermost(e) - 1) \/ n[2] = Innermost(e)
  BY <1>3, <1>4
<1> QED
  BY <1>2, <1>3, <1>4, <1>5

\* What TreeAssumption says of a modifier.
LEMMA ModifierFacts ==
    ASSUME NEW e \in DOMAIN Elements, NEW k \in 1..(Innermost(e) - 1)
    PROVE  /\ Modifier(e, k).kind \in Modifiers
           /\ Modifier(e, k).kind = "timeout" => Modifier(e, k).duration \in Nat
           /\ Modifier(e, k).kind \in {"retry", "repeat"} => Modifier(e, k).count \in Nat
           /\ Modifier(e, k).kind = "is" => Modifier(e, k).to \in Statuses \ {"INVALID"}
<1>1. IsElement(Elements[e])
  BY TreeAssumption
<1>2. k \in 1..Len(Elements[e].modifiers)
  BY ElementFacts DEF Innermost
<1> QED
  BY <1>1, <1>2 DEF IsElement, Modifier

\* The three shapes of a behaviour: an until, a modifier, and what the element itself is.
LEMMA UntilShape ==
    ASSUME NEW n \in Nodes, n[2] = 0
    PROVE  /\ Kind(n) = "one_of"
           /\ Elements[n[1]].untils \in Seq(DOMAIN Elements) /\ Elements[n[1]].untils # <<>>
           /\ DOMAIN Children(n) = 1..Len(Children(n))
           /\ Len(Children(n)) = Len(Elements[n[1]].untils) + 1
           /\ Children(n)[1] = <<n[1], 1>>
           /\ \A i \in 1..Len(Elements[n[1]].untils) :
                  Children(n)[i + 1] = Outermost(Elements[n[1]].untils[i])
           /\ Children(n) \in Seq(Nodes)
<1> DEFINE u == Elements[n[1]].untils
           o == [i \in DOMAIN u |-> Outermost(u[i])]
<1>0. n[1] \in DOMAIN Elements /\ Outermost(n[1])[2] <= n[2] /\ Innermost(n[1]) \in Nat \ {0}
  BY NodeFacts
<1>1. u \in Seq(DOMAIN Elements) /\ u # <<>>
  BY <1>0, ElementFacts, LayerFacts
<1>2. Kind(n) = "one_of"
  BY <1>0 DEF Kind
<1>3. Children(n) = <<<<n[1], 1>>>> \o o
  <2>1. n[2] \notin 1..(Innermost(n[1]) - 1)
    OBVIOUS
  <2> QED
    BY <2>1 DEF Children
<1>4. \A i \in DOMAIN u : Outermost(u[i]) \in Nodes
  BY <1>1, OutermostIsNode
<1>5. o \in Seq(Nodes) /\ Len(o) = Len(u) /\ Len(u) \in Nat
  BY <1>1, <1>4
<1>6. \A i \in 1..Len(u) : o[i] = Outermost(u[i])
  BY <1>1
<1> HIDE DEF o
<1>7. <<n[1], 1>> \in Nodes
  BY <1>0, LayerFacts, IsNode
<1>8. <<<<n[1], 1>>>> \in Seq(Nodes) /\ Len(<<<<n[1], 1>>>>) = 1 /\ <<<<n[1], 1>>>>[1] = <<n[1], 1>>
  BY <1>7
<1>9. /\ Children(n) \in Seq(Nodes) /\ Len(Children(n)) = Len(u) + 1
      /\ Children(n)[1] = <<n[1], 1>>
      /\ \A i \in 1..Len(u) : Children(n)[i + 1] = o[i]
  BY <1>3, <1>5, <1>8
<1>10. DOMAIN Children(n) = 1..Len(Children(n))
  BY <1>9
<1> QED
  BY <1>1, <1>2, <1>6, <1>9, <1>10

\* A modifier has one child, the next layer.
LEMMA ModifierShape ==
    ASSUME NEW n \in Nodes, n[2] \in 1..(Innermost(n[1]) - 1)
    PROVE  /\ Kind(n) = Modifier(n[1], n[2]).kind /\ Kind(n) \in Modifiers
           /\ Children(n) = <<<<n[1], n[2] + 1>>>>
           /\ Children(n) \in Seq(Nodes)
<1>0. /\ n[1] \in DOMAIN Elements /\ n[2] \in Nat /\ Innermost(n[1]) \in Nat
      /\ Outermost(n[1])[2] <= n[2]
  BY NodeFacts
<1>1. n[2] # 0 /\ n[2] # Innermost(n[1]) /\ n[2] + 1 <= Innermost(n[1])
  BY <1>0
<1>2. Kind(n) = Modifier(n[1], n[2]).kind /\ Children(n) = <<<<n[1], n[2] + 1>>>>
  BY <1>1 DEF Kind, Children
<1>3. Outermost(n[1])[2] <= n[2] + 1
  BY <1>0, LayerFacts
<1>4. <<n[1], n[2] + 1>> \in Nodes
  BY <1>0, <1>1, <1>3, IsNode
<1>5. Modifier(n[1], n[2]).kind \in Modifiers
  BY <1>0, ModifierFacts
<1> QED
  BY <1>2, <1>4, <1>5

\* The innermost layer is what the element is, and its children are the members.
LEMMA BehaviourShape ==
    ASSUME NEW n \in Nodes, n[2] = Innermost(n[1])
    PROVE  /\ Kind(n) = Elements[n[1]].op
           /\ Elements[n[1]].members \in Seq(DOMAIN Elements)
           /\ DOMAIN Children(n) = 1..Len(Children(n))
           /\ Len(Children(n)) = Len(Elements[n[1]].members)
           /\ \A i \in 1..Len(Elements[n[1]].members) :
                  Children(n)[i] = Outermost(Elements[n[1]].members[i])
           /\ Children(n) \in Seq(Nodes)
<1> DEFINE m == Elements[n[1]].members
<1>0. n[1] \in DOMAIN Elements /\ n[2] \in Nat /\ Innermost(n[1]) \in Nat \ {0}
  BY NodeFacts
<1>1. n[2] # 0 /\ n[2] \notin 1..(Innermost(n[1]) - 1)
  BY <1>0
<1>2. Kind(n) = Elements[n[1]].op
  BY <1>1 DEF Kind
<1>3. Children(n) = [i \in DOMAIN m |-> Outermost(m[i])]
  BY <1>1 DEF Children
<1>4. m \in Seq(DOMAIN Elements)
  BY <1>0, ElementFacts
<1>5. \A i \in DOMAIN m : Outermost(m[i]) \in Nodes
  BY <1>4, OutermostIsNode
<1>6. DOMAIN m = 1..Len(m) /\ Len(m) \in Nat
  BY <1>4
<1>7. Children(n) \in Seq(Nodes) /\ Len(Children(n)) = Len(m)
  BY <1>3, <1>5, <1>6
<1> QED
  BY <1>2, <1>3, <1>4, <1>6, <1>7

\* The children of a behaviour: how many there are of each kind.
LEMMA ChildrenFacts ==
    ASSUME NEW n \in Nodes
    PROVE  /\ Children(n) \in Seq(Nodes)
           /\ DOMAIN Children(n) = 1..Len(Children(n)) /\ Len(Children(n)) \in Nat
           /\ Kids(n) \subseteq Nodes
           /\ Kind(n) \in Leaves \cup Sequential \cup Concurrent \cup Modifiers
           /\ Kind(n) \in Leaves => Kids(n) = {}
           /\ Kind(n) \in Modifiers =>
                  /\ Len(Children(n)) = 1 /\ Kids(n) = {Children(n)[1]}
                  /\ n[2] \in 1..(Innermost(n[1]) - 1) /\ Kind(n) = Modifier(n[1], n[2]).kind
           /\ Kind(n) \in Sequential \cup Concurrent => Len(Children(n)) >= 1
<1>0. n[1] \in DOMAIN Elements
  BY NodeFacts
<1>1. Children(n) \in Seq(Nodes)
  BY NodeFacts, UntilShape, ModifierShape, BehaviourShape
<1>2. DOMAIN Children(n) = 1..Len(Children(n)) /\ Len(Children(n)) \in Nat
  BY <1>1
<1>3. Kids(n) = {Children(n)[i] : i \in 1..Len(Children(n))} /\ Kids(n) \subseteq Nodes
  BY <1>1, <1>2 DEF Kids
<1>4. /\ Leaves \cap Modifiers = {} /\ Sequential \cap (Leaves \cup Modifiers) = {}
      /\ Concurrent \cap (Leaves \cup Modifiers) = {} /\ "one_of" \in Concurrent
  BY DEF Leaves, Modifiers, Sequential, Concurrent
<1>5. CASE n[2] = 0
  <2>1. Kind(n) = "one_of" /\ Len(Children(n)) = Len(Elements[n[1]].untils) + 1
        /\ Elements[n[1]].untils \in Seq(DOMAIN Elements)
    BY <1>5, UntilShape
  <2>2. Len(Children(n)) >= 1
    BY <2>1
  <2>3. Kind(n) \notin Leaves /\ Kind(n) \notin Modifiers /\ Kind(n) \in Concurrent
    BY <1>4, <2>1
  <2> QED
    BY <1>1, <1>2, <1>3, <2>2, <2>3
<1>6. CASE n[2] \in 1..(Innermost(n[1]) - 1)
  <2>1. /\ Kind(n) = Modifier(n[1], n[2]).kind /\ Children(n) = <<<<n[1], n[2] + 1>>>>
        /\ Kind(n) \in Modifiers
    BY <1>6, ModifierShape
  <2>2. Len(Children(n)) = 1
    BY <2>1
  <2>3. Kids(n) = {Children(n)[1]}
    BY <1>3, <2>2
  <2>4. Kind(n) \notin Leaves /\ Kind(n) \notin Sequential \cup Concurrent
    BY <1>4, <2>1
  <2> QED
    BY <1>1, <1>2, <1>3, <1>6, <2>1, <2>2, <2>3, <2>4
<1>7. CASE n[2] = Innermost(n[1])
  <2>1. Kind(n) = Elements[n[1]].op /\ Len(Children(n)) = Len(Elements[n[1]].members)
        /\ Elements[n[1]].members \in Seq(DOMAIN Elements)
    BY <1>7, BehaviourShape
  <2>2. Kind(n) \in Leaves \cup Sequential \cup Concurrent
        /\ (Kind(n) \in Leaves <=> Elements[n[1]].members = <<>>)
    BY <1>0, <2>1, ElementFacts
  <2>3. Kind(n) \in Leaves <=> Len(Children(n)) = 0
    BY <2>1, <2>2
  <2>4. Kind(n) \in Leaves => Kids(n) = {}
    BY <1>3, <2>3
  <2>5. Kind(n) \notin Modifiers /\ (Kind(n) \in Sequential \cup Concurrent => Kind(n) \notin Leaves)
    BY <1>4, <2>2
  <2>6. Kind(n) \in Sequential \cup Concurrent => Len(Children(n)) >= 1
    BY <1>2, <2>3, <2>5
  <2> QED
    BY <1>1, <1>2, <1>3, <2>2, <2>4, <2>5, <2>6
<1> QED
  BY <1>5, <1>6, <1>7, NodeFacts

\* What a child is: the next layer of the same element, or the outermost layer of a part of it.
LEMMA ChildIs ==
    ASSUME NEW n \in Nodes, NEW i \in DOMAIN Children(n)
    PROVE  \/ i = 1 /\ n[2] < Innermost(n[1]) /\ Children(n)[i] = <<n[1], n[2] + 1>>
           \/ \E p \in Places(n[1]) :
                  /\ Children(n)[i] = Outermost(Part(n[1], p))
                  /\ \/ n[2] = 0 /\ p = 1 - i /\ i > 1
                     \/ n[2] = Innermost(n[1]) /\ p = i /\ i > 0
<1> DEFINE e == n[1]
<1>0. e \in DOMAIN Elements /\ n[2] \in Nat /\ Innermost(e) \in Nat \ {0}
  BY NodeFacts
<1>1. Elements[e].members \in Seq(DOMAIN Elements) /\ Elements[e].untils \in Seq(DOMAIN Elements)
  BY <1>0, ElementFacts
<1>2. i \in 1..Len(Children(n)) /\ Len(Children(n)) \in Nat
  BY ChildrenFacts
<1>3. CASE n[2] = 0
  <2>1. CASE i = 1
    <3>1. Children(n)[1] = <<e, 1>>
      BY <1>3, UntilShape
    <3>2. n[2] < Innermost(e) /\ n[2] + 1 = 1
      BY <1>0, <1>3
    <3> QED
      BY <2>1, <3>1, <3>2
  <2>2. CASE i > 1
    <3>1. /\ Len(Children(n)) = Len(Elements[e].untils) + 1
          /\ \A k \in 1..Len(Elements[e].untils) : Children(n)[k + 1] = Outermost(Elements[e].untils[k])
      BY <1>3, UntilShape
    <3>2. PICK k \in 1..Len(Elements[e].untils) : k = i - 1
      BY <1>1, <1>2, <2>2, <3>1
    <3>3. Children(n)[i] = Outermost(Elements[e].untils[k])
      BY <1>1, <1>2, <3>1, <3>2
    <3>4. -k \in Places(e) /\ Part(e, -k) = Elements[e].untils[k]
      BY <1>1, <3>2 DEF Places, Part
    <3>5. 1 - i = -k
      BY <1>2, <3>2
    <3>6. Children(n)[i] = Outermost(Part(e, -k))
      BY <3>3, <3>4
    <3>7. /\ Children(n)[i] = Outermost(Part(e, -k))
          /\ n[2] = 0 /\ -k = 1 - i /\ i > 1
      BY <1>3, <2>2, <3>5, <3>6
    <3> QED
      BY <3>4, <3>7
  <2> QED
    BY <1>2, <2>1, <2>2
<1>4. CASE n[2] \in 1..(Innermost(e) - 1)
  <2>1. Children(n) = <<<<e, n[2] + 1>>>>
    BY <1>4, ModifierShape
  <2>2. i = 1 /\ n[2] < Innermost(e)
    BY <1>0, <1>2, <1>4, <2>1
  <2> QED
    BY <2>1, <2>2
<1>5. CASE n[2] = Innermost(e)
  <2>1. i \in 1..Len(Elements[e].members) /\ Children(n)[i] = Outermost(Elements[e].members[i])
    BY <1>2, <1>5, BehaviourShape
  <2>2. i \in Places(e) /\ Part(e, i) = Elements[e].members[i] /\ i > 0
    BY <1>1, <2>1 DEF Places, Part
  <2> QED
    BY <1>5, <2>1, <2>2
<1> QED
  BY <1>3, <1>4, <1>5, NodeFacts

\* A part of an element is an element that comes after it, and is no scenario.
LEMMA PartFacts ==
    ASSUME NEW e \in DOMAIN Elements, NEW p \in Places(e)
    PROVE  Part(e, p) \in DOMAIN Elements /\ Part(e, p) > e /\ Part(e, p) \notin Scenarios
<1>1. Elements[e].members \in Seq(DOMAIN Elements) /\ Elements[e].untils \in Seq(DOMAIN Elements)
  BY ElementFacts
<1>2. \/ p \in 1..Len(Elements[e].members)
      \/ \E i \in 1..Len(Elements[e].untils) : p = -i
  BY <1>1 DEF Places
<1>3. Part(e, p) \in DOMAIN Elements
  BY <1>1, <1>2 DEF Part
<1> QED
  BY <1>3, TreeAssumption

\* A behaviour is the child of one other at most, at one place of it.
LEMMA ParentUnique ==
    ASSUME NEW n \in Nodes, NEW m \in Nodes, NEW i \in DOMAIN Children(n), NEW j \in DOMAIN Children(m),
           Children(n)[i] = Children(m)[j]
    PROVE  n = m /\ i = j
<1> DEFINE inner(x, k) == k = 1 /\ x[2] < Innermost(x[1]) /\ Children(x)[k] = <<x[1], x[2] + 1>>
           part(x, k, p) == /\ Children(x)[k] = Outermost(Part(x[1], p))
                            /\ \/ x[2] = 0 /\ p = 1 - k /\ k > 1
                               \/ x[2] = Innermost(x[1]) /\ p = k /\ k > 0
<1>0. /\ n = <<n[1], n[2]>> /\ m = <<m[1], m[2]>> /\ n[1] \in DOMAIN Elements /\ m[1] \in DOMAIN Elements
      /\ n[2] \in Nat /\ m[2] \in Nat
      /\ Innermost(n[1]) \in Nat \ {0} /\ Innermost(m[1]) \in Nat \ {0}
  BY NodeFacts
<1>9. i \in Int /\ j \in Int
  BY ChildrenFacts
<1>1. Outermost(n[1])[2] <= n[2] /\ Outermost(m[1])[2] <= m[2]
      /\ Outermost(n[1])[2] \in {0, 1} /\ Outermost(m[1])[2] \in {0, 1}
  BY <1>0, NodeFacts, LayerFacts
<1>2. inner(n, i) \/ \E p \in Places(n[1]) : part(n, i, p)
  BY ChildIs
<1>3. inner(m, j) \/ \E p \in Places(m[1]) : part(m, j, p)
  BY ChildIs
<1>4. CASE inner(n, i) /\ inner(m, j)
  <2>1. n[1] = m[1] /\ n[2] + 1 = m[2] + 1
    BY <1>4
  <2>2. n[2] = m[2]
    BY <1>0, <2>1
  <2> QED
    BY <1>0, <1>4, <2>1, <2>2
<1>5. ASSUME NEW x \in {n, m}, NEW y \in {n, m}, NEW k, NEW l, inner(x, k),
             NEW p \in Places(y[1]), part(y, l, p), Children(x)[k] = Children(y)[l]
      PROVE  FALSE
  <2>1. Part(y[1], p) \in DOMAIN Elements
    BY <1>0, <1>5, PartFacts
  <2>2. Outermost(Part(y[1], p)) = <<Part(y[1], p), Outermost(Part(y[1], p))[2]>>
    BY <2>1, LayerFacts
  <2>3. Part(y[1], p) = x[1] /\ Outermost(Part(y[1], p))[2] = x[2] + 1
    BY <1>5, <2>2
  <2> QED
    BY <1>0, <1>1, <2>3
<1>6. ASSUME NEW p \in Places(n[1]), part(n, i, p), NEW q \in Places(m[1]), part(m, j, q)
      PROVE  n = m /\ i = j
  <2>1. Part(n[1], p) \in DOMAIN Elements /\ Part(m[1], q) \in DOMAIN Elements
    BY <1>0, PartFacts
  <2>6. Outermost(Part(n[1], p)) = Outermost(Part(m[1], q))
    BY <1>6
  <2>2. /\ Outermost(Part(n[1], p)) = <<Part(n[1], p), Outermost(Part(n[1], p))[2]>>
        /\ Outermost(Part(m[1], q)) = <<Part(m[1], q), Outermost(Part(m[1], q))[2]>>
    BY <2>1, LayerFacts
  <2>3. Part(n[1], p) = Part(m[1], q)
    BY <2>2, <2>6
  <2>4. n[1] = m[1] /\ p = q
    BY <1>0, <2>3, TreeAssumption
  <2>5. i = j /\ n[2] = m[2]
    BY <1>0, <1>6, <1>9, <2>4
  <2> QED
    BY <1>0, <2>4, <2>5
<1> HIDE DEF inner, part
<1>7. CASE inner(n, i)
  BY <1>3, <1>4, <1>5, <1>7
<1>8. CASE \E p \in Places(n[1]) : part(n, i, p)
  <2>1. PICK p \in Places(n[1]) : part(n, i, p)
    BY <1>8
  <2>2. CASE inner(m, j)
    BY <1>5, <2>1, <2>2
  <2>3. CASE \E q \in Places(m[1]) : part(m, j, q)
    BY <1>6, <2>1, <2>3
  <2> QED
    BY <1>3, <2>2, <2>3
<1> QED
  BY <1>2, <1>7, <1>8

\* The children of two behaviours have nothing in common.
LEMMA OneParent ==
    ASSUME NEW n \in Nodes, NEW m \in Nodes, NEW c \in Kids(n), c \in Kids(m)
    PROVE  n = m
BY ParentUnique DEF Kids

\* A scenario is the child of nothing, and nothing is its own child.
LEMMA ScenarioIsNoChild ==
    ASSUME NEW s \in Scenarios, NEW n \in Nodes
    PROVE  Outermost(s) \in Nodes /\ Outermost(s) \notin Kids(n)
<1>0. s \in DOMAIN Elements /\ n[1] \in DOMAIN Elements /\ n[2] \in Nat
  BY TreeAssumption, NodeFacts
<1>1. SUFFICES ASSUME NEW i \in DOMAIN Children(n), Children(n)[i] = Outermost(s)
               PROVE  FALSE
  BY <1>0, OutermostIsNode DEF Kids
<1>2. Outermost(s) = <<s, Outermost(s)[2]>> /\ Outermost(n[1])[2] <= n[2] /\ Outermost(n[1])[2] \in {0, 1}
  BY <1>0, LayerFacts, NodeFacts
<1>3. CASE Children(n)[i] = <<n[1], n[2] + 1>>
  <2>1. s = n[1] /\ Outermost(s)[2] = n[2] + 1
    BY <1>1, <1>2, <1>3
  <2> QED
    BY <1>0, <1>2, <2>1
<1>4. CASE \E p \in Places(n[1]) : Children(n)[i] = Outermost(Part(n[1], p))
  <2>1. PICK p \in Places(n[1]) : Children(n)[i] = Outermost(Part(n[1], p))
    BY <1>4
  <2>2. Part(n[1], p) \in DOMAIN Elements /\ Part(n[1], p) \notin Scenarios
    BY <1>0, PartFacts
  <2>3. Outermost(Part(n[1], p)) = <<Part(n[1], p), Outermost(Part(n[1], p))[2]>>
    BY <2>2, LayerFacts
  <2>4. s = Part(n[1], p)
    BY <1>1, <1>2, <2>1, <2>3
  <2> QED
    BY <2>2, <2>4
<1> QED
  BY <1>3, <1>4, ChildIs

\* The behaviours from n up: the least set that holds n and the parent of each of its members.
LEMMA AboveStep ==
    \A n \in Nodes : above[n] = {n} \cup UNION {above[m] : m \in {p \in Nodes : n \in Kids(p)}}
<1> DEFINE Up(n) == {S \in SUBSET Nodes : n \in S /\ \A c \in S : \A p \in Nodes : c \in Kids(p) => p \in S}
           least == [n \in Nodes |-> {x \in Nodes : \A S \in Up(n) : x \in S}]
           F(f) == [n \in Nodes |-> {n} \cup UNION {f[m] : m \in {p \in Nodes : n \in Kids(p)}}]
<1>1. ASSUME NEW n \in Nodes
      PROVE  least[n] = {n} \cup UNION {least[m] : m \in {p \in Nodes : n \in Kids(p)}}
  <2> DEFINE R == {n} \cup UNION {least[m] : m \in {p \in Nodes : n \in Kids(p)}}
  <2>1. ASSUME NEW m \in Nodes, n \in Kids(m) PROVE least[m] \subseteq least[n]
    <3>1. \A S \in Up(n) : S \in Up(m)
      BY <2>1
    <3> QED
      BY <3>1
  <2>2. n \in least[n]
    OBVIOUS
  <2>3. R \subseteq least[n]
    BY <2>1, <2>2
  <2>4. \A m \in Nodes : m \in least[m] /\ least[m] \subseteq Nodes
    OBVIOUS
  <2>5. ASSUME NEW m \in Nodes, NEW c \in least[m], NEW p \in Nodes, c \in Kids(p)
        PROVE  p \in least[m]
    BY <2>5
  <2> HIDE DEF least
  <2>6. ASSUME NEW c \in R, NEW p \in Nodes, c \in Kids(p) PROVE p \in R
    <3>1. CASE c = n
      BY <2>4, <2>6, <3>1
    <3>2. CASE \E m \in Nodes : n \in Kids(m) /\ c \in least[m]
      BY <2>5, <2>6, <3>2
    <3> QED
      BY <3>1, <3>2
  <2>7. R \subseteq Nodes /\ n \in R
    BY <2>4
  <2> HIDE DEF R
  <2>8. R \in Up(n)
    BY <2>6, <2>7
  <2>9. least[n] \subseteq R
    BY <2>8 DEF least
  <2> QED
    BY <2>3, <2>9 DEF R
<1>2. least = F(least)
  BY <1>1
<1> HIDE DEF least
<1>3. above = CHOOSE f : f = F(f)
  BY DEF above
<1>4. above = F(above)
  <2>1. \E f : f = F(f)
    BY <1>2
  <2> HIDE DEF F
  <2> QED
    BY <1>3, <2>1, Zenon
<1> QED
  BY <1>4

\* A behaviour is above itself, and nothing else is above one that is no child.
LEMMA AboveFacts ==
    ASSUME NEW n \in Nodes
    PROVE  /\ n \in above[n] /\ above[n] \subseteq Nodes
           /\ (\A p \in Nodes : n \notin Kids(p)) => above[n] = {n}
<1>1. above[n] \subseteq Nodes
  BY TreeAssumption
<1> QED
  BY <1>1, AboveStep

\* Above a child is the child and what is above its parent.
LEMMA AboveChild ==
    ASSUME NEW n \in Nodes, NEW c \in Kids(n)
    PROVE  c \in Nodes /\ above[c] = {c} \cup above[n]
<1>1. c \in Nodes
  BY ChildrenFacts
<1>2. {p \in Nodes : c \in Kids(p)} = {n}
  BY OneParent
<1> QED
  BY <1>1, <1>2, AboveStep

\* A set of numbers has a least one.
LEMMA LeastNumber ==
    ASSUME NEW S, S \subseteq Nat, S # {}
    PROVE  \E x \in S : \A y \in S : x <= y
<1> DEFINE LessThan == {ss \in Nat \X Nat : ss[1] < ss[2]}
<1>1. IsWellFoundedOn(LessThan, Nat)
  BY NatLessThanWellFounded DEF OpToRel
<1>2. PICK x \in S : \A y \in S : <<y, x>> \notin LessThan
  BY <1>1, WFMin
<1>3. ASSUME NEW y \in S PROVE x <= y
  <2>1. x \in Nat /\ y \in Nat /\ ~(y < x)
    BY <1>2
  <2> QED
    BY <2>1
<1> QED
  BY <1>3

\* What holds of every scenario and of the children of what it holds of, holds of every behaviour.
LEMMA FromTheScenarios ==
    ASSUME NEW S, \A s \in Scenarios : Outermost(s) \in S,
           \A n \in Nodes : n \in S => Kids(n) \subseteq S
    PROVE  Nodes \subseteq S
<1> DEFINE Layers(e) == {l \in Nat : <<e, l>> \in Nodes /\ <<e, l>> \notin S}
           bad == {e \in DOMAIN Elements : Layers(e) # {}}
<1>1. SUFFICES ASSUME bad # {} PROVE FALSE
  <2>1. SUFFICES ASSUME NEW n \in Nodes, n \notin S PROVE FALSE
    OBVIOUS
  <2>2. n[1] \in DOMAIN Elements /\ n[2] \in Nat /\ n = <<n[1], n[2]>>
    BY NodeFacts
  <2>3. n[2] \in Layers(n[1])
    BY <2>1, <2>2
  <2> QED
    BY <1>1, <2>2, <2>3
<1>2. bad \subseteq Nat
  BY TreeAssumption
<1>3. PICK e \in bad : \A f \in bad : e <= f
  BY <1>1, <1>2, LeastNumber
<1>4. PICK l \in Layers(e) : \A k \in Layers(e) : l <= k
  BY <1>3, LeastNumber
<1> DEFINE n == <<e, l>>
<1>5. e \in DOMAIN Elements /\ e \in Nat /\ l \in Nat /\ n \in Nodes /\ n \notin S /\ n[1] = e /\ n[2] = l
  BY <1>2, <1>3, <1>4
<1> HIDE DEF bad, Layers
<1>6. l <= Innermost(e) /\ Outermost(e)[2] <= l /\ Innermost(e) \in Nat
  <2>1. n[2] <= Innermost(n[1]) /\ Outermost(n[1])[2] <= n[2] /\ Innermost(n[1]) \in Nat
    BY <1>5, NodeFacts
  <2> QED
    BY <1>5, <2>1
<1>7. Outermost(e) = <<e, Outermost(e)[2]>> /\ Outermost(e)[2] \in {0, 1}
  BY <1>5, LayerFacts
<1>8. CASE l = Outermost(e)[2]
  <2>1. n = Outermost(e) /\ e \notin Scenarios
    BY <1>5, <1>7, <1>8
  <2>2. PICK f \in DOMAIN Elements : \E p \in Places(f) : Part(f, p) = e
    BY <1>5, <2>1, TreeAssumption
  <2>3. PICK p \in Places(f) : Part(f, p) = e
    BY <2>2
  <2>4. e > f /\ f \in Nat
    BY <2>3, PartFacts, TreeAssumption
  <2>5. f \notin bad
    BY <1>2, <1>3, <1>5, <2>4
  <2>6. \A k \in Nat : <<f, k>> \in Nodes => <<f, k>> \in S
    BY <2>5 DEF bad, Layers
  <2>7. \E m \in Nodes : m[1] = f /\ n \in Kids(m)
    <3>1. Elements[f].members \in Seq(DOMAIN Elements) /\ Elements[f].untils \in Seq(DOMAIN Elements)
      BY ElementFacts
    <3>2. Innermost(f) \in Nat \ {0} /\ Outermost(f)[2] \in {0, 1} /\ Outermost(f)[2] <= Innermost(f)
          /\ (Outermost(f)[2] = 0 <=> Elements[f].untils # <<>>)
      BY LayerFacts
    <3>3. CASE \E i \in 1..Len(Elements[f].members) : p = i
      <4>1. PICK i \in 1..Len(Elements[f].members) : p = i
        BY <3>3
      <4>2. Elements[f].members[i] = e
        BY <2>3, <3>1, <4>1 DEF Part
      <4> DEFINE m == <<f, Innermost(f)>>
      <4>3. m \in Nodes /\ m[1] = f /\ m[2] = Innermost(f)
        BY <3>2, IsNode
      <4> HIDE DEF m
      <4>4. /\ DOMAIN Children(m) = 1..Len(Children(m))
            /\ Len(Children(m)) = Len(Elements[f].members)
            /\ Children(m)[i] = Outermost(Elements[f].members[i])
        BY <4>3, BehaviourShape
      <4>5. Children(m)[i] = n /\ i \in DOMAIN Children(m)
        BY <2>1, <4>2, <4>4
      <4> QED
        BY <4>3, <4>5 DEF Kids
    <3>4. CASE \E i \in 1..Len(Elements[f].untils) : p = -i
      <4>1. PICK i \in 1..Len(Elements[f].untils) : p = -i
        BY <3>4
      <4>2. Elements[f].untils[i] = e /\ Elements[f].untils # <<>>
        BY <2>3, <3>1, <4>1 DEF Part
      <4> DEFINE m == <<f, 0>>
      <4>3. m \in Nodes /\ m[1] = f /\ m[2] = 0
        BY <3>2, <4>2, IsNode
      <4> HIDE DEF m
      <4>4. /\ DOMAIN Children(m) = 1..Len(Children(m))
            /\ Len(Children(m)) = Len(Elements[f].untils) + 1
            /\ Children(m)[i + 1] = Outermost(Elements[f].untils[i])
        BY <4>3, UntilShape
      <4>5. Children(m)[i + 1] = n /\ i + 1 \in DOMAIN Children(m)
        BY <2>1, <3>1, <4>2, <4>4
      <4> QED
        BY <4>3, <4>5 DEF Kids
    <3>5. p \in 1..Len(Elements[f].members) \/ \E i \in 1..Len(Elements[f].untils) : p = -i
      BY <3>1 DEF Places
    <3> QED
      BY <3>3, <3>4, <3>5
  <2>8. PICK m \in Nodes : m[1] = f /\ n \in Kids(m)
    BY <2>7
  <2>9. m = <<f, m[2]>> /\ m[2] \in Nat
    BY <2>8, NodeFacts
  <2>10. m \in S
    BY <2>6, <2>8, <2>9
  <2> QED
    BY <1>5, <2>8, <2>10
<1>9. CASE l # Outermost(e)[2]
  <2>1. /\ l - 1 \in Nat /\ Outermost(e)[2] <= l - 1 /\ l - 1 <= Innermost(e) /\ l - 1 # Innermost(e)
        /\ l - 1 <= Innermost(e) - 1
    BY <1>5, <1>6, <1>7, <1>9
  <2> DEFINE m == <<e, l - 1>>
  <2>2. m \in Nodes /\ m[1] = e /\ m[2] = l - 1
    BY <1>5, <2>1, IsNode
  <2>3. l - 1 \notin Layers(e)
    BY <1>4, <1>5, <2>1 DEF Layers
  <2>4. m \in S
    BY <2>1, <2>2, <2>3 DEF Layers
  <2>5. n \in Kids(m)
    <3>1. CASE l - 1 = 0
      <4>1. Children(m)[1] = <<e, 1>> /\ 1 \in DOMAIN Children(m)
        <5>1. /\ Elements[m[1]].untils \in Seq(DOMAIN Elements)
              /\ DOMAIN Children(m) = 1..Len(Children(m))
              /\ Len(Children(m)) = Len(Elements[m[1]].untils) + 1
              /\ Children(m)[1] = <<m[1], 1>>
          BY <2>2, <3>1, UntilShape
        <5> QED
          BY <2>2, <5>1
      <4>2. n = <<e, 1>>
        BY <1>5, <3>1
      <4> QED
        BY <4>1, <4>2 DEF Kids
    <3>2. CASE l - 1 # 0
      <4>0. l \in Nat
        BY <1>5
      <4>1. l - 1 \in 1..(Innermost(e) - 1)
        BY <1>6, <2>1, <3>2, <4>0
      <4>2. Children(m) = <<<<e, (l - 1) + 1>>>>
        BY <2>2, <4>1, ModifierShape
      <4>3. (l - 1) + 1 = l
        BY <1>5
      <4>4. Children(m) = <<n>>
        BY <4>2, <4>3
      <4> QED
        BY <4>4 DEF Kids
    <3> QED
      BY <3>1, <3>2
  <2> QED
    BY <1>5, <2>2, <2>4, <2>5
<1> QED
  BY <1>8, <1>9
-----------------------------------------------------------------------------
(* The invariant                                                           *)

\* The behaviours that have started and not returned.
Reached == IF started THEN Len(path) ELSE Len(path) - 1
Entered == {path[k] : k \in 1..Reached}

\* The child a behaviour that is under way has come to.
Place(n) == IF Kind(n) \in Modifiers THEN 1 ELSE memo[n]
AtAChild(n) == Place(n) \in DOMAIN Children(n)
ComeTo(n) == Children(n)[Place(n)]

\* The path goes down the tree, from the root to the child each behaviour has come to, and holds
\* all that is around each of its members.
PathInv ==
    /\ started => path # <<>>
    /\ path # <<>> => path[1] = Root
    /\ \A k \in 1..(Len(path) - 1) : AtAChild(path[k]) /\ path[k + 1] = ComeTo(path[k])
    /\ \A j, k \in 1..Len(path) : path[j] = path[k] => j = k
    /\ \A k \in 1..Len(path) : above[path[k]] = {path[j] : j \in 1..k} /\ path[k] \notin ticked

\* A child c of n that has been looked at in this tick: it has returned, or a parallel passed it over.
Done(n, c) == status[c] # "INVALID" /\ (c \in ticked \/ (Kind(n) = "parallel" /\ status[c] = "SUCCESS"))

\* A behaviour under way, of which child has not been ticked yet, which may run, which are done.
UnderWay(n) ==
    /\ Kind(n) \in Sequential =>
           /\ memo[n] \in DOMAIN Children(n)
           /\ \A j \in DOMAIN Children(n) :
                  j < memo[n] \/ (j > memo[n] /\ Kind(n) = "serial") => status[Children(n)[j]] # "RUNNING"
    /\ Kind(n) \in Concurrent =>
           /\ memo[n] \in 0..Len(Children(n))
           /\ \A j \in 1..(memo[n] - 1) : Done(n, Children(n)[j])
    /\ Kind(n) \notin Modifiers =>
           \A j \in DOMAIN Children(n) : j > memo[n] => Children(n)[j] \notin ticked

\* The child that has just returned to the behaviour that goes on.
ChildReturned ==
    started =>
        \/ Kind(Current) \in Concurrent /\ memo[Current] = 0
        \/ AtAChild(Current) /\ Done(Current, ComeTo(Current))

\* A one_of, or a modifier that ends with its child, runs only while its children do.
RunsWithChildren(n) ==
    \/ Kind(n) = "one_of"
    \/ Kind(n) \in Modifiers /\ EndsWithChild(Modifier(n[1], n[2]))

\* A behaviour that is not under way: nothing runs below it unless it runs; of a serial it is the
\* child it remembers; nothing below it was ticked unless it was; and when it was, what runs below
\* it was ticked too, and it is not a timeout past its end.
Settled(n) ==
    /\ \A c \in Kids(n) :
           /\ status[c] = "RUNNING" => status[n] = "RUNNING"
           /\ n \notin ticked => c \notin ticked
           /\ n \in ticked /\ status[c] = "RUNNING" => c \in ticked
           /\ n \in ticked /\ status[n] = "RUNNING" /\ RunsWithChildren(n) => status[c] = "RUNNING"
    /\ Kind(n) = "serial" /\ status[n] = "RUNNING" =>
           /\ memo[n] \in DOMAIN Children(n)
           /\ \A j \in DOMAIN Children(n) \ {memo[n]} : status[Children(n)[j]] # "RUNNING"
    /\ n \in ticked /\ status[n] = "RUNNING" /\ Kind(n) = "timeout" => now <= memo[n]

\* An event that was set before the tick: no wait for it goes on.
EventSeen ==
    \A n \in ticked :
        Kind(n) = "event" /\ Elements[n[1]].arg \in before => status[n] # "RUNNING"

\* Between two ticks: the root was ticked, or nothing was yet.
AtRest ==
    path = <<>> => IF Root \in ticked THEN status[Root] # "INVALID" ELSE status[Root] = "INVALID" /\ now = 0

\* The timeouts around the scenario that end it, and the latest end of each.
Timeouts ==
    {k \in DOMAIN Elements[scenario].modifiers :
        /\ Elements[scenario].modifiers[k].kind = "timeout"
        /\ \A j \in 1..(k - 1) : EndsWithChild(Elements[scenario].modifiers[j])}
Layer(k) == <<scenario, k>>
Latest(k) == MaxStep + Elements[scenario].modifiers[k].duration
TickedOrEntered(k) == Layer(k) \in ticked \cup Entered

\* A tick goes straight down to such a timeout.
StraightDown ==
    \A k \in Timeouts :
        path # <<>> /\ ~TickedOrEntered(k) =>
            /\ Len(path) <= k - Root[2] + 1
            /\ \A i \in 1..Len(path) : path[i] = Layer(Root[2] + i - 1)
            /\ started => Len(path) = 1 /\ Root[2] = 0 /\ memo[Root] = 0

\* Its end is fixed on the first tick, and it runs on since then.
Deadline ==
    \A k \in Timeouts :
        /\ TickedOrEntered(k) \/ status[Layer(k)] = "RUNNING" => memo[Layer(k)] <= Latest(k)
        /\ ~TickedOrEntered(k) /\ now > MaxStep => \A j \in Root[2]..k : status[Layer(j)] = "RUNNING"

\* No other scenario runs.
OthersRest == \A s \in Scenarios \ {scenario} : status[Outermost(s)] = "INVALID"

IInv ==
    /\ TypeOK /\ PathInv /\ ChildReturned
    /\ \A n \in Entered : UnderWay(n)
    /\ \A n \in Nodes \ Entered : Settled(n)
    /\ EventSeen /\ AtRest /\ OthersRest
    /\ StraightDown /\ Deadline
-----------------------------------------------------------------------------
(* The path, and what a stop reaches                                       *)

\* The members of the path are behaviours, the last is the current one, and the others have started.
LEMMA PathFacts ==
    ASSUME TypeOK, PathInv, path # <<>>
    PROVE  /\ Len(path) \in Nat \ {0} /\ path \in Seq(Nodes) /\ DOMAIN path = 1..Len(path)
           /\ \A k \in 1..Len(path) : path[k] \in Nodes
           /\ Current \in Nodes /\ Current = path[Len(path)] /\ Current \notin ticked
           /\ \A k \in 1..(Len(path) - 1) : path[k] \in Entered /\ path[k] # Current
           /\ \A n \in Entered : \E k \in 1..Len(path) : n = path[k]
           /\ started <=> Current \in Entered
           /\ \A n \in Entered \ {Current} : \E k \in 1..(Len(path) - 1) : n = path[k]
<1>1. path \in Seq(Nodes) /\ started \in BOOLEAN
  BY DEF TypeOK
<1>2. Len(path) \in Nat \ {0} /\ DOMAIN path = 1..Len(path)
  BY <1>1
<1>13. Len(path) \in Nat /\ Len(path) > 0
  BY <1>2
<1>3. \A k \in 1..Len(path) : path[k] \in Nodes
  BY <1>1, <1>2
<1>4. Current = path[Len(path)] /\ Current \in Nodes
  BY <1>2, <1>3 DEF Current
<1>5. Reached \in {Len(path), Len(path) - 1} /\ (started <=> Reached = Len(path))
  <2>1. started = TRUE \/ started = FALSE
    BY <1>1
  <2>2. Len(path) # Len(path) - 1
    BY <1>13
  <2> QED
    BY <2>1, <2>2 DEF Reached
<1>6. \A k \in 1..(Len(path) - 1) : path[k] \in Entered
  BY <1>2, <1>5 DEF Entered
<1>7. \A k \in 1..(Len(path) - 1) : path[k] # Current
  BY <1>2, <1>4 DEF PathInv
<1>8. \A n \in Entered : \E k \in 1..Len(path) : n = path[k]
  BY <1>2, <1>5 DEF Entered
<1>9. Current \notin ticked
  BY <1>2, <1>4 DEF PathInv
<1>10. started => Current \in Entered
  BY <1>2, <1>4, <1>5 DEF Entered
<1>11. ~started => Current \notin Entered
  BY <1>2, <1>5, <1>7 DEF Entered
<1>12. ASSUME NEW n \in Entered \ {Current} PROVE \E k \in 1..(Len(path) - 1) : n = path[k]
  <2>1. PICK k \in 1..Len(path) : n = path[k]
    BY <1>8
  <2>2. k # Len(path)
    BY <1>4, <2>1
  <2>3. k \in 1..(Len(path) - 1)
    BY <1>13, <2>2
  <2> QED
    BY <2>1, <2>3
<1> QED
  BY <1>1, <1>2, <1>3, <1>4, <1>6, <1>7, <1>8, <1>9, <1>10, <1>11, <1>12

\* Each member of the path but the first is the child of the one before it.
LEMMA PathSteps ==
    ASSUME TypeOK, PathInv, path # <<>>
    PROVE  /\ \A k \in 1..(Len(path) - 1) : path[k + 1] \in Kids(path[k])
           /\ \A n \in Nodes : Current \in Kids(n) => Len(path) > 1 /\ n = path[Len(path) - 1]
           /\ Current \notin Kids(Current)
           /\ path[1] = Root /\ Root \in Nodes
           /\ \A n \in Nodes : Root \notin Kids(n)
           /\ \A n \in Entered \ {Current} : AtAChild(n)
           /\ Len(path) = 1 => Current = Root
<1>0. /\ Len(path) \in Nat \ {0} /\ \A k \in 1..Len(path) : path[k] \in Nodes
      /\ Current \in Nodes /\ Current = path[Len(path)]
      /\ \A k \in 1..(Len(path) - 1) : path[k] \in Entered /\ path[k] # Current
      /\ \A n \in Entered \ {Current} : \E k \in 1..(Len(path) - 1) : n = path[k]
  BY PathFacts
<1>1. \A k \in 1..(Len(path) - 1) : path[k + 1] \in Kids(path[k])
  BY <1>0 DEF PathInv, AtAChild, ComeTo, Kids
<1>2. path[1] = Root
  BY DEF PathInv
<1>3. Root \in Nodes /\ \A n \in Nodes : Root \notin Kids(n)
  <2>1. scenario \in Scenarios
    BY DEF TypeOK
  <2>2. Root = Outermost(scenario)
    BY DEF Root
  <2>3. path[1] \in Nodes
    BY <1>0
  <2> QED
    BY <1>2, <2>1, <2>2, <2>3, ScenarioIsNoChild
<1>4. ASSUME NEW n \in Nodes, Current \in Kids(n) PROVE Len(path) > 1 /\ n = path[Len(path) - 1]
  <2>1. Len(path) # 1
    BY <1>0, <1>2, <1>3, <1>4
  <2>4. Len(path) \in Nat \ {0}
    BY <1>0
  <2>2. Len(path) > 1 /\ Len(path) - 1 \in 1..(Len(path) - 1) /\ (Len(path) - 1) + 1 = Len(path)
    BY <2>1, <2>4
  <2>3. Current \in Kids(path[Len(path) - 1]) /\ path[Len(path) - 1] \in Nodes
    BY <1>0, <1>1, <2>2
  <2> QED
    BY <1>4, <2>2, <2>3, OneParent
<1>5. Current \notin Kids(Current)
  <2>1. SUFFICES ASSUME Current \in Kids(Current) PROVE FALSE
    OBVIOUS
  <2>2. Len(path) > 1 /\ Current = path[Len(path) - 1]
    BY <1>0, <1>4, <2>1
  <2>3. Len(path) - 1 \in 1..(Len(path) - 1)
    BY <1>0, <2>2
  <2> QED
    BY <1>0, <2>2, <2>3
<1>6. \A n \in Entered \ {Current} : AtAChild(n)
  BY <1>0 DEF PathInv
<1>7. Len(path) = 1 => Current = Root
  BY <1>0, <1>2
<1> QED
  BY <1>1, <1>2, <1>3, <1>4, <1>5, <1>6, <1>7

\* What a stop of some children of the current behaviour reaches.
Below(roots) == {n \in Nodes : above[n] \cap roots # {}}

LEMMA BelowFacts ==
    ASSUME TypeOK, PathInv, path # <<>>, NEW roots, roots \subseteq Kids(Current)
    PROVE  /\ roots \subseteq Below(roots)
           /\ \A k \in 1..Len(path) : path[k] \notin Below(roots)
           /\ Current \notin Below(roots) /\ \A n \in Entered : n \notin Below(roots)
           /\ \A m \in Nodes : \A c \in Kids(m) : m \in Below(roots) => c \in Below(roots)
           /\ \A m \in Nodes \ {Current} : \A c \in Kids(m) : c \in Below(roots) => m \in Below(roots)
           /\ \A n \in Entered \ {Current} : \A c \in Kids(n) : c \notin Below(roots)
           /\ Root \notin Below(roots)
<1>0. /\ Len(path) \in Nat \ {0} /\ \A k \in 1..Len(path) : path[k] \in Nodes
      /\ Current \in Nodes /\ Current = path[Len(path)]
      /\ \A n \in Entered : \E k \in 1..Len(path) : n = path[k]
  BY PathFacts
<1>1. Kids(Current) \subseteq Nodes
  BY <1>0, ChildrenFacts
<1>2. roots \subseteq Below(roots)
  BY <1>1, AboveFacts DEF Below
<1>3. ASSUME NEW k \in 1..Len(path) PROVE path[k] \notin Below(roots)
  <2>1. SUFFICES ASSUME NEW c \in roots, c \in above[path[k]] PROVE FALSE
    BY DEF Below
  <2>2. PICK j \in 1..k : c = path[j]
    BY <2>1 DEF PathInv
  <2>3. j \in 1..Len(path) /\ k \in 1..Len(path)
    BY <1>0, <2>2
  <2>4. path[j] \in Kids(Current) /\ path[j] \in Nodes
    BY <1>0, <2>1, <2>2, <2>3
  <2>5. j # 1
    BY <1>0, <2>4, PathSteps
  <2>6. j - 1 \in 1..(Len(path) - 1) /\ (j - 1) + 1 = j /\ j - 1 \in 1..Len(path)
    BY <1>0, <2>3, <2>5
  <2>7. path[j] \in Kids(path[j - 1]) /\ path[j - 1] \in Nodes
    BY <1>0, <2>6, PathSteps
  <2>8. path[j - 1] = Current
    BY <1>0, <2>4, <2>7, OneParent
  <2>9. path[j - 1] # Current
    BY <2>6, PathFacts
  <2> QED
    BY <2>8, <2>9
<1>4. Current \notin Below(roots) /\ (\A n \in Entered : n \notin Below(roots)) /\ Root \notin Below(roots)
  <2>1. 1 \in 1..Len(path) /\ Len(path) \in 1..Len(path) /\ path[1] = Root
    BY <1>0, PathSteps
  <2> QED
    BY <1>0, <1>3, <2>1
<1>5. ASSUME NEW m \in Nodes, NEW c \in Kids(m), m \in Below(roots) PROVE c \in Below(roots)
  BY <1>5, AboveChild DEF Below
<1>6. ASSUME NEW m \in Nodes \ {Current}, NEW c \in Kids(m), c \in Below(roots) PROVE m \in Below(roots)
  <2>1. c \in Nodes /\ above[c] = {c} \cup above[m]
    BY <1>6, AboveChild
  <2>2. PICK r \in roots : r \in above[c]
    BY <1>6 DEF Below
  <2>3. r # c
    BY <1>0, <1>6, <2>2, OneParent
  <2> QED
    BY <2>1, <2>2, <2>3 DEF Below
<1>7. ASSUME NEW n \in Entered \ {Current}, NEW c \in Kids(n) PROVE c \notin Below(roots)
  <2>1. n \in Nodes
    BY <1>0
  <2> QED
    BY <1>4, <1>6, <2>1
<1> QED
  BY <1>2, <1>3, <1>4, <1>5, <1>6, <1>7
-----------------------------------------------------------------------------
(* A step of the tick, seen from the behaviours that do not take it        *)

\* Nothing changes but at the current behaviour and where it stops some of its children.
Quiet(roots) ==
    /\ path # <<>> /\ roots \subseteq Kids(Current)
    /\ \A n \in Nodes \ {Current} :
           /\ status'[n] = IF n \in Below(roots) THEN "INVALID" ELSE status[n]
           /\ memo'[n] = memo[n]
    /\ ticked \subseteq ticked' /\ ticked' \subseteq ticked \cup {Current}
    /\ UNCHANGED inputs

\* The children of a behaviour that is not under way do not change, unless they are stopped with it.
LEMMA ChildUntouched ==
    ASSUME IInv, NEW roots, Quiet(roots), NEW n \in Nodes, n # Current, n \notin Entered, NEW c \in Kids(n)
    PROVE  /\ c # Current /\ c \in Nodes /\ (c \in ticked' <=> c \in ticked)
           /\ status'[c] = (IF n \in Below(roots) THEN "INVALID" ELSE status[c])
<1>1. /\ TypeOK /\ PathInv /\ path # <<>> /\ roots \subseteq Kids(Current)
      /\ ticked \subseteq ticked' /\ ticked' \subseteq ticked \cup {Current}
  BY DEF IInv, Quiet
<1>2. c \in Nodes
  BY ChildrenFacts
<1>3. c # Current
  <2>1. SUFFICES ASSUME c = Current PROVE FALSE
    OBVIOUS
  <2>2. Len(path) > 1 /\ n = path[Len(path) - 1] /\ Len(path) \in Nat
    BY <1>1, <2>1, PathSteps, PathFacts
  <2>3. Len(path) - 1 \in 1..(Len(path) - 1)
    BY <2>2
  <2> QED
    BY <1>1, <2>2, <2>3, PathFacts
<1>4. c \in Below(roots) <=> n \in Below(roots)
  BY <1>1, BelowFacts
<1> QED
  BY <1>1, <1>2, <1>3, <1>4 DEF Quiet

\* A behaviour that is not under way stays settled.
LEMMA SettledStays ==
    ASSUME IInv, NEW roots, Quiet(roots), NEW n \in Nodes, n # Current, n \notin Entered
    PROVE  Settled(n)'
<1>1. /\ TypeOK /\ PathInv /\ path # <<>> /\ roots \subseteq Kids(Current) /\ Settled(n)
      /\ now' = now /\ ticked \subseteq ticked' /\ ticked' \subseteq ticked \cup {Current}
  BY DEF IInv, Quiet, inputs
<1>2. \A m \in Nodes \ {Current} :
          status'[m] = (IF m \in Below(roots) THEN "INVALID" ELSE status[m]) /\ memo'[m] = memo[m]
  BY DEF Quiet
<1>3. n \in ticked' <=> n \in ticked
  BY <1>1
<1>4. memo'[n] = memo[n] /\ (status'[n] = "RUNNING" => status[n] = "RUNNING" /\ n \notin Below(roots))
      /\ (n \notin Below(roots) => status'[n] = status[n])
  BY <1>2
<1>5. ASSUME NEW c \in Kids(n)
      PROVE  /\ c \in ticked' <=> c \in ticked
             /\ status'[c] = (IF n \in Below(roots) THEN "INVALID" ELSE status[c])
  BY ChildUntouched
<1>6. ASSUME NEW c \in Kids(n)
      PROVE  /\ status'[c] = "RUNNING" => status'[n] = "RUNNING"
             /\ n \notin ticked' => c \notin ticked'
             /\ n \in ticked' /\ status'[c] = "RUNNING" => c \in ticked'
             /\ n \in ticked' /\ status'[n] = "RUNNING" /\ RunsWithChildren(n) => status'[c] = "RUNNING"
  <2>1. /\ status[c] = "RUNNING" => status[n] = "RUNNING"
        /\ n \notin ticked => c \notin ticked
        /\ n \in ticked /\ status[c] = "RUNNING" => c \in ticked
        /\ n \in ticked /\ status[n] = "RUNNING" /\ RunsWithChildren(n) => status[c] = "RUNNING"
    BY <1>1 DEF Settled
  <2>2. status'[c] = "RUNNING" => status[c] = "RUNNING" /\ n \notin Below(roots)
    BY <1>5
  <2> QED
    BY <1>3, <1>4, <1>5, <2>1, <2>2
<1>7. ASSUME Kind(n) = "serial", status'[n] = "RUNNING"
      PROVE  /\ memo'[n] \in DOMAIN Children(n)
             /\ \A j \in DOMAIN Children(n) \ {memo'[n]} : status'[Children(n)[j]] # "RUNNING"
  <2>1. /\ memo[n] \in DOMAIN Children(n)
        /\ \A j \in DOMAIN Children(n) \ {memo[n]} : status[Children(n)[j]] # "RUNNING"
    BY <1>1, <1>4, <1>7 DEF Settled
  <2>2. \A j \in DOMAIN Children(n) : Children(n)[j] \in Kids(n)
    BY DEF Kids
  <2>3. \A c \in Kids(n) : status'[c] = "RUNNING" => status[c] = "RUNNING"
    BY <1>5
  <2> QED
    BY <1>4, <2>1, <2>2, <2>3
<1>8. n \in ticked' /\ status'[n] = "RUNNING" /\ Kind(n) = "timeout" => now' <= memo'[n]
  BY <1>1, <1>3, <1>4 DEF Settled
<1> QED
  BY <1>6, <1>7, <1>8 DEF Settled, RunsWithChildren

\* What holds of a behaviour under way still does while one below it takes a step.
LEMMA UnderWayStays ==
    ASSUME IInv, NEW roots, Quiet(roots), NEW n \in Nodes, n \in Entered, n # Current
    PROVE  /\ UnderWay(n)' /\ memo'[n] = memo[n]
           /\ \A j \in DOMAIN Children(n) : Children(n)[j] = Current => j = Place(n)
<1>1. /\ TypeOK /\ PathInv /\ path # <<>> /\ roots \subseteq Kids(Current) /\ UnderWay(n)
      /\ ticked \subseteq ticked' /\ ticked' \subseteq ticked \cup {Current}
  BY DEF IInv, Quiet
<1>2. \A m \in Nodes \ {Current} :
          status'[m] = (IF m \in Below(roots) THEN "INVALID" ELSE status[m]) /\ memo'[m] = memo[m]
  BY DEF Quiet
<1>3. memo'[n] = memo[n]
  BY <1>2
<1>4. ASSUME NEW j \in DOMAIN Children(n), Children(n)[j] = Current PROVE j = Place(n)
  <2>1. Current \in Kids(n)
    BY <1>4 DEF Kids
  <2>2. Len(path) > 1 /\ n = path[Len(path) - 1] /\ Len(path) \in Nat /\ Current = path[Len(path)]
    BY <1>1, <2>1, PathSteps, PathFacts
  <2>3. Len(path) - 1 \in 1..(Len(path) - 1) /\ (Len(path) - 1) + 1 = Len(path)
    BY <2>2
  <2>4. AtAChild(n) /\ Current = ComeTo(n)
    BY <1>1, <2>2, <2>3 DEF PathInv
  <2>5. Place(n) \in DOMAIN Children(n) /\ Children(n)[Place(n)] = Current
    BY <2>4 DEF AtAChild, ComeTo
  <2> QED
    BY <1>4, <2>5, ParentUnique
<1>5. ASSUME NEW j \in DOMAIN Children(n), j # Place(n)
      PROVE  /\ status'[Children(n)[j]] = status[Children(n)[j]]
             /\ Children(n)[j] \in ticked' <=> Children(n)[j] \in ticked
  <2>1. Children(n)[j] # Current /\ Children(n)[j] \in Kids(n) /\ Children(n)[j] \in Nodes
    BY <1>4, <1>5, ChildrenFacts DEF Kids
  <2>2. Children(n)[j] \notin Below(roots)
    BY <1>1, <2>1, BelowFacts
  <2> QED
    BY <1>1, <1>2, <2>1, <2>2
<1>6. /\ DOMAIN Children(n) = 1..Len(Children(n)) /\ Len(Children(n)) \in Nat
      /\ Kind(n) \in Sequential => Kind(n) \notin Modifiers
      /\ Kind(n) \in Concurrent => Kind(n) \notin Modifiers
      /\ Kind(n) \notin Modifiers => Place(n) = memo[n]
  BY ChildrenFacts DEF Place, Sequential, Concurrent, Modifiers
<1>7. ASSUME Kind(n) \in Sequential
      PROVE  /\ memo'[n] \in DOMAIN Children(n)
             /\ \A j \in DOMAIN Children(n) :
                    j < memo'[n] \/ (j > memo'[n] /\ Kind(n) = "serial") => status'[Children(n)[j]] # "RUNNING"
  <2>1. /\ memo[n] \in DOMAIN Children(n)
        /\ \A j \in DOMAIN Children(n) :
               j < memo[n] \/ (j > memo[n] /\ Kind(n) = "serial") => status[Children(n)[j]] # "RUNNING"
    BY <1>1, <1>7 DEF UnderWay
  <2>2. memo[n] \in Nat /\ \A j \in DOMAIN Children(n) : j \in Nat /\ (j < memo[n] \/ j > memo[n] => j # memo[n])
    BY <1>6, <2>1
  <2> QED
    BY <1>3, <1>5, <1>6, <1>7, <2>1, <2>2
<1>8. ASSUME Kind(n) \in Concurrent
      PROVE  /\ memo'[n] \in 0..Len(Children(n))
             /\ \A j \in 1..(memo'[n] - 1) : Done(n, Children(n)[j])'
  <2>1. memo[n] \in 0..Len(Children(n)) /\ \A j \in 1..(memo[n] - 1) : Done(n, Children(n)[j])
    BY <1>1, <1>8 DEF UnderWay
  <2>2. \A j \in 1..(memo[n] - 1) : j \in DOMAIN Children(n) /\ j # memo[n]
    BY <1>6, <2>1
  <2>3. ASSUME NEW j \in 1..(memo[n] - 1) PROVE Done(n, Children(n)[j])'
    BY <1>1, <1>5, <1>6, <1>8, <2>1, <2>2 DEF Done
  <2> QED
    BY <1>3, <2>1, <2>3
<1>9. ASSUME Kind(n) \notin Modifiers, NEW j \in DOMAIN Children(n), j > memo'[n]
      PROVE  Children(n)[j] \notin ticked'
  <2>1. Children(n)[j] \notin ticked /\ j # memo[n]
    <3>1. memo[n] \in Nat /\ j \in Nat
      BY <1>1, <1>6 DEF TypeOK
    <3> QED
      BY <1>1, <1>3, <1>9, <3>1 DEF UnderWay
  <2> QED
    BY <1>5, <1>6, <1>9, <2>1
<1> QED
  BY <1>3, <1>4, <1>7, <1>8, <1>9 DEF UnderWay

\* No wait for an event that was set goes on, if the current one does not.
LEMMA EventSeenStays ==
    ASSUME IInv, NEW roots, Quiet(roots), NEW c \in Nodes, c = Current,
           Kind(c) = "event" /\ Elements[c[1]].arg \in before /\ c \in ticked' => status'[c] # "RUNNING"
    PROVE  EventSeen'
<1>1. ticked' \subseteq ticked \cup {c} /\ before' = before /\ ticked \subseteq Nodes
  BY DEF IInv, TypeOK, Quiet, inputs
<1>2. \A n \in Nodes \ {c} : status'[n] = "RUNNING" => status[n] = "RUNNING"
  BY DEF Quiet
<1>3. EventSeen
  BY DEF IInv
<1>4. ASSUME NEW n \in ticked', Kind(n) = "event", Elements[n[1]].arg \in before
      PROVE  status'[n] # "RUNNING"
  <2>1. CASE n = c
    BY <1>4, <2>1
  <2>2. CASE n # c
    BY <1>1, <1>2, <1>3, <1>4, <2>2 DEF EventSeen
  <2> QED
    BY <2>1, <2>2
<1> QED
  BY <1>1, <1>4 DEF EventSeen

\* The other scenarios stay at rest.
LEMMA OthersRestStay ==
    ASSUME IInv, NEW roots, Quiet(roots)
    PROVE  OthersRest'
<1>1. TypeOK /\ PathInv /\ path # <<>> /\ OthersRest /\ scenario' = scenario
  BY DEF IInv, Quiet, inputs
<1>2. SUFFICES ASSUME NEW s \in Scenarios, s # scenario PROVE status'[Outermost(s)] = "INVALID"
  BY <1>1 DEF OthersRest
<1>3. Outermost(s) \in Nodes /\ \A n \in Nodes : Outermost(s) \notin Kids(n)
  <2>1. Current \in Nodes
    BY <1>1, PathFacts
  <2> QED
    BY <2>1, ScenarioIsNoChild
<1>4. Outermost(s) # Current
  <2>1. CASE Len(path) = 1
    <3>1. Current = Outermost(scenario)
      BY <1>1, <2>1, PathSteps DEF Root
    <3>2. Outermost(s) = <<s, Outermost(s)[2]>> /\ Outermost(scenario) = <<scenario, Outermost(scenario)[2]>>
      BY <1>1, TreeAssumption, LayerFacts DEF TypeOK
    <3> QED
      BY <1>2, <3>1, <3>2
  <2>2. CASE Len(path) # 1
    <3>0. Len(path) \in Nat \ {0}
      BY <1>1, PathFacts
    <3>1. Len(path) - 1 \in 1..(Len(path) - 1) /\ (Len(path) - 1) + 1 = Len(path) /\ Len(path) - 1 \in 1..Len(path)
      BY <2>2, <3>0
    <3>2. path[Len(path)] \in Kids(path[Len(path) - 1]) /\ path[Len(path) - 1] \in Nodes /\ Current = path[Len(path)]
      BY <1>1, <3>1, PathSteps, PathFacts
    <3> QED
      BY <1>3, <3>2
  <2> QED
    BY <2>1, <2>2
<1>5. status[Outermost(s)] = "INVALID"
  BY <1>1, <1>2 DEF OthersRest
<1> QED
  BY <1>3, <1>4, <1>5 DEF Quiet
-----------------------------------------------------------------------------
(* The kinds of step                                                       *)

\* A sequence without its last member.
LEMMA SubSeqFacts ==
    ASSUME NEW S, NEW s \in Seq(S), s # <<>>
    PROVE  /\ SubSeq(s, 1, Len(s) - 1) \in Seq(S)
           /\ Len(SubSeq(s, 1, Len(s) - 1)) = Len(s) - 1
           /\ \A k \in 1..(Len(s) - 1) : SubSeq(s, 1, Len(s) - 1)[k] = s[k]
<1> DEFINE l == Len(s) - 1
<1>1. l \in Nat /\ \A k \in 1..l : s[k] \in S
  OBVIOUS
<1> HIDE DEF l
<1>2. l \in Int /\ 1 \in Int
  BY <1>1
<1>3. /\ SubSeq(s, 1, l) \in Seq(S)
      /\ Len(SubSeq(s, 1, l)) = IF 1 <= l THEN l - 1 + 1 ELSE 0
      /\ \A k \in 1..(l - 1 + 1) : SubSeq(s, 1, l)[k] = s[1 + k - 1]
  BY <1>1, <1>2, SubSeqProperties
<1>4. l - 1 + 1 = l /\ (~(1 <= l) => l = 0) /\ \A k \in 1..l : 1 + k - 1 = k
  BY <1>1
<1>5. Len(SubSeq(s, 1, l)) = l
  BY <1>3, <1>4
<1>6. \A k \in 1..l : SubSeq(s, 1, l)[k] = s[k]
  BY <1>3, <1>4
<1> QED
  BY <1>3, <1>5, <1>6 DEF l

\* The scenario's root, its timeouts and their layers.
LEMMA LayersOfTheScenario ==
    ASSUME TypeOK
    PROVE  /\ scenario \in DOMAIN Elements
           /\ Root[1] = scenario /\ Root = Layer(Root[2]) /\ Root[2] \in {0, 1} /\ Root \in Nodes
           /\ \A k \in Timeouts :
                  /\ k \in 1..(Innermost(scenario) - 1) /\ k \in Nat /\ Root[2] <= k
                  /\ Kind(Layer(k)) = "timeout" /\ Layer(k) \in Nodes
                  /\ Elements[scenario].modifiers[k].duration \in Nat /\ Latest(k) \in Nat
                  /\ \A j \in Root[2]..(k - 1) :
                         /\ Layer(j) \in Nodes /\ RunsWithChildren(Layer(j))
                         /\ Kind(Layer(j)) = IF j = 0 THEN "one_of" ELSE Modifier(scenario, j).kind
                         /\ j # 0 => Kind(Layer(j)) \in Modifiers
                         /\ Children(Layer(j))[1] = Layer(j + 1) /\ 1 \in DOMAIN Children(Layer(j))
<1>1. scenario \in DOMAIN Elements
  BY TreeAssumption DEF TypeOK
<1>2. /\ Root = <<scenario, Root[2]>> /\ Root[2] \in {0, 1} /\ Innermost(scenario) \in Nat \ {0}
      /\ Root[2] = Outermost(scenario)[2] /\ Root \in Nodes
  BY <1>1, LayerFacts, OutermostIsNode DEF Root
<1>3. ASSUME NEW k \in Timeouts
      PROVE  /\ k \in 1..(Innermost(scenario) - 1) /\ k \in Nat /\ Root[2] <= k
             /\ Modifier(scenario, k).kind = "timeout" /\ Layer(k) \in Nodes
             /\ Elements[scenario].modifiers[k].duration \in Nat /\ Latest(k) \in Nat
             /\ \A j \in 1..(k - 1) : EndsWithChild(Modifier(scenario, j))
  <2>1. /\ k \in DOMAIN Elements[scenario].modifiers
        /\ Elements[scenario].modifiers[k].kind = "timeout"
        /\ \A j \in 1..(k - 1) : EndsWithChild(Elements[scenario].modifiers[j])
    BY DEF Timeouts
  <2>2. DOMAIN Elements[scenario].modifiers = 1..Len(Elements[scenario].modifiers)
        /\ Len(Elements[scenario].modifiers) \in Nat
    BY <1>1, ElementFacts
  <2>3. k \in 1..Len(Elements[scenario].modifiers)
    BY <2>1, <2>2
  <2>4. Innermost(scenario) = Len(Elements[scenario].modifiers) + 1
    BY DEF Innermost
  <2>5. k \in 1..(Innermost(scenario) - 1) /\ k \in Nat /\ Root[2] <= k /\ k <= Innermost(scenario)
    BY <1>2, <2>2, <2>3, <2>4
  <2>6. <<scenario, k>> \in Nodes
    BY <1>1, <1>2, <2>5, IsNode
  <2>7. Elements[scenario].modifiers[k].duration \in Nat
    BY <1>1, <2>1, <2>5, ModifierFacts DEF Modifier
  <2>8. MaxStep \in Nat
    BY TreeAssumption
  <2>9. Latest(k) \in Nat
    BY <2>7, <2>8 DEF Latest
  <2> QED
    BY <2>1, <2>5, <2>6, <2>7, <2>9 DEF Layer, Modifier
<1>4. ASSUME NEW l \in Nat, Root[2] <= l, l <= Innermost(scenario)
      PROVE  Layer(l) \in Nodes /\ Layer(l)[1] = scenario /\ Layer(l)[2] = l
  BY <1>1, <1>2, <1>4, IsNode DEF Layer
<1>5. ASSUME NEW k \in Timeouts
      PROVE  Kind(Layer(k)) = "timeout"
  <2>1. k \in 1..(Innermost(scenario) - 1) /\ Modifier(scenario, k).kind = "timeout" /\ Root[2] <= k /\ k \in Nat
        /\ Layer(k) \in Nodes
    BY <1>3
  <2>2. Layer(k)[1] = scenario /\ Layer(k)[2] = k
    BY DEF Layer
  <2> QED
    BY <2>1, <2>2, ModifierShape
<1>6. ASSUME NEW k \in Timeouts, NEW j \in Root[2]..(k - 1)
      PROVE  /\ Layer(j) \in Nodes /\ RunsWithChildren(Layer(j))
             /\ Kind(Layer(j)) = IF j = 0 THEN "one_of" ELSE Modifier(scenario, j).kind
             /\ j # 0 => Kind(Layer(j)) \in Modifiers
             /\ Children(Layer(j))[1] = Layer(j + 1) /\ 1 \in DOMAIN Children(Layer(j))
  <2>1. k \in 1..(Innermost(scenario) - 1) /\ k \in Nat
        /\ \A i \in 1..(k - 1) : EndsWithChild(Modifier(scenario, i))
    BY <1>3
  <2>2. j \in Nat /\ Root[2] <= j /\ j <= Innermost(scenario) /\ j <= k - 1 /\ j <= Innermost(scenario) - 1
    BY <1>2, <2>1
  <2>3. Layer(j) \in Nodes /\ Layer(j)[1] = scenario /\ Layer(j)[2] = j
    BY <1>4, <2>2
  <2>4. CASE j = 0
    <3>1. /\ Kind(Layer(j)) = "one_of" /\ Children(Layer(j))[1] = <<scenario, 1>>
          /\ DOMAIN Children(Layer(j)) = 1..Len(Children(Layer(j)))
          /\ Len(Children(Layer(j))) = Len(Elements[scenario].untils) + 1
          /\ Elements[scenario].untils \in Seq(DOMAIN Elements)
      BY <2>3, <2>4, UntilShape
    <3>2. 1 \in DOMAIN Children(Layer(j))
      BY <3>1
    <3>3. Layer(j + 1) = <<scenario, 1>>
      BY <2>4 DEF Layer
    <3> QED
      BY <2>3, <2>4, <3>1, <3>2, <3>3 DEF RunsWithChildren
  <2>5. CASE j # 0
    <3>1. j \in 1..(Innermost(scenario) - 1) /\ j \in 1..(k - 1)
      BY <1>2, <2>1, <2>2, <2>5
    <3>2. /\ Kind(Layer(j)) = Modifier(scenario, j).kind /\ Kind(Layer(j)) \in Modifiers
          /\ Children(Layer(j)) = <<<<scenario, j + 1>>>>
      BY <2>3, <3>1, ModifierShape
    <3>3. EndsWithChild(Modifier(scenario, j))
      BY <2>1, <3>1
    <3>4. Children(Layer(j))[1] = Layer(j + 1) /\ 1 \in DOMAIN Children(Layer(j))
      BY <3>2 DEF Layer
    <3> QED
      BY <2>3, <2>5, <3>2, <3>3, <3>4 DEF RunsWithChildren
  <2> QED
    BY <2>4, <2>5
<1> QED
  BY <1>1, <1>2, <1>3, <1>5, <1>6 DEF Layer

\* While a tick goes down to a timeout, the current behaviour is a layer outside it.
LEMMA WhileStraightDown ==
    ASSUME IInv, path # <<>>, NEW k \in Timeouts, ~TickedOrEntered(k), Current # Layer(k)
    PROVE  /\ Root[2] + Len(path) - 1 \in Root[2]..(k - 1)
           /\ Current = Layer(Root[2] + Len(path) - 1)
           /\ started => Len(path) = 1 /\ Root[2] = 0 /\ memo[Root] = 0
<1>1. TypeOK /\ PathInv /\ StraightDown
  BY DEF IInv
<1>2. Len(path) \in Nat \ {0} /\ Current = path[Len(path)]
  BY <1>1, PathFacts
<1>3. k \in Nat /\ Root[2] \in {0, 1}
  BY <1>1, LayersOfTheScenario
<1>4. /\ Len(path) <= k - Root[2] + 1
      /\ \A i \in 1..Len(path) : path[i] = Layer(Root[2] + i - 1)
      /\ started => Len(path) = 1 /\ Root[2] = 0 /\ memo[Root] = 0
  BY <1>1 DEF StraightDown
<1>5. Len(path) \in 1..Len(path)
  BY <1>2
<1>6. Current = Layer(Root[2] + Len(path) - 1)
  BY <1>2, <1>4, <1>5
<1>7. Root[2] + Len(path) - 1 # k
  BY <1>6
<1> QED
  BY <1>2, <1>3, <1>4, <1>6, <1>7

\* No behaviour is of two kinds.
LEMMA KindsApart ==
    /\ Leaves \cap Modifiers = {} /\ Leaves \cap Concurrent = {} /\ Leaves \cap Sequential = {}
    /\ Sequential \cap Concurrent = {} /\ Sequential \cap Modifiers = {} /\ Concurrent \cap Modifiers = {}
    /\ "one_of" \in Concurrent /\ "parallel" \in Concurrent /\ "serial" \in Sequential /\ "guarded" \in Sequential
    /\ "timeout" \in Modifiers /\ "timeout" \notin Leaves /\ "one_of" \notin Leaves
    /\ "event" \in Leaves
BY DEF Leaves, Modifiers, Concurrent, Sequential

\* The current behaviour returns to the one above it.
LEMMA ReturnStep ==
    ASSUME IInv, TypeOK', NEW roots, Quiet(roots), NEW c \in Nodes, c = Current,
           path' = SubSeq(path, 1, Len(path) - 1), started' = (Len(path) > 1), ticked' = ticked \cup {c},
           status'[c] # "INVALID", Settled(c)',
           Kind(c) = "event" /\ Elements[c[1]].arg \in before => status'[c] # "RUNNING",
           Kind(c) = "timeout" => memo'[c] = memo[c],
           Kind(c) \in Leaves \/ (started /\ ~(Kind(c) = "one_of" /\ memo[c] = 0))
    PROVE  IInv'
<1>1. /\ TypeOK /\ PathInv /\ path # <<>> /\ OthersRest /\ Deadline
      /\ scenario' = scenario /\ now' = now /\ before' = before
  BY DEF IInv, Quiet, inputs
<1>2. /\ Len(path) \in Nat \ {0} /\ path \in Seq(Nodes) /\ \A k \in 1..Len(path) : path[k] \in Nodes
      /\ c = path[Len(path)] /\ c \notin ticked
      /\ \A k \in 1..(Len(path) - 1) : path[k] \in Entered /\ path[k] # c
      /\ \A n \in Entered \ {c} : \E k \in 1..(Len(path) - 1) : n = path[k]
      /\ started => c \in Entered
  BY <1>1, PathFacts
<1>3. path' \in Seq(Nodes) /\ Len(path') = Len(path) - 1 /\ \A k \in 1..(Len(path) - 1) : path'[k] = path[k]
  BY <1>1, <1>2, SubSeqFacts
<1>17. Len(path) \in Nat /\ Len(path) > 0 /\ Len(path') = Len(path) - 1 /\ (path' = <<>> => Len(path') = 0)
  <2>1. Len(path) \in Nat \ {0}
    BY <1>2
  <2>2. Len(path') = Len(path) - 1
    BY <1>3
  <2>3. path' = <<>> => Len(path') = 0
    OBVIOUS
  <2> QED
    BY <2>1, <2>2, <2>3
<1>18. (started' => Len(path) > 1) /\ (Len(path) = 1 => ~started') /\ (Len(path) > 1 => started')
  <2>1. Len(path) = 1 => ~(Len(path) > 1)
    BY <1>17
  <2> QED
    BY <2>1, Zenon
<1>4. Entered' = {path[k] : k \in 1..(Len(path) - 1)}
  <2>1. CASE Len(path) = 1
    <3>1. Reached' = -1
      <4>1. Reached' = Len(path') - 1
        BY <1>18, <2>1 DEF Reached
      <4> QED
        BY <1>17, <2>1, <4>1
    <3>2. 1..Reached' = {} /\ 1..(Len(path) - 1) = {}
      BY <2>1, <3>1
    <3> QED
      BY <3>2 DEF Entered
  <2>2. CASE Len(path) # 1
    <3>1. Len(path) > 1
      BY <1>17, <2>2
    <3>2. Reached' = Len(path) - 1
      BY <1>3, <3>1 DEF Reached
    <3> QED
      BY <1>3, <3>2 DEF Entered
  <2> QED
    BY <2>1, <2>2
<1>5. /\ \A n \in Entered' : n \in Entered /\ n # c /\ n \in Nodes
      /\ \A n \in Entered : n # c => n \in Entered'
  BY <1>2, <1>4
<1>6. \A n \in Entered' : UnderWay(n)' /\ memo'[n] = memo[n]
  BY <1>5, UnderWayStays
<1>7. \A n \in Nodes \ Entered' : Settled(n)'
  BY <1>5, SettledStays
<1>8. Root' = Root
  BY <1>1 DEF Root
<1>9. \A k \in 1..(Len(path) - 1) : AtAChild(path[k]) /\ path[k + 1] = ComeTo(path[k])
                                    /\ AtAChild(path[k])' /\ ComeTo(path[k])' = ComeTo(path[k])
  <2>1. SUFFICES ASSUME NEW k \in 1..(Len(path) - 1)
                 PROVE  AtAChild(path[k]) /\ path[k + 1] = ComeTo(path[k])
                        /\ AtAChild(path[k])' /\ ComeTo(path[k])' = ComeTo(path[k])
    OBVIOUS
  <2>2. path'[k] = path[k] /\ path[k] \in Entered'
    BY <1>3, <1>4
  <2>3. memo'[path[k]] = memo[path[k]]
    BY <1>6, <2>2
  <2>4. AtAChild(path[k]) /\ path[k + 1] = ComeTo(path[k])
    BY <1>1 DEF PathInv
  <2> QED
    BY <2>2, <2>3, <2>4 DEF AtAChild, ComeTo, Place
<1>10. PathInv'
  <2>1. started' => path' # <<>>
    BY <1>17, <1>18
  <2>2. path' # <<>> => path'[1] = Root'
    <3>1. SUFFICES ASSUME path' # <<>> PROVE path'[1] = Root
      BY <1>8
    <3>2. 1 \in 1..(Len(path) - 1)
      BY <1>2, <1>3, <3>1
    <3> QED
      BY <1>1, <1>3, <3>2 DEF PathInv
  <2>3. \A k \in 1..(Len(path') - 1) : AtAChild(path[k])' /\ path'[k + 1] = ComeTo(path[k])'
    <3>1. SUFFICES ASSUME NEW k \in 1..(Len(path') - 1)
                   PROVE  AtAChild(path[k])' /\ path'[k + 1] = ComeTo(path[k])'
      OBVIOUS
    <3>2. k \in 1..(Len(path) - 1) /\ k + 1 \in 1..(Len(path) - 1)
      BY <1>2, <1>3
    <3> QED
      BY <1>3, <1>9, <3>2
  <2>4. \A j, k \in 1..Len(path') : path'[j] = path'[k] => j = k
    <3>1. \A j \in 1..Len(path') : j \in 1..Len(path) /\ path'[j] = path[j]
      BY <1>2, <1>3
    <3> QED
      BY <1>1, <3>1 DEF PathInv
  <2>5. \A k \in 1..Len(path') : above[path'[k]] = {path'[j] : j \in 1..k} /\ path'[k] \notin ticked'
    <3>1. SUFFICES ASSUME NEW k \in 1..Len(path')
                   PROVE  above[path'[k]] = {path'[j] : j \in 1..k} /\ path'[k] \notin ticked'
      OBVIOUS
    <3>2. k \in 1..Len(path) /\ k \in 1..(Len(path) - 1) /\ \A j \in 1..k : j \in 1..(Len(path) - 1)
      BY <1>2, <1>3
    <3>3. above[path[k]] = {path[j] : j \in 1..k} /\ path[k] \notin ticked
      BY <1>1, <3>2 DEF PathInv
    <3>4. path'[k] = path[k] /\ \A j \in 1..k : path'[j] = path[j]
      BY <1>3, <3>2
    <3>5. path[k] # c
      BY <1>2, <3>2
    <3> QED
      BY <3>3, <3>4, <3>5
  <2> QED
    BY <2>1, <2>2, <2>3, <2>4, <2>5 DEF PathInv
<1>11. ChildReturned'
  <2>1. SUFFICES ASSUME started' PROVE AtAChild(Current)' /\ Done(Current, ComeTo(Current))'
    BY DEF ChildReturned
  <2>2. Len(path) - 1 \in 1..(Len(path) - 1) /\ (Len(path) - 1) + 1 = Len(path)
    BY <1>17, <1>18, <2>1
  <2>3. Current' = path[Len(path) - 1] /\ path'[Len(path) - 1] = path[Len(path) - 1]
    BY <1>3, <2>2 DEF Current
  <2>5. PICK n \in Nodes : n = path[Len(path) - 1]
    BY <1>2, <2>2
  <2>6. path'[Len(path')] = n /\ Current' = n
    BY <1>3, <2>2, <2>3, <2>5
  <2>7. memo'[n] = memo[n]
    BY <1>4, <1>6, <2>2, <2>5
  <2>8. AtAChild(n) /\ ComeTo(n) = c
    BY <1>2, <1>9, <2>2, <2>5
  <2>9. AtAChild(n)' /\ ComeTo(n)' = c
    BY <2>7, <2>8 DEF AtAChild, ComeTo, Place
  <2>10. Done(n, c)'
    BY DEF Done
  <2> QED
    BY <2>6, <2>9, <2>10 DEF AtAChild, ComeTo, Place, Done
<1>12. EventSeen' /\ OthersRest'
  BY EventSeenStays, OthersRestStay
<1>13. AtRest'
  <2>1. SUFFICES ASSUME path' = <<>> PROVE Root' \in ticked' /\ status'[Root'] # "INVALID"
    BY DEF AtRest
  <2>2. Len(path) = 1
    BY <1>17, <2>1
  <2>3. c = Root
    BY <1>1, <1>2, <2>2, PathSteps
  <2> QED
    BY <1>8, <2>3
<1>14. Timeouts' = Timeouts
  BY <1>1 DEF Timeouts
<1>15. ASSUME NEW k \in Timeouts
       PROVE  TickedOrEntered(k)' /\ memo'[Layer(k)] <= Latest(k)
  <2>1. /\ Layer(k) \in Nodes /\ Kind(Layer(k)) = "timeout"
        /\ Layer(k) \in ticked \cup Entered => memo[Layer(k)] <= Latest(k)
    BY <1>1, LayersOfTheScenario DEF Deadline, TickedOrEntered
  <2>2. CASE c = Layer(k)
    BY <1>1, <1>2, <2>1, <2>2, KindsApart DEF TickedOrEntered, Layer
  <2>3. CASE c # Layer(k)
    <3>1. ASSUME ~TickedOrEntered(k) PROVE FALSE
      <4>1. /\ Root[2] + Len(path) - 1 \in Root[2]..(k - 1)
            /\ c = Layer(Root[2] + Len(path) - 1)
            /\ started => Len(path) = 1 /\ Root[2] = 0 /\ memo[Root] = 0
        BY <1>1, <2>3, <3>1, WhileStraightDown
      <4> DEFINE j == Root[2] + Len(path) - 1
      <4>2. Kind(c) = (IF j = 0 THEN "one_of" ELSE Modifier(scenario, j).kind)
            /\ (j # 0 => Kind(c) \in Modifiers) /\ Root = Layer(Root[2])
        BY <1>1, <4>1, LayersOfTheScenario
      <4>3. Kind(c) \notin Leaves
        BY <4>2, KindsApart
      <4>4. Len(path) = 1 /\ Root[2] = 0 /\ memo[Root] = 0
        BY <4>1, <4>3
      <4>5. j = 0 /\ c = Root
        BY <4>1, <4>2, <4>4
      <4> QED
        BY <4>2, <4>3, <4>4, <4>5
    <3>2. Layer(k) \in ticked \cup Entered
      BY <3>1 DEF TickedOrEntered
    <3>3. Layer(k) \in ticked' \cup Entered'
      BY <1>5, <2>3, <3>2
    <3>4. memo'[Layer(k)] = memo[Layer(k)]
      BY <2>1, <2>3 DEF Quiet
    <3> QED
      BY <1>1, <2>1, <3>2, <3>3, <3>4 DEF TickedOrEntered, Layer
  <2> QED
    BY <2>2, <2>3
<1>16. StraightDown' /\ Deadline'
  BY <1>1, <1>14, <1>15 DEF StraightDown, Deadline, TickedOrEntered, Layer, Latest
<1> QED
  BY <1>6, <1>7, <1>10, <1>11, <1>12, <1>13, <1>16 DEF IInv

\* The current behaviour starts or goes on: what holds of the others, and of the timeouts around it.
LEMMA GoingDown ==
    ASSUME IInv, NEW roots, Quiet(roots), NEW c \in Nodes, c = Current,
           ticked' = ticked, status'[c] = status[c], Entered' = {path[k] : k \in 1..Len(path)},
           UnderWay(c)', roots = {} \/ status[c] # "RUNNING",
           Kind(c) = "timeout" =>
               ~started /\ memo'[c] = IF status[c] # "RUNNING" THEN now + Modifier(c[1], c[2]).duration ELSE memo[c]
    PROVE  /\ \A n \in Entered' : UnderWay(n)'
           /\ \A n \in Nodes \ Entered' : Settled(n)'
           /\ EventSeen' /\ OthersRest' /\ Deadline'
           /\ Root' = Root /\ Timeouts' = Timeouts
           /\ \A n : n \in Entered' <=> n \in Entered \/ n = c
<1>1. /\ TypeOK /\ PathInv /\ path # <<>> /\ OthersRest /\ Deadline /\ EventSeen
      /\ scenario' = scenario /\ now' = now /\ before' = before
  BY DEF IInv, Quiet, inputs
<1>2. /\ \A k \in 1..Len(path) : path[k] \in Nodes
      /\ c = path[Len(path)] /\ c \notin ticked
      /\ \A k \in 1..(Len(path) - 1) : path[k] \in Entered
      /\ \A n \in Entered : \E k \in 1..Len(path) : n = path[k]
      /\ started <=> c \in Entered
  BY <1>1, PathFacts
<1>3. Len(path) \in Nat /\ Len(path) > 0
  <2>1. Len(path) \in Nat \ {0}
    BY <1>1, PathFacts
  <2> QED
    BY <2>1
<1>4. \A n : n \in Entered' <=> n \in Entered \/ n = c
  <2>1. ASSUME NEW n, n \in Entered' PROVE n \in Entered \/ n = c
    <3>1. PICK k \in 1..Len(path) : n = path[k]
      BY <2>1
    <3>2. k = Len(path) \/ k \in 1..(Len(path) - 1)
      BY <1>3
    <3> QED
      BY <1>2, <3>1, <3>2
  <2>2. Len(path) \in 1..Len(path)
    BY <1>3
  <2>3. c \in Entered'
    BY <1>2, <2>2
  <2>4. \A n \in Entered : n \in Entered'
    BY <1>2
  <2> QED
    BY <2>1, <2>3, <2>4
<1>5. \A n \in Entered' : UnderWay(n)'
  <2>1. ASSUME NEW n \in Entered', n # c PROVE UnderWay(n)'
    <3>1. n \in Entered /\ n \in Nodes
      BY <1>2, <1>4, <2>1
    <3> QED
      BY <2>1, <3>1, UnderWayStays
  <2> QED
    BY <2>1
<1>6. \A n \in Nodes \ Entered' : Settled(n)'
  BY <1>4, SettledStays
<1>7. EventSeen'
  <2>1. Kind(c) = "event" /\ Elements[c[1]].arg \in before /\ c \in ticked' => status'[c] # "RUNNING"
    BY <1>2
  <2> QED
    BY <2>1, EventSeenStays
<1>8. OthersRest'
  BY OthersRestStay
<1>9. Root' = Root /\ Timeouts' = Timeouts
  BY <1>1 DEF Root, Timeouts
<1>10. \A n \in Nodes : status'[n] = "RUNNING" => status[n] = "RUNNING"
  BY DEF Quiet
<1>11. ASSUME NEW k \in Timeouts
       PROVE  /\ TickedOrEntered(k)' \/ status'[Layer(k)] = "RUNNING" => memo'[Layer(k)] <= Latest(k)
              /\ ~TickedOrEntered(k)' /\ now > MaxStep => \A j \in Root[2]..k : status'[Layer(j)] = "RUNNING"
  <2>1. /\ Layer(k) \in Nodes /\ Kind(Layer(k)) = "timeout" /\ k \in Nat /\ Root[2] <= k /\ Root[2] \in {0, 1}
        /\ Elements[scenario].modifiers[k].duration \in Nat /\ Root = Layer(Root[2])
    BY <1>1, LayersOfTheScenario
  <2>2. /\ TickedOrEntered(k) \/ status[Layer(k)] = "RUNNING" => memo[Layer(k)] <= Latest(k)
        /\ ~TickedOrEntered(k) /\ now > MaxStep => \A j \in Root[2]..k : status[Layer(j)] = "RUNNING"
    BY <1>1 DEF Deadline
  <2>3. TickedOrEntered(k)' <=> TickedOrEntered(k) \/ Layer(k) = c
    BY <1>1, <1>4 DEF TickedOrEntered, Layer
  <2>4. CASE Layer(k) = c
    <3>1. ~TickedOrEntered(k) /\ TickedOrEntered(k)'
      BY <1>2, <2>1, <2>3, <2>4 DEF TickedOrEntered
    <3>2. memo'[Layer(k)] <= Latest(k)
      <4>1. CASE status[c] = "RUNNING"
        <5>1. memo'[c] = memo[c]
          BY <2>1, <2>4, <4>1
        <5> QED
          BY <2>2, <2>4, <4>1, <5>1
      <4>2. CASE status[c] # "RUNNING"
        <5>1. memo'[c] = now + Modifier(c[1], c[2]).duration
          BY <2>1, <2>4, <4>2
        <5>2. c[1] = scenario /\ c[2] = k
          BY <2>4 DEF Layer
        <5>3. k \in Root[2]..k
          BY <2>1
        <5>4. ~(now > MaxStep)
          BY <2>2, <2>4, <3>1, <4>2, <5>3
        <5>5. now \in Nat /\ MaxStep \in Nat /\ MaxNow \in Nat
          BY <1>1, TreeAssumption DEF TypeOK
        <5>6. now <= MaxStep
          BY <5>4, <5>5
        <5> QED
          BY <2>1, <2>4, <5>1, <5>2, <5>5, <5>6 DEF Latest, Modifier
      <4> QED
        BY <4>1, <4>2
    <3> QED
      BY <3>1, <3>2
  <2>5. CASE Layer(k) # c
    <3>1. memo'[Layer(k)] = memo[Layer(k)] /\ (TickedOrEntered(k)' <=> TickedOrEntered(k))
      BY <2>1, <2>3, <2>5 DEF Quiet
    <3>2. ASSUME ~TickedOrEntered(k), now > MaxStep, NEW j \in Root[2]..k
          PROVE  status'[Layer(j)] = "RUNNING"
      <4>1. Root[2] + Len(path) - 1 \in Root[2]..k /\ c = Layer(Root[2] + Len(path) - 1)
        BY <1>1, <1>3, <2>1, <2>5, <3>2, WhileStraightDown
      <4>2. status[c] = "RUNNING" /\ status[Layer(j)] = "RUNNING"
        BY <2>2, <3>2, <4>1
      <4>3. Below(roots) = {}
        BY <4>2 DEF Below
      <4>4. Layer(j) \in Nodes
        <5>1. j = k \/ j \in Root[2]..(k - 1)
          BY <2>1
        <5> QED
          BY <1>1, <2>1, <5>1, LayersOfTheScenario
      <4> QED
        BY <4>2, <4>3, <4>4 DEF Quiet
    <3> QED
      BY <1>10, <2>1, <2>2, <3>1, <3>2
  <2> QED
    BY <2>4, <2>5
<1>12. Deadline'
  BY <1>1, <1>9, <1>11 DEF Deadline, TickedOrEntered, Layer, Latest
<1> QED
  BY <1>4, <1>5, <1>6, <1>7, <1>8, <1>9, <1>12

\* A parallel or a one_of that starts has come to none of its children.
LEMMA OpenStep ==
    ASSUME IInv, TypeOK', NEW roots, Quiet(roots), NEW c \in Nodes, c = Current,
           ticked' = ticked, status'[c] = status[c], path' = path, started' = TRUE,
           ~started, Kind(c) \in Concurrent, memo'[c] = 0, roots = {} \/ status[c] # "RUNNING"
    PROVE  IInv'
<1>1. /\ TypeOK /\ PathInv /\ path # <<>>
      /\ \A n \in Nodes \ Entered : Settled(n)
  BY DEF IInv, Quiet, inputs
<1>2. /\ c = path[Len(path)] /\ c \notin ticked /\ c \notin Entered
      /\ Len(path) \in Nat \ {0}
  BY <1>1, PathFacts
<1>3. Entered' = {path[k] : k \in 1..Len(path)}
  BY DEF Entered, Reached
<1>4. UnderWay(c)'
  <2>1. \A j \in DOMAIN Children(c) : Children(c)[j] \notin ticked'
    BY <1>1, <1>2 DEF Settled, Kids
  <2>2. Kind(c) \notin Sequential /\ Len(Children(c)) \in Nat
    BY KindsApart, ChildrenFacts
  <2>3. 0 \in 0..Len(Children(c)) /\ 1..(0 - 1) = {}
    BY <2>2
  <2> QED
    BY <2>1, <2>2, <2>3 DEF UnderWay
<1>5. Kind(c) # "timeout"
  BY KindsApart
<1>6. /\ \A n \in Entered' : UnderWay(n)'
      /\ \A n \in Nodes \ Entered' : Settled(n)'
      /\ EventSeen' /\ OthersRest' /\ Deadline'
      /\ Root' = Root /\ Timeouts' = Timeouts
      /\ \A n : n \in Entered' <=> n \in Entered \/ n = c
  BY <1>3, <1>4, <1>5, GoingDown
<1>7. \A k \in 1..(Len(path) - 1) : memo'[path[k]] = memo[path[k]]
  BY <1>1, PathFacts DEF Quiet
<1>8. PathInv'
  <2>1. \A k \in 1..(Len(path') - 1) : AtAChild(path[k])' /\ path'[k + 1] = ComeTo(path[k])'
    <3>1. SUFFICES ASSUME NEW k \in 1..(Len(path) - 1)
                   PROVE  AtAChild(path[k])' /\ path[k + 1] = ComeTo(path[k])'
      OBVIOUS
    <3>2. AtAChild(path[k]) /\ path[k + 1] = ComeTo(path[k])
      BY <1>1 DEF PathInv
    <3>3. memo'[path[k]] = memo[path[k]] /\ path'[k] = path[k]
      BY <1>7
    <3> QED
      BY <3>2, <3>3 DEF AtAChild, ComeTo, Place
  <2>2. /\ path[1] = Root
        /\ \A j, k \in 1..Len(path) : path[j] = path[k] => j = k
        /\ \A k \in 1..Len(path) : above[path[k]] = {path[j] : j \in 1..k} /\ path[k] \notin ticked
    BY <1>1 DEF PathInv
  <2>3. /\ path'[1] = Root'
        /\ \A j, k \in 1..Len(path') : path'[j] = path'[k] => j = k
        /\ \A k \in 1..Len(path') : above[path'[k]] = {path'[j] : j \in 1..k} /\ path'[k] \notin ticked'
    <3>1. \A k : {path'[j] : j \in 1..k} = {path[j] : j \in 1..k}
      OBVIOUS
    <3>2. path'[1] = Root' /\ \A j, k \in 1..Len(path') : path'[j] = path'[k] => j = k
      BY <1>6, <2>2
    <3>3. \A k \in 1..Len(path') : above[path'[k]] = {path'[j] : j \in 1..k}
      <4>1. SUFFICES ASSUME NEW k \in 1..Len(path)
                     PROVE  above[path[k]] = {path'[j] : j \in 1..k}
        OBVIOUS
      <4> QED
        BY <2>2, <3>1, Zenon
    <3>4. \A k \in 1..Len(path') : path'[k] \notin ticked'
      BY <2>2
    <3> QED
      BY <3>2, <3>3, <3>4
  <2> QED
    BY <1>1, <2>1, <2>3 DEF PathInv
<1>9. ChildReturned' /\ AtRest'
  BY <1>1 DEF ChildReturned, AtRest, Current
<1>10. StraightDown'
  <2>1. SUFFICES ASSUME NEW k \in Timeouts, ~TickedOrEntered(k)'
                 PROVE  /\ Len(path) <= k - Root[2] + 1
                        /\ \A i \in 1..Len(path) : path[i] = Layer(Root[2] + i - 1)
                        /\ Len(path) = 1 /\ Root[2] = 0 /\ memo'[Root] = 0
    BY <1>1, <1>6 DEF StraightDown, TickedOrEntered, Layer, Quiet, inputs
  <2>2. ~TickedOrEntered(k) /\ Layer(k) # c
    BY <1>6, <2>1 DEF TickedOrEntered, Layer, Quiet, inputs
  <2>3. /\ Root[2] + Len(path) - 1 \in Root[2]..(k - 1)
        /\ c = Layer(Root[2] + Len(path) - 1)
    BY <1>1, <2>2, WhileStraightDown
  <2>4. Root[2] + Len(path) - 1 # 0 => Kind(c) \in Modifiers
    BY <1>1, <2>3, LayersOfTheScenario
  <2>5. Root[2] + Len(path) - 1 = 0
    BY <2>4, KindsApart
  <2>6. Root[2] \in {0, 1} /\ k \in Nat /\ Root = Layer(Root[2])
    BY <1>1, LayersOfTheScenario
  <2>9. Len(path) \in Nat /\ Len(path) > 0 /\ Root[2] \in {0, 1}
    BY <1>2, <2>6
  <2>7. Root[2] = 0 /\ Len(path) = 1
    <3>1. ASSUME NEW r \in {0, 1}, NEW l \in Nat, l > 0, r + l - 1 = 0 PROVE r = 0 /\ l = 1
      BY <3>1
    <3> QED
      BY <2>5, <2>9, <3>1
  <2>8. c = Root
    BY <2>3, <2>5, <2>6, <2>7
  <2> QED
    BY <1>2, <2>6, <2>7, <2>8
<1> QED
  BY <1>6, <1>8, <1>9, <1>10 DEF IInv

\* The current behaviour ticks a child.
LEMMA PushStep ==
    ASSUME IInv, TypeOK', NEW roots, Quiet(roots), NEW c \in Nodes, c = Current,
           NEW p \in DOMAIN Children(c), p = IF Kind(c) \in Modifiers THEN 1 ELSE memo'[c],
           ticked' = ticked, status'[c] = status[c], path' = Append(path, Children(c)[p]), started' = FALSE,
           UnderWay(c)', roots = {} \/ status[c] # "RUNNING",
           started => Kind(c) \notin Modifiers /\ p > memo[c],
           Kind(c) = "one_of" => started /\ (memo[c] = 0 => p = 1),
           Kind(c) = "timeout" => memo'[c] = IF status[c] # "RUNNING" THEN now + Modifier(c[1], c[2]).duration
                                             ELSE memo[c]
    PROVE  IInv'
<1> DEFINE d == Children(c)[p]
<1>1. /\ TypeOK /\ PathInv /\ path # <<>>
      /\ \A n \in Nodes \ Entered : Settled(n)
      /\ \A n \in Entered : UnderWay(n)
      /\ scenario' = scenario
  BY DEF IInv, Quiet, inputs
<1>2. /\ path \in Seq(Nodes) /\ c = path[Len(path)] /\ c \notin ticked /\ (started <=> c \in Entered)
      /\ \A k \in 1..Len(path) : path[k] \in Nodes
      /\ \A k \in 1..(Len(path) - 1) : path[k] \in Entered /\ path[k] # c
  BY <1>1, PathFacts
<1>3. Len(path) \in Nat /\ Len(path) > 0
  <2>1. Len(path) \in Nat \ {0}
    BY <1>1, PathFacts
  <2> QED
    BY <2>1
<1>4. d \in Nodes /\ d \in Kids(c) /\ above[d] = {d} \cup above[c]
  BY AboveChild DEF Kids
<1>5. /\ Len(path') = Len(path) + 1 /\ path'[Len(path) + 1] = d
      /\ \A k \in 1..Len(path) : path'[k] = path[k]
  <2>1. path' = Append(path, d)
    OBVIOUS
  <2> HIDE DEF d
  <2> QED
    BY <1>2, <1>4, <2>1
<1> HIDE DEF d
<1>6. Entered' = {path[k] : k \in 1..Len(path)}
  <2>1. Reached' = Len(path)
    BY <1>3, <1>5 DEF Reached
  <2> QED
    BY <1>5, <2>1 DEF Entered
<1>7. Kind(c) = "timeout" => ~started
  BY KindsApart
<1>8. /\ \A n \in Entered' : UnderWay(n)'
      /\ \A n \in Nodes \ Entered' : Settled(n)'
      /\ EventSeen' /\ OthersRest' /\ Deadline'
      /\ Root' = Root /\ Timeouts' = Timeouts
      /\ \A n : n \in Entered' <=> n \in Entered \/ n = c
  BY <1>6, <1>7, GoingDown
<1>9. d \notin ticked
  <2>1. CASE started
    <3>1. UnderWay(c)
      BY <1>1, <1>2, <2>1
    <3> QED
      BY <2>1, <3>1 DEF UnderWay, d
  <2>2. CASE ~started
    BY <1>1, <1>2, <1>4, <2>2 DEF Settled
  <2> QED
    BY <2>1, <2>2
<1>10. ASSUME NEW k \in 1..Len(path) PROVE path[k] # d
  <2>1. SUFFICES ASSUME path[k] = d PROVE FALSE
    OBVIOUS
  <2>2. k # 1
    BY <1>1, <1>4, <2>1, PathSteps
  <2>3. k - 1 \in 1..(Len(path) - 1) /\ (k - 1) + 1 = k /\ k - 1 \in 1..Len(path)
    BY <1>3, <2>2
  <2>4. d \in Kids(path[k - 1]) /\ path[k - 1] \in Nodes /\ path[k - 1] # c
    BY <1>1, <1>2, <2>1, <2>3, PathSteps
  <2> QED
    BY <1>4, <2>4, OneParent
<1>11. PathInv'
  <2>1. path' # <<>> /\ path'[1] = Root'
    <3>1. path'[1] = path[1] /\ 1 \in 1..Len(path) /\ path[1] = Root
      BY <1>1, <1>3, <1>5 DEF PathInv
    <3>2. path' # <<>>
      BY <1>3, <1>5
    <3> QED
      BY <1>8, <3>1, <3>2
  <2>2. ASSUME NEW k \in 1..(Len(path') - 1) PROVE AtAChild(path[k])' /\ path'[k + 1] = ComeTo(path[k])'
    <3>1. k \in 1..Len(path) /\ path'[k] = path[k]
      BY <1>3, <1>5
    <3>2. CASE k = Len(path)
      <4>1. path'[k] = c /\ path'[k + 1] = d
        BY <1>2, <1>5, <3>1, <3>2
      <4> QED
        BY <4>1 DEF AtAChild, ComeTo, Place, d
    <3>3. CASE k # Len(path)
      <4>1. k \in 1..(Len(path) - 1) /\ k + 1 \in 1..Len(path)
        BY <1>3, <3>1, <3>3
      <4>2. AtAChild(path[k]) /\ path[k + 1] = ComeTo(path[k])
        BY <1>1, <4>1 DEF PathInv
      <4>3. memo'[path[k]] = memo[path[k]] /\ path'[k + 1] = path[k + 1]
        BY <1>2, <1>5, <3>1, <4>1 DEF Quiet
      <4> QED
        BY <3>1, <4>2, <4>3 DEF AtAChild, ComeTo, Place
    <3> QED
      BY <3>2, <3>3
  <2>3. ASSUME NEW j \in 1..Len(path'), NEW k \in 1..Len(path'), path'[j] = path'[k] PROVE j = k
    <3>1. (j \in 1..Len(path) \/ j = Len(path) + 1) /\ (k \in 1..Len(path) \/ k = Len(path) + 1)
      BY <1>3, <1>5
    <3>2. \A i, l \in 1..Len(path) : path[i] = path[l] => i = l
      BY <1>1 DEF PathInv
    <3> QED
      BY <1>5, <1>10, <2>3, <3>1, <3>2
  <2>4. ASSUME NEW k \in 1..Len(path') PROVE above[path'[k]] = {path'[j] : j \in 1..k} /\ path'[k] \notin ticked'
    <3>1. \A i \in 1..Len(path) : above[path[i]] = {path[j] : j \in 1..i} /\ path[i] \notin ticked
      BY <1>1 DEF PathInv
    <3>2. CASE k \in 1..Len(path)
      <4>1. \A j \in 1..k : j \in 1..Len(path)
        BY <1>3, <3>2
      <4>2. {path'[j] : j \in 1..k} = {path[j] : j \in 1..k}
        BY <1>5, <4>1
      <4> QED
        BY <1>5, <3>1, <3>2, <4>2
    <3>3. CASE k = Len(path) + 1
      <4>1. 1..k = (1..Len(path)) \cup {Len(path) + 1}
        BY <1>3, <3>3
      <4>2. {path'[j] : j \in 1..k} = {path[j] : j \in 1..Len(path)} \cup {d}
        BY <1>5, <4>1
      <4>3. Len(path) \in 1..Len(path)
        BY <1>3
      <4>4. above[c] = {path[j] : j \in 1..Len(path)}
        BY <1>2, <3>1, <4>3
      <4> QED
        BY <1>4, <1>5, <1>9, <3>3, <4>2, <4>4
    <3>4. k \in 1..Len(path) \/ k = Len(path) + 1
      BY <1>3, <1>5
    <3> QED
      BY <3>2, <3>3, <3>4
  <2> QED
    BY <2>1, <2>2, <2>3, <2>4 DEF PathInv
<1>12. path' # <<>>
  BY <1>3, <1>5
<1>13. ChildReturned' /\ AtRest'
  BY <1>12 DEF ChildReturned, AtRest
<1>14. ASSUME NEW k \in Timeouts, ~TickedOrEntered(k)'
       PROVE  /\ Len(path') <= k - Root[2] + 1
              /\ \A i \in 1..Len(path') : path'[i] = Layer(Root[2] + i - 1)
  <2>1. ~TickedOrEntered(k) /\ Layer(k) # c
    BY <1>1, <1>8, <1>14 DEF TickedOrEntered, Layer
  <2> DEFINE j == Root[2] + Len(path) - 1
  <2>2. j \in Root[2]..(k - 1) /\ c = Layer(j) /\ (started => Len(path) = 1 /\ Root[2] = 0 /\ memo[Root] = 0)
    BY <1>1, <2>1, WhileStraightDown
  <2>3. /\ Kind(c) = IF j = 0 THEN "one_of" ELSE Modifier(scenario, j).kind
        /\ j # 0 => Kind(c) \in Modifiers
        /\ Children(c)[1] = Layer(j + 1)
    BY <1>1, <2>2, LayersOfTheScenario
  <2>4. Root[2] \in {0, 1} /\ k \in Nat /\ Root = Layer(Root[2])
    BY <1>1, LayersOfTheScenario
  <2>5. p = 1
    <3>1. CASE j = 0
      <4>1. Kind(c) = "one_of" /\ started
        BY <2>3, <3>1
      <4>2. Root[2] = 0 /\ memo[Root] = 0
        BY <2>2, <4>1
      <4>3. c = Root
        BY <2>2, <2>4, <3>1, <4>2
      <4> QED
        BY <4>1, <4>2, <4>3
    <3>2. CASE j # 0
      BY <2>3, <3>2
    <3> QED
      BY <3>1, <3>2
  <2>6. d = Layer(j + 1)
    BY <2>3, <2>5 DEF d
  <2>7. Len(path) + 1 <= k - Root[2] + 1 /\ j + 1 = Root[2] + (Len(path) + 1) - 1
    <3>1. ASSUME NEW r \in {0, 1}, NEW l \in Nat, r + l - 1 <= k - 1
          PROVE  l + 1 <= k - r + 1 /\ (r + l - 1) + 1 = r + (l + 1) - 1
      BY <2>4, <3>1
    <3>2. j <= k - 1
      BY <2>2, <2>4
    <3> QED
      BY <1>3, <2>4, <3>1, <3>2
  <2>8. ASSUME NEW i \in 1..Len(path') PROVE path'[i] = Layer(Root[2] + i - 1)
    <3>1. CASE i \in 1..Len(path)
      <4>1. path[i] = Layer(Root[2] + i - 1)
        BY <1>1, <2>1, <3>1 DEF IInv, StraightDown
      <4> QED
        BY <1>5, <3>1, <4>1
    <3>2. CASE i = Len(path) + 1
      BY <1>5, <2>6, <2>7, <3>2
    <3> QED
      BY <1>3, <1>5, <3>1, <3>2
  <2> QED
    BY <1>5, <2>7, <2>8
<1>15. StraightDown'
  BY <1>1, <1>8, <1>14 DEF StraightDown, TickedOrEntered, Layer
<1> QED
  BY <1>8, <1>11, <1>13, <1>15 DEF IInv

\* While nothing is over and the root was ticked, the timeouts that end the scenario run, with all
\* that is around them.
LEMMA TimeoutsRunOn ==
    ASSUME IInv, path = <<>>, ~Over, Root \in ticked, NEW k \in Timeouts
    PROVE  \A j \in Root[2]..k : status[Layer(j)] = "RUNNING" /\ Layer(j) \in ticked
<1>1. /\ TypeOK /\ AtRest /\ \A n \in Nodes \ Entered : Settled(n)
  BY DEF IInv
<1>2. Entered = {}
  <2>1. ~started /\ Len(path) = 0
    BY DEF IInv, PathInv
  <2>2. Reached = -1
    BY <2>1 DEF Reached
  <2>3. 1..Reached = {}
    BY <2>2
  <2> QED
    BY <2>3 DEF Entered
<1>3. status[Root] = "RUNNING"
  <2>1. status[Root] # "INVALID" /\ status[Root] \notin {"SUCCESS", "FAILURE"}
    BY <1>1 DEF AtRest, Over
  <2>2. Root \in Nodes
    BY <1>1, LayersOfTheScenario
  <2> QED
    BY <1>1, <2>1, <2>2 DEF TypeOK, Statuses
<1>4. Root[2] \in {0, 1} /\ Root = Layer(Root[2]) /\ k \in Nat
  BY <1>1, LayersOfTheScenario
<1> DEFINE bad == {j \in Root[2]..k : ~(status[Layer(j)] = "RUNNING" /\ Layer(j) \in ticked)}
<1>5. SUFFICES ASSUME bad # {} PROVE FALSE
  OBVIOUS
<1>6. bad \subseteq Nat
  BY <1>4
<1>7. PICK j \in bad : \A i \in bad : j <= i
  BY <1>5, <1>6, LeastNumber
<1>8. j \in Root[2]..k /\ j # Root[2]
  BY <1>3, <1>4, <1>7
<1>9. j - 1 \in Root[2]..(k - 1) /\ j - 1 \in Root[2]..k /\ (j - 1) + 1 = j /\ ~(j <= j - 1)
  BY <1>4, <1>8
<1>10. status[Layer(j - 1)] = "RUNNING" /\ Layer(j - 1) \in ticked
  BY <1>7, <1>9
<1>11. /\ Layer(j - 1) \in Nodes /\ RunsWithChildren(Layer(j - 1))
       /\ Children(Layer(j - 1))[1] = Layer(j) /\ 1 \in DOMAIN Children(Layer(j - 1))
  <2>1. /\ Layer(j - 1) \in Nodes /\ RunsWithChildren(Layer(j - 1))
        /\ Children(Layer(j - 1))[1] = Layer((j - 1) + 1) /\ 1 \in DOMAIN Children(Layer(j - 1))
    BY <1>1, <1>9, LayersOfTheScenario
  <2> QED
    BY <1>9, <2>1
<1>12. Settled(Layer(j - 1)) /\ Layer(j) \in Kids(Layer(j - 1))
  BY <1>1, <1>2, <1>11 DEF Kids
<1>13. status[Layer(j)] = "RUNNING" /\ Layer(j) \in ticked
  BY <1>10, <1>11, <1>12 DEF Settled
<1> QED
  BY <1>7, <1>13

\* The tree is ticked.
LEMMA TickStep ==
    ASSUME IInv, TypeOK', NEW delay \in 1..MaxStep, NEW seen \in Readings, TickTree(delay, seen)
    PROVE  IInv'
<1>1. /\ TypeOK /\ PathInv /\ AtRest /\ OthersRest /\ Deadline
      /\ \A n \in Nodes \ Entered : Settled(n)
  BY DEF IInv
<1>2. /\ path = <<>> /\ ~Over /\ path' = <<Root>> /\ ticked' = {} /\ before' = emitted
      /\ scenario' = scenario /\ status' = status /\ memo' = memo /\ started' = started
      /\ now' = IF now + delay > MaxNow THEN MaxNow ELSE now + delay
  BY DEF TickTree, kept
<1>3. ~started /\ ~started'
  BY <1>1, <1>2 DEF PathInv
<1>4. Entered = {} /\ Entered' = {}
  <2>1. Reached = -1 /\ Reached' = 0
    <3>1. Len(path) = 0 /\ Len(path') = 1
      BY <1>2
    <3> QED
      BY <1>3, <3>1 DEF Reached
  <2>2. 1..Reached = {} /\ 1..Reached' = {}
    BY <2>1
  <2> QED
    BY <2>2 DEF Entered
<1>5. Root \in Nodes /\ (\A n \in Nodes : Root \notin Kids(n)) /\ Root' = Root /\ Root[2] \in {0, 1}
      /\ Root = Layer(Root[2])
  <2>1. scenario \in Scenarios
    BY <1>1 DEF TypeOK
  <2>2. \A n \in Nodes : Root \notin Kids(n)
    BY <2>1, ScenarioIsNoChild DEF Root
  <2> QED
    BY <1>1, <1>2, <2>2, LayersOfTheScenario DEF Root
<1>6. PathInv'
  <2>1. Len(path') = 1 /\ path'[1] = Root /\ 1..1 = {1} /\ 1..(1 - 1) = {}
    BY <1>2
  <2>2. above[Root] = {Root}
    BY <1>5, AboveFacts
  <2>3. \A k \in 1..Len(path') : k = 1
    BY <2>1
  <2>4. {path'[j] : j \in 1..1} = {Root}
    BY <2>1
  <2>5. path' # <<>>
    BY <1>2
  <2> QED
    BY <1>2, <1>3, <1>5, <2>1, <2>2, <2>3, <2>4, <2>5 DEF PathInv
<1>7. ChildReturned' /\ AtRest' /\ EventSeen'
  <2>1. path' # <<>>
    BY <1>2
  <2> QED
    BY <1>2, <1>3, <2>1 DEF ChildReturned, AtRest, EventSeen
<1>8. OthersRest'
  BY <1>1, <1>2 DEF OthersRest
<1>9. \A n \in Entered' : UnderWay(n)'
  BY <1>4
<1>10. ASSUME NEW n \in Nodes PROVE Settled(n)'
  <2>1. Settled(n)
    BY <1>1, <1>4
  <2> QED
    BY <1>2, <2>1 DEF Settled, RunsWithChildren
<1>11. Timeouts' = Timeouts
  BY <1>2 DEF Timeouts
<1>12. StraightDown'
  <2>1. SUFFICES ASSUME NEW k \in Timeouts
                 PROVE  Len(path') <= k - Root[2] + 1 /\ \A i \in 1..Len(path') : path'[i] = Layer(Root[2] + i - 1)
    BY <1>2, <1>3, <1>5, <1>11 DEF StraightDown, Layer
  <2>2. k \in Nat /\ Root[2] <= k
    BY <1>1, LayersOfTheScenario
  <2>3. Len(path') = 1 /\ path'[1] = Root /\ \A i \in 1..Len(path') : i = 1
    BY <1>2
  <2>4. Root[2] + 1 - 1 = Root[2] /\ 1 <= k - Root[2] + 1
    <3>1. ASSUME NEW r \in {0, 1}, r <= k PROVE r + 1 - 1 = r /\ 1 <= k - r + 1
      BY <2>2, <3>1
    <3> QED
      BY <1>5, <2>2, <3>1
  <2> QED
    BY <1>5, <2>3, <2>4
<1>13. ASSUME NEW k \in Timeouts
       PROVE  /\ status[Layer(k)] = "RUNNING" => memo[Layer(k)] <= Latest(k)
              /\ now' > MaxStep => \A j \in Root[2]..k : status[Layer(j)] = "RUNNING"
  <2>1. status[Layer(k)] = "RUNNING" => memo[Layer(k)] <= Latest(k)
    BY <1>1 DEF Deadline
  <2>2. CASE Root \in ticked
    BY <1>2, <2>1, <2>2, TimeoutsRunOn
  <2>3. CASE Root \notin ticked
    <3>1. now = 0
      BY <1>1, <1>2, <2>3 DEF AtRest
    <3>2. MaxNow \in Nat /\ MaxStep \in Nat
      BY TreeAssumption
    <3>3. ~(now' > MaxStep)
      BY <1>2, <3>1, <3>2
    <3> QED
      BY <2>1, <3>3
  <2> QED
    BY <2>2, <2>3
<1>14. Deadline'
  BY <1>2, <1>4, <1>5, <1>11, <1>13 DEF Deadline, TickedOrEntered, Layer, Latest
<1> QED
  BY <1>6, <1>7, <1>8, <1>9, <1>10, <1>12, <1>14 DEF IInv
-----------------------------------------------------------------------------
(* The actions                                                             *)

Answers == {"RUNNING", "SUCCESS", "FAILURE"}

\* A stop makes the behaviours it reaches INVALID and leaves the others alone.
LEMMA StoppedFacts ==
    ASSUME TypeOK, NEW roots
    PROVE  /\ Stopped(roots) \in [Nodes -> Statuses]
           /\ \A n \in Nodes : Stopped(roots)[n] = IF n \in Below(roots) THEN "INVALID" ELSE status[n]
<1>1. \A n \in Nodes : status[n] \in Statuses /\ "INVALID" \in Statuses
  BY DEF TypeOK, Statuses
<1>2. \A n \in Nodes :
          Stopped(roots)[n] = IF status[n] # "INVALID" /\ above[n] \cap roots # {} THEN "INVALID" ELSE status[n]
  BY DEF Stopped
<1>3. \A n \in Nodes : Stopped(roots)[n] = IF n \in Below(roots) THEN "INVALID" ELSE status[n]
  BY <1>2 DEF Below
<1>4. \A n \in Nodes : Stopped(roots)[n] \in Statuses
  BY <1>1, <1>3
<1>5. Stopped(roots) = [n \in Nodes |-> Stopped(roots)[n]]
  BY DEF Stopped
<1> QED
  BY <1>3, <1>4, <1>5

\* A behaviour that returns changes its own status, and that of the children it stops.
LEMMA ReturnFacts ==
    ASSUME TypeOK, PathInv, path # <<>>, NEW c \in Nodes, c = Current,
           NEW new \in Answers, NEW roots \in SUBSET Kids(c), Return(new, roots),
           \A n \in Nodes \ {c} : memo'[n] = memo[n]
    PROVE  /\ Quiet(roots) /\ ticked' = ticked \cup {c}
           /\ status' \in [Nodes -> Statuses] /\ status'[c] = new
           /\ \A d \in Kids(c) : /\ d \in Nodes /\ d # c
                                 /\ status'[d] = IF d \in roots THEN "INVALID" ELSE status[d]
<1>1. status' = [Stopped(roots) EXCEPT ![c] = new] /\ ticked' = ticked \cup {c} /\ UNCHANGED inputs
  BY DEF Return
<1>2. status' \in [Nodes -> Statuses] /\ status'[c] = new
      /\ \A n \in Nodes \ {c} : status'[n] = IF n \in Below(roots) THEN "INVALID" ELSE status[n]
  <2>1. new \in Statuses
    BY DEF Answers, Statuses
  <2> QED
    BY <1>1, <2>1, StoppedFacts
<1>3. Quiet(roots)
  BY <1>1, <1>2 DEF Quiet
<1>4. ASSUME NEW d \in Kids(c)
      PROVE  /\ d \in Nodes /\ d # c
             /\ status'[d] = IF d \in roots THEN "INVALID" ELSE status[d]
  <2>1. d \in Nodes /\ d # c
    BY ChildrenFacts, PathSteps
  <2>2. d \in Below(roots) <=> d \in roots
    <3>1. above[d] = {d} \cup above[c]
      BY AboveChild
    <3>2. c \notin Below(roots) /\ roots \subseteq Below(roots)
      BY BelowFacts
    <3> QED
      BY <2>1, <3>1, <3>2 DEF Below
  <2> QED
    BY <1>2, <2>1, <2>2
<1> QED
  BY <1>1, <1>2, <1>3, <1>4

\* What is left to show of an action that returns: what it makes of the children.
LEMMA Returning ==
    ASSUME IInv, NEW c \in Nodes, c = Current, path # <<>>,
           NEW new \in Answers, NEW roots \in SUBSET Kids(c), Return(new, roots),
           memo' \in [Nodes -> Nat], \A n \in Nodes \ {c} : memo'[n] = memo[n],
           previous' \in [Edges -> Levels \cup {NoReference}], emitted' \subseteq Events, emitted \subseteq emitted',
           \A d \in Kids(c) : d \notin roots /\ status[d] = "RUNNING" => new = "RUNNING" /\ d \in ticked,
           new = "RUNNING" /\ RunsWithChildren(c) => roots = {} /\ \A d \in Kids(c) : status[d] = "RUNNING",
           Kind(c) = "serial" /\ new = "RUNNING" =>
               memo'[c] \in DOMAIN Children(c)
               /\ \A j \in DOMAIN Children(c) \ {memo'[c]} : status[Children(c)[j]] # "RUNNING",
           Kind(c) = "timeout" => memo'[c] = memo[c] /\ (new = "RUNNING" => now <= memo[c]),
           Kind(c) = "event" /\ Elements[c[1]].arg \in before => new # "RUNNING",
           Kind(c) \in Leaves \/ (started /\ ~(Kind(c) = "one_of" /\ memo[c] = 0))
    PROVE  IInv'
<1>1. TypeOK /\ PathInv
  BY DEF IInv
<1>2. /\ status' = [Stopped(roots) EXCEPT ![c] = new]
      /\ path' = SubSeq(path, 1, Len(path) - 1) /\ started' = (Len(path) > 1) /\ ticked' = ticked \cup {c}
      /\ UNCHANGED inputs
  BY DEF Return
<1>3. /\ Quiet(roots) /\ status' \in [Nodes -> Statuses] /\ status'[c] = new
      /\ \A d \in Kids(c) : /\ d \in Nodes /\ d # c
                            /\ status'[d] = IF d \in roots THEN "INVALID" ELSE status[d]
  BY <1>1, ReturnFacts
<1>4. /\ scenario' = scenario /\ level' = level /\ since' = since /\ now' = now /\ before' = before
  BY <1>2 DEF inputs
<1>5. path \in Seq(Nodes) /\ path' \in Seq(Nodes)
  BY <1>1, <1>2, PathFacts, SubSeqFacts
<1>6. started' \in BOOLEAN
  <2>1. (Len(path) > 1) \in BOOLEAN
    OBVIOUS
  <2> QED
    BY <1>2, <2>1, Zenon
<1>7. TypeOK'
  BY <1>1, <1>2, <1>3, <1>4, <1>5, <1>6 DEF TypeOK
<1>8. \A d \in Kids(c) : /\ (d \notin roots => status'[d] = status[d])
                         /\ (status'[d] = "RUNNING" => status[d] = "RUNNING" /\ d \notin roots)
  BY <1>3
<1>9. Settled(c)'
  <2>1. c \in ticked' /\ ticked \subseteq ticked'
    BY <1>2
  <2>2. ASSUME NEW d \in Kids(c)
        PROVE  /\ status'[d] = "RUNNING" => new = "RUNNING" /\ d \in ticked'
               /\ new = "RUNNING" /\ RunsWithChildren(c) => status'[d] = "RUNNING"
    BY <1>8, <2>1
  <2>3. ASSUME Kind(c) = "serial", new = "RUNNING", NEW j \in DOMAIN Children(c) \ {memo'[c]}
        PROVE  status'[Children(c)[j]] # "RUNNING"
    <3>1. Children(c)[j] \in Kids(c)
      BY DEF Kids
    <3> QED
      BY <1>8, <2>3, <3>1
  <2> QED
    BY <1>3, <1>4, <2>1, <2>2, <2>3 DEF Settled, RunsWithChildren
<1>10. new # "INVALID"
  BY DEF Answers
<1> QED
  BY <1>2, <1>3, <1>7, <1>9, <1>10, ReturnStep

\* A leaf has no children: only what it answers and what it keeps matters.
LEMMA LeafReturning ==
    ASSUME IInv, NEW c \in Nodes, c = Current, path # <<>>, Kind(c) \in Leaves,
           NEW new \in Answers, Return(new, {}),
           memo' \in [Nodes -> Nat], \A n \in Nodes \ {c} : memo'[n] = memo[n],
           previous' \in [Edges -> Levels \cup {NoReference}], emitted' \subseteq Events, emitted \subseteq emitted',
           Kind(c) = "event" /\ Elements[c[1]].arg \in before => new # "RUNNING"
    PROVE  IInv'
<1>1. Kids(c) = {} /\ {} \in SUBSET Kids(c)
  BY ChildrenFacts
<1>2. Kind(c) # "serial" /\ Kind(c) # "timeout"
  BY KindsApart
<1> QED
  BY <1>1, <1>2, Returning

\* A leaf is what its element is.
LEMMA LeafElement ==
    ASSUME NEW c \in Nodes, Kind(c) \in Leaves
    PROVE  c[1] \in DOMAIN Elements /\ Elements[c[1]].op = Kind(c)
<1>1. c[2] # 0
  BY UntilShape, KindsApart
<1>2. c[2] \notin 1..(Innermost(c[1]) - 1)
  BY ModifierShape, KindsApart
<1> QED
  BY <1>1, <1>2, NodeFacts, BehaviourShape

\* A behaviour that starts has not been entered; one that goes on has.
LEMMA StartFacts ==
    ASSUME IInv, NEW kinds, Starts(kinds) \/ GoesOn(kinds)
    PROVE  /\ path # <<>> /\ Current \in Nodes /\ Kind(Current) \in kinds
           /\ TypeOK /\ PathInv
           /\ status[Current] \in Statuses /\ memo[Current] \in Nat /\ now \in Nat
           /\ GoesOn(kinds) => started /\ UnderWay(Current)
           /\ Starts(kinds) => ~started /\ Current \notin Entered
<1>1. TypeOK /\ PathInv /\ \A n \in Entered : UnderWay(n)
  BY DEF IInv
<1>2. path # <<>> /\ Kind(Current) \in kinds
  BY <1>1 DEF Starts, GoesOn, PathInv
<1>3. Current \in Nodes /\ (started <=> Current \in Entered)
  BY <1>1, <1>2, PathFacts
<1>4. status[Current] \in Statuses /\ memo[Current] \in Nat
  BY <1>1, <1>3 DEF TypeOK
<1>5. now \in Nat
  <2>1. MaxNow \in Nat /\ now \in 0..MaxNow
    BY <1>1, TreeAssumption DEF TypeOK
  <2> QED
    BY <2>1
<1> QED
  BY <1>1, <1>2, <1>3, <1>4, <1>5 DEF Starts, GoesOn

\* The leaves: a wait for an event that is set ends.
LEMMA WaitForEventStep == ASSUME IInv, WaitForEvent PROVE IInv'
<1>1. PICK c \in Nodes : c = Current
  BY StartFacts DEF WaitForEvent
<1>2. path # <<>> /\ Kind(c) = "event" /\ TypeOK
  BY <1>1, StartFacts DEF WaitForEvent
<1> DEFINE new == IF Arg \in emitted THEN "SUCCESS" ELSE "RUNNING"
<1>3. Return(new, {}) /\ memo' = memo /\ previous' = previous /\ emitted' = emitted
  BY DEF WaitForEvent, kept
<1>4. new \in Answers /\ Kind(c) \in Leaves
  BY <1>2, KindsApart DEF Answers
<1>5. Elements[c[1]].arg \in before => new # "RUNNING"
  BY <1>1, <1>2 DEF TypeOK, Arg
<1> HIDE DEF new
<1> QED
  BY <1>1, <1>2, <1>3, <1>4, <1>5, LeafReturning DEF TypeOK

\* An event is emitted.
LEMMA EmitStep == ASSUME IInv, Emit PROVE IInv'
<1>1. PICK c \in Nodes : c = Current
  BY StartFacts DEF Emit
<1>2. path # <<>> /\ Kind(c) = "emit" /\ TypeOK
  BY <1>1, StartFacts DEF Emit
<1>3. Return("SUCCESS", {}) /\ memo' = memo /\ previous' = previous /\ emitted' = emitted \cup {Arg}
  BY DEF Emit
<1>4. "SUCCESS" \in Answers /\ Kind(c) \in Leaves /\ Kind(c) # "event"
  BY <1>2 DEF Answers, Leaves
<1>5. Arg \in Events
  BY <1>1, <1>2, <1>4, LeafElement DEF Arg, Events
<1> QED
  BY <1>1, <1>2, <1>3, <1>4, <1>5, LeafReturning DEF TypeOK

\* A condition is read.
LEMMA WaitForConditionStep == ASSUME IInv, WaitForCondition PROVE IInv'
<1>1. PICK c \in Nodes : c = Current
  BY StartFacts DEF WaitForCondition
<1>2. path # <<>> /\ Kind(c) = "condition" /\ TypeOK
  BY <1>1, StartFacts DEF WaitForCondition
<1>3. Return(Holds, {}) /\ memo' = memo /\ previous' = previous /\ emitted' = emitted
  BY DEF WaitForCondition, kept
<1>4. Holds \in Answers /\ Kind(c) \in Leaves /\ Kind(c) # "event"
  BY <1>2 DEF Answers, Leaves, Holds
<1> QED
  BY <1>1, <1>2, <1>3, <1>4, LeafReturning DEF TypeOK

\* A rise keeps a reference.
LEMMA WaitForRiseStep == ASSUME IInv, WaitForRise PROVE IInv'
<1>1. PICK c \in Nodes : c = Current
  BY StartFacts DEF WaitForRise
<1>2. path # <<>> /\ Kind(c) = "rise" /\ TypeOK
  BY <1>1, StartFacts DEF WaitForRise
<1> DEFINE reference == IF Fresh THEN NoReference ELSE previous[Current]
           new == IF level = "odd" THEN "FAILURE"
                  ELSE IF reference = "low" /\ level = "high" THEN "SUCCESS" ELSE "RUNNING"
<1>3. /\ Return(new, {}) /\ memo' = memo /\ emitted' = emitted
      /\ previous' = [previous EXCEPT ![Current] = IF level = "odd" THEN reference ELSE level]
  BY DEF WaitForRise
<1>4. new \in Answers /\ Kind(c) \in Leaves /\ Kind(c) # "event"
  BY <1>2 DEF Answers, Leaves
<1>5. previous' \in [Edges -> Levels \cup {NoReference}]
  <2>1. c \in Edges /\ previous \in [Edges -> Levels \cup {NoReference}] /\ level \in Levels
    BY <1>2 DEF Edges, TypeOK
  <2>2. (IF level = "odd" THEN reference ELSE level) \in Levels \cup {NoReference}
    BY <1>1, <2>1
  <2> QED
    BY <1>1, <1>3, <2>1, <2>2
<1> HIDE DEF new, reference
<1> QED
  BY <1>1, <1>2, <1>3, <1>4, <1>5, LeafReturning DEF TypeOK

\* What is kept is kept for the current behaviour.
LEMMA KeepFacts ==
    ASSUME TypeOK, NEW c \in Nodes, c = Current, NEW value \in Nat, Keep(value)
    PROVE  memo' \in [Nodes -> Nat] /\ memo'[c] = value /\ \A n \in Nodes \ {c} : memo'[n] = memo[n]
BY DEF Keep, TypeOK

\* A timer keeps its finish time.
LEMMA WaitElapsedStep == ASSUME IInv, WaitElapsed PROVE IInv'
<1>1. PICK c \in Nodes : c = Current
  BY StartFacts DEF WaitElapsed
<1>2. path # <<>> /\ Kind(c) = "elapsed" /\ TypeOK /\ memo[c] \in Nat /\ now \in Nat
  BY <1>1, StartFacts DEF WaitElapsed
<1> DEFINE new == IF now >= Finish THEN "SUCCESS" ELSE "RUNNING"
<1>3. /\ Return(new, {}) /\ Keep(Finish) /\ previous' = previous /\ emitted' = emitted
  BY DEF WaitElapsed
<1>4. new \in Answers /\ Kind(c) \in Leaves /\ Kind(c) # "event"
  BY <1>2 DEF Answers, Leaves
<1>5. Finish \in Nat
  <2>1. c[1] \in DOMAIN Elements /\ Elements[c[1]].op = "elapsed"
    BY <1>2, <1>4, LeafElement
  <2>2. Arg \in Nat
    BY <1>1, <2>1, ElementFacts DEF Arg
  <2> QED
    BY <1>1, <1>2, <2>2 DEF Finish
<1> HIDE DEF new
<1>6. memo' \in [Nodes -> Nat] /\ \A n \in Nodes \ {c} : memo'[n] = memo[n]
  BY <1>1, <1>2, <1>3, <1>5, KeepFacts
<1> QED
  BY <1>1, <1>2, <1>3, <1>4, <1>6, LeafReturning DEF TypeOK

\* An action may answer anything.
LEMMA ActStep == ASSUME IInv, Act PROVE IInv'
<1>1. PICK c \in Nodes : c = Current
  BY StartFacts DEF Act
<1>2. path # <<>> /\ Kind(c) = "action" /\ TypeOK
  BY <1>1, StartFacts DEF Act
<1>3. PICK answer \in {"RUNNING", "SUCCESS", "FAILURE"} : Return(answer, {})
  BY DEF Act
<1>4. memo' = memo /\ previous' = previous /\ emitted' = emitted
  BY DEF Act, kept
<1>5. answer \in Answers /\ Kind(c) \in Leaves /\ Kind(c) # "event"
  BY <1>2 DEF Answers, Leaves
<1> QED
  BY <1>1, <1>2, <1>3, <1>4, <1>5, LeafReturning DEF TypeOK

\* What is left to show of an action that ticks a child.
LEMMA Descending ==
    ASSUME IInv, NEW c \in Nodes, c = Current, path # <<>>, NEW roots \in SUBSET Kids(c),
           status' = Stopped(roots), NEW value \in Nat, Keep(value),
           NEW p \in DOMAIN Children(c), p = IF Kind(c) \in Modifiers THEN 1 ELSE value,
           Descend(Children(c)[p]), UnderWay(c)', roots = {} \/ status[c] # "RUNNING",
           started => Kind(c) \notin Modifiers /\ p > memo[c],
           Kind(c) = "one_of" => started /\ (memo[c] = 0 => p = 1),
           Kind(c) = "timeout" => value = IF status[c] # "RUNNING" THEN now + Modifier(c[1], c[2]).duration
                                          ELSE memo[c]
    PROVE  IInv'
<1>1. TypeOK /\ PathInv
  BY DEF IInv
<1>2. /\ path' = Append(path, Children(c)[p]) /\ started' = FALSE
      /\ UNCHANGED inputs /\ previous' = previous /\ emitted' = emitted /\ ticked' = ticked
  BY DEF Descend
<1>3. memo' \in [Nodes -> Nat] /\ memo'[c] = value /\ \A n \in Nodes \ {c} : memo'[n] = memo[n]
  BY <1>1, KeepFacts
<1>4. status' \in [Nodes -> Statuses]
      /\ \A n \in Nodes : status'[n] = IF n \in Below(roots) THEN "INVALID" ELSE status[n]
  BY <1>1, StoppedFacts
<1>5. status'[c] = status[c]
  BY <1>1, <1>4, BelowFacts
<1>6. Quiet(roots)
  BY <1>2, <1>3, <1>4 DEF Quiet
<1>7. path' \in Seq(Nodes)
  <2>1. Children(c)[p] \in Nodes
    BY ChildrenFacts DEF Kids
  <2> QED
    BY <1>1, <1>2, <2>1 DEF TypeOK
<1>8. TypeOK'
  <2>1. /\ scenario' = scenario /\ level' = level /\ since' = since /\ now' = now /\ before' = before
    BY <1>2 DEF inputs
  <2> QED
    BY <1>1, <1>2, <1>3, <1>4, <1>7, <2>1 DEF TypeOK
<1>9. p = IF Kind(c) \in Modifiers THEN 1 ELSE memo'[c]
  BY <1>3
<1> QED
  BY <1>2, <1>3, <1>5, <1>6, <1>8, <1>9, PushStep

\* Stopping nothing changes nothing.
LEMMA StopsNothing == ASSUME TypeOK PROVE Stopped({}) = status
<1>1. Below({}) = {}
  BY DEF Below
<1>2. \A n \in Nodes : Stopped({})[n] = status[n]
  BY <1>1, StoppedFacts
<1> QED
  BY <1>2, StoppedFacts DEF TypeOK

\* A serial that runs on starts with the child it remembers, any other sequence with its first.
LEMMA StartSequenceStep == ASSUME IInv, StartSequence PROVE IInv'
<1>1. PICK c \in Nodes : c = Current
  BY StartFacts DEF StartSequence
<1>2. /\ path # <<>> /\ Kind(c) \in Sequential /\ TypeOK /\ PathInv /\ memo[c] \in Nat
      /\ ~started /\ c \notin Entered /\ c \notin ticked
  BY <1>1, StartFacts, PathFacts DEF StartSequence
<1>3. /\ Kind(c) \notin Modifiers /\ Kind(c) \notin Concurrent /\ Kind(c) # "one_of" /\ Kind(c) # "timeout"
      /\ DOMAIN Children(c) = 1..Len(Children(c)) /\ Len(Children(c)) \in Nat /\ Len(Children(c)) >= 1
  BY <1>2, KindsApart, ChildrenFacts
<1>4. Settled(c) /\ \A d \in Kids(c) : d \notin ticked
  <2>1. Settled(c)
    BY <1>2 DEF IInv
  <2> QED
    BY <1>2, <2>1 DEF Settled
<1> DEFINE first == IF Fresh \/ ~HasMemory THEN 1 ELSE memo[Current]
           roots == IF Fresh THEN Kids(c) ELSE {}
<1>5. Keep(first) /\ Descend(Children(c)[first]) /\ status' = Stopped(roots)
  BY <1>1 DEF StartSequence, StopsChildren, Child
<1>6. roots \in SUBSET Kids(c) /\ (roots = {} \/ status[c] # "RUNNING")
  BY <1>1 DEF Fresh
<1>7. first \in DOMAIN Children(c) /\ first \in Nat
  <2>1. CASE Fresh \/ ~HasMemory
    BY <1>3, <2>1
  <2>2. CASE ~Fresh /\ HasMemory
    <3>1. status[c] = "RUNNING" /\ Kind(c) = "serial"
      BY <1>1, <2>2 DEF Fresh, HasMemory
    <3>2. memo[c] \in DOMAIN Children(c)
      BY <1>4, <3>1 DEF Settled
    <3> QED
      BY <1>1, <1>2, <2>2, <3>2
  <2> QED
    BY <2>1, <2>2
<1>8. memo'[c] = first
  BY <1>1, <1>2, <1>5, <1>7, KeepFacts
<1>9. ticked' = ticked
  BY <1>5 DEF Descend
<1>10. \A d \in Kids(c) : status'[d] = "RUNNING" => status[d] = "RUNNING" /\ ~Fresh
  <2>1. SUFFICES ASSUME NEW d \in Kids(c), status'[d] = "RUNNING" PROVE status[d] = "RUNNING" /\ ~Fresh
    OBVIOUS
  <2>2. d \in Nodes
    BY ChildrenFacts
  <2>3. d \notin Below(roots) /\ status[d] = "RUNNING"
    BY <1>2, <1>5, <2>1, <2>2, StoppedFacts
  <2>4. roots \subseteq Below(roots)
    BY <1>1, <1>2, <1>6, BelowFacts
  <2> QED
    BY <2>1, <2>3, <2>4
<1>11. ASSUME NEW j \in DOMAIN Children(c), j < first \/ (j > first /\ Kind(c) = "serial")
       PROVE  status'[Children(c)[j]] # "RUNNING"
  <2>1. Children(c)[j] \in Kids(c)
    BY DEF Kids
  <2>2. SUFFICES ASSUME status[Children(c)[j]] = "RUNNING", ~Fresh PROVE FALSE
    BY <1>10, <2>1
  <2>3. Kind(c) = "serial"
    <3>1. j >= 1
      BY <1>3
    <3>2. Kind(c) # "serial" => first = 1
      BY <1>1 DEF HasMemory
    <3> QED
      BY <1>3, <1>7, <1>11, <3>1, <3>2
  <2>4. first = memo[c] /\ status[c] = "RUNNING"
    BY <1>1, <2>2, <2>3 DEF Fresh, HasMemory
  <2>5. j \in DOMAIN Children(c) \ {memo[c]}
    BY <1>2, <1>3, <1>11, <2>4
  <2> QED
    BY <1>4, <2>2, <2>3, <2>4, <2>5 DEF Settled
<1>12. UnderWay(c)'
  <2>1. \A j \in DOMAIN Children(c) : Children(c)[j] \notin ticked'
    BY <1>4, <1>9 DEF Kids
  <2> QED
    BY <1>3, <1>7, <1>8, <1>11, <2>1 DEF UnderWay
<1> HIDE DEF first, roots
<1> QED
  BY <1>1, <1>2, <1>3, <1>5, <1>6, <1>7, <1>12, Descending

\* The child that has succeeded does not run, nor does any before it.
LEMMA NextInSequenceStep == ASSUME IInv, NextInSequence PROVE IInv'
<1>1. PICK c \in Nodes : c = Current
  BY StartFacts DEF NextInSequence
<1>2. /\ path # <<>> /\ Kind(c) \in Sequential /\ TypeOK /\ memo[c] \in Nat
      /\ started /\ UnderWay(c) /\ ChildReturned
  BY <1>1, StartFacts DEF NextInSequence, IInv
<1>3. /\ Kind(c) \notin Modifiers /\ Kind(c) \notin Concurrent /\ Kind(c) # "one_of" /\ Kind(c) # "timeout"
      /\ DOMAIN Children(c) = 1..Len(Children(c)) /\ Len(Children(c)) \in Nat
  BY <1>2, KindsApart, ChildrenFacts
<1>4. /\ status[Children(c)[memo[c]]] = "SUCCESS" /\ memo[c] < Len(Children(c))
      /\ Keep(memo[c] + 1) /\ Descend(Children(c)[memo[c] + 1]) /\ status' = status
  BY <1>1 DEF NextInSequence, Child
<1> DEFINE p == memo[c] + 1
<1>5. p \in Nat /\ p \in DOMAIN Children(c) /\ p > memo[c]
  BY <1>2, <1>3, <1>4
<1>6. status' = Stopped({}) /\ {} \in SUBSET Kids(c)
  BY <1>2, <1>4, StopsNothing
<1>7. memo'[c] = p
  BY <1>1, <1>2, <1>4, <1>5, KeepFacts
<1>8. ticked' = ticked
  BY <1>4 DEF Descend
<1>9. UnderWay(c)'
  <2>1. /\ memo[c] \in DOMAIN Children(c)
        /\ \A j \in DOMAIN Children(c) :
               j < memo[c] \/ (j > memo[c] /\ Kind(c) = "serial") => status[Children(c)[j]] # "RUNNING"
        /\ \A j \in DOMAIN Children(c) : j > memo[c] => Children(c)[j] \notin ticked
    BY <1>2, <1>3 DEF UnderWay
  <2>2. \A j \in DOMAIN Children(c) : (j < p => j < memo[c] \/ j = memo[c]) /\ (j > p => j > memo[c])
    BY <1>2, <1>3
  <2>3. \A j \in DOMAIN Children(c) :
            j < p \/ (j > p /\ Kind(c) = "serial") => status'[Children(c)[j]] # "RUNNING"
    BY <1>4, <2>1, <2>2
  <2> HIDE DEF p
  <2> QED
    BY <1>3, <1>5, <1>7, <1>8, <2>1, <2>2, <2>3 DEF UnderWay
<1> QED
  BY <1>1, <1>2, <1>3, <1>4, <1>5, <1>6, <1>9, Descending

\* What a sequence returns is what its child has; nothing behind that child is left running.
LEMMA EndSequenceStep == ASSUME IInv, EndSequence PROVE IInv'
<1>1. PICK c \in Nodes : c = Current
  BY StartFacts DEF EndSequence
<1>2. /\ path # <<>> /\ Kind(c) \in Sequential /\ TypeOK /\ memo[c] \in Nat
      /\ started /\ UnderWay(c) /\ ChildReturned
  BY <1>1, StartFacts DEF EndSequence, IInv
<1>3. /\ Kind(c) \notin Modifiers /\ Kind(c) \notin Concurrent /\ Kind(c) # "one_of" /\ Kind(c) # "timeout"
      /\ Kind(c) # "event" /\ ~RunsWithChildren(c)
      /\ DOMAIN Children(c) = 1..Len(Children(c)) /\ Len(Children(c)) \in Nat
  BY <1>2, KindsApart, ChildrenFacts DEF RunsWithChildren
<1> DEFINE d == Children(c)[memo[c]]
           new == status[d]
           behind == {Children(c)[i] : i \in (memo[c] + 1)..Len(Children(c))}
           roots == IF new = "SUCCESS" \/ HasMemory THEN {} ELSE behind
<1>4. /\ new # "SUCCESS" \/ memo[c] = Len(Children(c))
      /\ Return(new, roots) /\ memo' = memo /\ previous' = previous /\ emitted' = emitted
  BY <1>1 DEF EndSequence, Child, kept
<1>5. /\ memo[c] \in DOMAIN Children(c)
      /\ \A j \in DOMAIN Children(c) :
             j < memo[c] \/ (j > memo[c] /\ Kind(c) = "serial") => status[Children(c)[j]] # "RUNNING"
  BY <1>2 DEF UnderWay
<1>6. d \in Nodes /\ new # "INVALID" /\ (d \in ticked \/ new = "SUCCESS")
  <2>1. d \in Nodes
    BY <1>5, ChildrenFacts DEF Kids
  <2>2. Done(c, d)
    BY <1>1, <1>2, <1>3 DEF ChildReturned, ComeTo, Place
  <2> QED
    BY <2>1, <2>2 DEF Done
<1>7. new \in Answers
  BY <1>2, <1>6 DEF Answers, TypeOK, Statuses
<1>8. roots \in SUBSET Kids(c)
  <2>1. \A i \in (memo[c] + 1)..Len(Children(c)) : i \in DOMAIN Children(c)
    BY <1>2, <1>3
  <2> QED
    BY <2>1 DEF Kids
<1>9. ASSUME NEW x \in Kids(c), x \notin roots, status[x] = "RUNNING"
      PROVE  new = "RUNNING" /\ x \in ticked
  <2>1. PICK j \in DOMAIN Children(c) : x = Children(c)[j]
    BY DEF Kids
  <2>2. j \in Nat /\ ~(j < memo[c])
    BY <1>3, <1>5, <1>9, <2>1
  <2>3. CASE j = memo[c]
    BY <1>6, <1>9, <2>1, <2>3
  <2>4. CASE j > memo[c]
    <3>1. Kind(c) # "serial" /\ memo[c] # Len(Children(c))
      BY <1>2, <1>3, <1>5, <1>9, <2>1, <2>4
    <3>2. x \in behind
      <4>1. j \in (memo[c] + 1)..Len(Children(c))
        BY <1>2, <1>3, <2>4
      <4> QED
        BY <2>1, <4>1
    <3>3. new # "SUCCESS" /\ ~HasMemory
      BY <1>1, <1>4, <3>1 DEF HasMemory
    <3> QED
      BY <1>9, <3>2, <3>3
  <2> QED
    BY <1>2, <2>2, <2>3, <2>4
<1>10. Kind(c) = "serial" /\ new = "RUNNING" =>
           memo'[c] \in DOMAIN Children(c)
           /\ \A j \in DOMAIN Children(c) \ {memo'[c]} : status[Children(c)[j]] # "RUNNING"
  <2>1. \A j \in DOMAIN Children(c) \ {memo[c]} : j < memo[c] \/ j > memo[c]
    BY <1>2, <1>3
  <2> QED
    BY <1>4, <1>5, <2>1
<1> HIDE DEF new, roots
<1> QED
  BY <1>1, <1>2, <1>3, <1>4, <1>7, <1>8, <1>9, <1>10, Returning DEF TypeOK

\* A parallel that starts has stopped its children.
LEMMA StartParallelStep == ASSUME IInv, StartParallel PROVE IInv'
<1>1. PICK c \in Nodes : c = Current
  BY StartFacts DEF StartParallel
<1>2. path # <<>> /\ Kind(c) \in Concurrent /\ TypeOK /\ PathInv /\ ~started
  BY <1>1, StartFacts DEF StartParallel
<1> DEFINE roots == IF Fresh THEN Kids(c) ELSE {}
<1>3. /\ status' = Stopped(roots) /\ Keep(0) /\ started' = TRUE
      /\ UNCHANGED inputs /\ previous' = previous /\ emitted' = emitted /\ path' = path /\ ticked' = ticked
  BY <1>1 DEF StartParallel, StopsChildren
<1>4. roots \subseteq Kids(c) /\ (roots = {} \/ status[c] # "RUNNING")
  BY <1>1 DEF Fresh
<1> HIDE DEF roots
<1>5. memo' \in [Nodes -> Nat] /\ memo'[c] = 0 /\ \A n \in Nodes \ {c} : memo'[n] = memo[n]
  BY <1>1, <1>2, <1>3, KeepFacts
<1>6. /\ status' \in [Nodes -> Statuses]
      /\ \A n \in Nodes : status'[n] = IF n \in Below(roots) THEN "INVALID" ELSE status[n]
  BY <1>2, <1>3, StoppedFacts
<1>7. status'[c] = status[c]
  BY <1>1, <1>2, <1>4, <1>6, BelowFacts
<1>8. Quiet(roots)
  BY <1>1, <1>2, <1>3, <1>4, <1>5, <1>6 DEF Quiet
<1>9. TypeOK'
  BY <1>2, <1>3, <1>5, <1>6 DEF TypeOK, inputs
<1> QED
  BY <1>1, <1>2, <1>3, <1>4, <1>5, <1>7, <1>8, <1>9, OpenStep

\* The children before the next one have been ticked, or passed over as successful.
LEMMA NextInParallelStep == ASSUME IInv, NextInParallel PROVE IInv'
<1>1. PICK c \in Nodes : c = Current
  BY StartFacts DEF NextInParallel
<1>2. /\ path # <<>> /\ Kind(c) \in Concurrent /\ TypeOK /\ memo[c] \in Nat
      /\ started /\ UnderWay(c) /\ ChildReturned
  BY <1>1, StartFacts DEF NextInParallel, IInv
<1>3. /\ Kind(c) \notin Modifiers /\ Kind(c) \notin Sequential /\ Kind(c) # "timeout"
      /\ DOMAIN Children(c) = 1..Len(Children(c)) /\ Len(Children(c)) \in Nat
  BY <1>2, KindsApart, ChildrenFacts
<1>4. PICK i \in DOMAIN Children(c) :
          /\ i > memo[c] /\ ~Skips(i) /\ \A j \in (memo[c] + 1)..(i - 1) : Skips(j)
          /\ Keep(i) /\ Descend(Children(c)[i])
  BY <1>1 DEF NextInParallel, Child
<1>5. status' = Stopped({}) /\ {} \in SUBSET Kids(c) /\ status' = status
  BY <1>2, StopsNothing DEF NextInParallel
<1>6. i \in Nat /\ i > memo[c]
  BY <1>3, <1>4
<1>7. memo'[c] = i
  BY <1>1, <1>2, <1>4, <1>6, KeepFacts
<1>8. ticked' = ticked
  BY <1>4 DEF Descend
<1>9. ASSUME NEW j \in 1..(i - 1) PROVE Done(c, Children(c)[j])
  <2>1. /\ memo[c] \in 0..Len(Children(c)) /\ \A k \in 1..(memo[c] - 1) : Done(c, Children(c)[k])
    BY <1>2 DEF UnderWay
  <2>2. j \in 1..(memo[c] - 1) \/ j = memo[c] \/ j \in (memo[c] + 1)..(i - 1)
    BY <1>2, <1>6
  <2>3. CASE j = memo[c]
    BY <1>1, <1>2, <1>3, <1>6, <2>3 DEF ChildReturned, ComeTo, Place
  <2>4. CASE j \in (memo[c] + 1)..(i - 1)
    <3>1. status[Children(c)[j]] = "SUCCESS" /\ Kind(c) = "parallel"
      BY <1>1, <1>4, <2>4 DEF Skips, Child
    <3> QED
      BY <3>1 DEF Done
  <2> QED
    BY <2>1, <2>2, <2>3, <2>4
<1>10. UnderWay(c)'
  <2>1. \A j \in DOMAIN Children(c) : j > i => Children(c)[j] \notin ticked
    BY <1>2, <1>3, <1>6 DEF UnderWay
  <2>2. i \in 0..Len(Children(c))
    BY <1>3, <1>4
  <2>3. \A j \in 1..(i - 1) : Done(c, Children(c)[j])'
    BY <1>5, <1>8, <1>9 DEF Done
  <2> QED
    BY <1>3, <1>7, <1>8, <2>1, <2>2, <2>3 DEF UnderWay
<1>11. Kind(c) = "one_of" => (memo[c] = 0 => i = 1)
  <2>1. SUFFICES ASSUME Kind(c) = "one_of", memo[c] = 0, i # 1 PROVE FALSE
    OBVIOUS
  <2>2. 1 \in (memo[c] + 1)..(i - 1)
    BY <1>6, <2>1
  <2>3. Skips(1)
    BY <1>4, <2>2
  <2> QED
    BY <1>1, <2>1, <2>3 DEF Skips
<1> QED
  BY <1>1, <1>2, <1>3, <1>4, <1>5, <1>6, <1>10, <1>11, Descending

\* A verdict stops the children that still run, and a one_of without one has only such children.
LEMMA EndParallelStep == ASSUME IInv, EndParallel PROVE IInv'
<1>1. PICK c \in Nodes : c = Current
  BY StartFacts DEF EndParallel
<1>2. /\ path # <<>> /\ Kind(c) \in Concurrent /\ TypeOK /\ memo[c] \in Nat
      /\ started /\ UnderWay(c) /\ ChildReturned
  BY <1>1, StartFacts DEF EndParallel, IInv
<1>3. /\ Kind(c) \notin Modifiers /\ Kind(c) \notin Sequential /\ Kind(c) # "timeout" /\ Kind(c) # "serial"
      /\ Kind(c) # "event"
      /\ DOMAIN Children(c) = 1..Len(Children(c)) /\ Len(Children(c)) \in Nat /\ Len(Children(c)) >= 1
  BY <1>2, KindsApart, ChildrenFacts
<1>4. /\ \A i \in (memo[c] + 1)..Len(Children(c)) : Skips(i)
      /\ Return(Verdict, Abandoned) /\ Keep(0) /\ previous' = previous /\ emitted' = emitted
  BY <1>1 DEF EndParallel
<1>5. ASSUME NEW d \in Kids(c) PROVE Done(c, d)
  <2>1. PICK j \in DOMAIN Children(c) : d = Children(c)[j]
    BY DEF Kids
  <2>2. /\ memo[c] \in 0..Len(Children(c)) /\ \A k \in 1..(memo[c] - 1) : Done(c, Children(c)[k])
    BY <1>2 DEF UnderWay
  <2>3. j \in 1..(memo[c] - 1) \/ j = memo[c] \/ j \in (memo[c] + 1)..Len(Children(c))
    BY <1>2, <1>3, <2>1
  <2>4. CASE j = memo[c]
    <3>1. memo[c] # 0
      BY <1>3, <2>1, <2>4
    <3> QED
      BY <1>1, <1>2, <1>3, <2>1, <2>4, <3>1 DEF ChildReturned, ComeTo, Place
  <2>5. CASE j \in (memo[c] + 1)..Len(Children(c))
    <3>1. status[d] = "SUCCESS" /\ Kind(c) = "parallel"
      BY <1>1, <1>4, <2>1, <2>5 DEF Skips, Child
    <3> QED
      BY <3>1 DEF Done
  <2> QED
    BY <2>1, <2>2, <2>3, <2>4, <2>5
<1>6. Verdict \in Answers /\ (Verdict # "RUNNING" => Abandoned = {d \in Kids(c) : status[d] = "RUNNING"})
      /\ (Verdict = "RUNNING" => Abandoned = {}) /\ Abandoned \in SUBSET Kids(c)
  BY <1>1 DEF Verdict, Answers, Abandoned
<1>7. ASSUME NEW d \in Kids(c), d \notin Abandoned, status[d] = "RUNNING"
      PROVE  Verdict = "RUNNING" /\ d \in ticked
  BY <1>5, <1>6, <1>7 DEF Done
<1>8. ASSUME Verdict = "RUNNING", RunsWithChildren(c), NEW d \in Kids(c)
      PROVE  status[d] = "RUNNING"
  <2>1. Kind(c) = "one_of"
    BY <1>3, <1>8 DEF RunsWithChildren
  <2>2. status[d] # "FAILURE" /\ status[d] # "SUCCESS"
    BY <1>1, <1>8, <2>1 DEF Verdict
  <2>3. status[d] # "INVALID"
    BY <1>5 DEF Done
  <2>4. d \in Nodes
    BY ChildrenFacts
  <2> QED
    BY <1>2, <2>2, <2>3, <2>4 DEF TypeOK, Statuses
<1>9. Kind(c) = "one_of" => memo[c] # 0
  <2>1. SUFFICES ASSUME Kind(c) = "one_of", memo[c] = 0 PROVE FALSE
    OBVIOUS
  <2>2. 1 \in (memo[c] + 1)..Len(Children(c))
    BY <1>3, <2>1
  <2> QED
    BY <1>1, <1>4, <2>1, <2>2 DEF Skips
<1>10. memo' \in [Nodes -> Nat] /\ \A n \in Nodes \ {c} : memo'[n] = memo[n]
  BY <1>1, <1>2, <1>4, KeepFacts
<1> QED
  BY <1>1, <1>2, <1>3, <1>4, <1>6, <1>7, <1>8, <1>9, <1>10, Returning DEF TypeOK

\* A modifier and its child.
LEMMA ModifierKids ==
    ASSUME NEW c \in Nodes, c = Current, Kind(c) \in Modifiers
    PROVE  /\ Kids(c) = {Child(1)} /\ 1 \in DOMAIN Children(c) /\ Child(1) = Children(c)[1]
           /\ \A j \in DOMAIN Children(c) : j = 1
           /\ Kind(c) = This.kind /\ This = Modifier(c[1], c[2])
           /\ Kind(c) = "timeout" => This.duration \in Nat
           /\ Kind(c) = "is" => This.to \in Answers
           /\ Kind(c) \notin Leaves /\ Kind(c) \notin Sequential /\ Kind(c) \notin Concurrent
           /\ Kind(c) # "one_of" /\ Kind(c) # "serial" /\ Kind(c) # "event"
           /\ RunsWithChildren(c) => EndsWithChild(This)
<1>1. /\ Len(Children(c)) = 1 /\ Kids(c) = {Children(c)[1]} /\ DOMAIN Children(c) = 1..Len(Children(c))
      /\ c[2] \in 1..(Innermost(c[1]) - 1) /\ Kind(c) = Modifier(c[1], c[2]).kind
  BY ChildrenFacts
<1>2. This = Modifier(c[1], c[2]) /\ Child(1) = Children(c)[1]
  BY DEF This, Child
<1>3. 1 \in DOMAIN Children(c) /\ \A j \in DOMAIN Children(c) : j = 1
  BY <1>1
<1>4. c[1] \in DOMAIN Elements
  BY NodeFacts
<1>5. /\ Kind(c) \notin Leaves /\ Kind(c) \notin Sequential /\ Kind(c) \notin Concurrent
      /\ Kind(c) # "one_of" /\ Kind(c) # "serial" /\ Kind(c) # "event"
  BY KindsApart
<1>6. /\ Kind(c) = "timeout" => This.duration \in Nat
      /\ Kind(c) = "is" => This.to \in Answers
  BY <1>1, <1>2, <1>4, ModifierFacts DEF Answers, Statuses
<1> QED
  BY <1>1, <1>2, <1>3, <1>5, <1>6 DEF RunsWithChildren

\* A modifier starts: a timeout fixes its end, unless it runs on.
LEMMA StartModifierStep == ASSUME IInv, StartModifier PROVE IInv'
<1>1. PICK c \in Nodes : c = Current
  BY StartFacts DEF StartModifier
<1>2. path # <<>> /\ Kind(c) \in Modifiers /\ TypeOK /\ memo[c] \in Nat /\ now \in Nat /\ ~started
  BY <1>1, StartFacts DEF StartModifier
<1> DEFINE value == IF ~Fresh THEN memo[c] ELSE IF Kind(c) = "timeout" THEN now + This.duration ELSE 0
<1>3. Keep(value) /\ Descend(Children(c)[1]) /\ status' = status
  BY <1>1 DEF StartModifier, Child
<1>4. /\ 1 \in DOMAIN Children(c) /\ This = Modifier(c[1], c[2]) /\ (Kind(c) = "timeout" => This.duration \in Nat)
      /\ Kind(c) \notin Sequential /\ Kind(c) \notin Concurrent /\ Kind(c) # "one_of"
  BY <1>1, <1>2, ModifierKids
<1>5. value \in Nat
  BY <1>2, <1>4
<1>6. Kind(c) = "timeout" => value = IF status[c] # "RUNNING" THEN now + Modifier(c[1], c[2]).duration ELSE memo[c]
  BY <1>1, <1>4 DEF Fresh
<1>7. UnderWay(c)'
  BY <1>2, <1>4 DEF UnderWay
<1>8. status' = Stopped({}) /\ {} \in SUBSET Kids(c)
  BY <1>2, <1>3, StopsNothing
<1> HIDE DEF value
<1> QED
  BY <1>1, <1>2, <1>3, <1>4, <1>5, <1>6, <1>7, <1>8, Descending

\* What is left to show of a modifier that returns.
LEMMA ModifierReturning ==
    ASSUME IInv, NEW kinds \in SUBSET Modifiers, GoesOn(kinds),
           NEW new \in Answers, NEW roots \in SUBSET {Child(1)}, Return(new, roots),
           memo' = memo \/ Keep(memo[Current] + 1), previous' = previous, emitted' = emitted,
           Of = "RUNNING" /\ roots = {} => new = "RUNNING",
           new = "RUNNING" /\ EndsWithChild(This) => roots = {} /\ Of = "RUNNING",
           Kind(Current) = "timeout" => memo' = memo /\ (new = "RUNNING" => now <= memo[Current])
    PROVE  IInv'
<1>1. PICK c \in Nodes : c = Current
  BY StartFacts
<1>2. /\ path # <<>> /\ Kind(c) \in Modifiers /\ TypeOK /\ memo[c] \in Nat /\ started /\ ChildReturned
  BY <1>1, StartFacts DEF IInv
<1>3. /\ Kids(c) = {Child(1)} /\ Kind(c) \notin Leaves /\ Kind(c) \notin Concurrent
      /\ Kind(c) # "one_of" /\ Kind(c) # "serial" /\ Kind(c) # "event"
      /\ RunsWithChildren(c) => EndsWithChild(This)
  BY <1>1, <1>2, ModifierKids
<1>4. Done(c, Child(1))
  BY <1>1, <1>2, <1>3 DEF ChildReturned, ComeTo, Place, Child
<1>5. ASSUME NEW d \in Kids(c), d \notin roots, status[d] = "RUNNING"
      PROVE  new = "RUNNING" /\ d \in ticked
  BY <1>3, <1>4, <1>5 DEF Done, Of
<1>6. new = "RUNNING" /\ RunsWithChildren(c) => roots = {} /\ \A d \in Kids(c) : status[d] = "RUNNING"
  BY <1>3 DEF Of
<1>7. memo' \in [Nodes -> Nat] /\ \A n \in Nodes \ {c} : memo'[n] = memo[n]
  <2>1. memo[c] + 1 \in Nat
    BY <1>2
  <2>2. CASE memo' = memo
    BY <1>2, <2>2 DEF TypeOK
  <2>3. CASE Keep(memo[Current] + 1)
    BY <1>1, <1>2, <2>1, <2>3, KeepFacts
  <2> QED
    BY <2>2, <2>3
<1>8. Kind(c) = "timeout" => memo'[c] = memo[c] /\ (new = "RUNNING" => now <= memo[c])
  BY <1>1
<1> QED
  BY <1>1, <1>2, <1>3, <1>5, <1>6, <1>7, <1>8, Returning DEF TypeOK

\* What the child of a modifier that goes on has returned.
LEMMA ChildAnswers == ASSUME IInv, GoesOn(Modifiers) PROVE Of \in Answers
<1>1. PICK c \in Nodes : c = Current
  BY StartFacts
<1>2. /\ Kind(c) \in Modifiers /\ TypeOK /\ started /\ ChildReturned
  BY <1>1, StartFacts DEF IInv
<1>3. Kids(c) = {Child(1)} /\ Kind(c) \notin Concurrent
  BY <1>1, <1>2, ModifierKids
<1>4. Done(c, Child(1)) /\ Child(1) \in Nodes
  BY <1>1, <1>2, <1>3, ChildrenFacts DEF ChildReturned, ComeTo, Place, Child
<1> QED
  BY <1>2, <1>4 DEF Done, Of, TypeOK, Statuses, Answers

\* A timeout past its end stops its child.
LEMMA ExpireStep == ASSUME IInv, Expire PROVE IInv'
<1>1. /\ {"timeout"} \in SUBSET Modifiers /\ GoesOn({"timeout"})
      /\ Return("FAILURE", {Child(1)}) /\ memo' = memo /\ previous' = previous /\ emitted' = emitted
  BY DEF Expire, kept, Modifiers
<1>2. "FAILURE" \in Answers
  BY DEF Answers
<1> QED
  BY <1>1, <1>2, ModifierReturning

\* A retry or repeat that goes on is no modifier that ends with its child.
LEMMA AgainStep == ASSUME IInv, Again PROVE IInv'
<1> DEFINE kinds == {"retry", "repeat"}
<1>1. /\ kinds \in SUBSET Modifiers /\ GoesOn(kinds)
      /\ Return("RUNNING", {}) /\ (memo' = memo \/ Keep(memo[Current] + 1))
      /\ previous' = previous /\ emitted' = emitted
  BY DEF Again, Modifiers
<1>2. "RUNNING" \in Answers
  BY DEF Answers
<1>3. ~EndsWithChild(This) /\ Kind(Current) # "timeout"
  <2>1. PICK c \in Nodes : c = Current
    BY <1>1, StartFacts
  <2>2. Kind(c) \in {"retry", "repeat"} /\ Kind(c) \in Modifiers
    BY <1>1, <2>1 DEF GoesOn
  <2>3. This.kind = Kind(c)
    BY <2>1, <2>2, ModifierKids
  <2> QED
    BY <2>1, <2>2, <2>3 DEF EndsWithChild
<1> HIDE DEF kinds
<1> QED
  BY <1>1, <1>2, <1>3, ModifierReturning

\* The last attempt or repetition has ended.
LEMMA EnoughStep == ASSUME IInv, Enough PROVE IInv'
<1> DEFINE kinds == {"retry", "repeat"}
<1>1. /\ kinds \in SUBSET Modifiers /\ GoesOn(kinds) /\ Counts
      /\ Return(Of, {}) /\ Keep(memo[Current] + 1)
      /\ previous' = previous /\ emitted' = emitted
  BY DEF Enough, Modifiers
<1>2. Of \in Answers /\ Of # "RUNNING" /\ Kind(Current) # "timeout"
  BY <1>1 DEF Answers, Counts
<1> HIDE DEF kinds
<1> QED
  BY <1>1, <1>2, ModifierReturning

\* A child whose end is claimed is stopped.
LEMMA MapStatusStep == ASSUME IInv, MapStatus PROVE IInv'
<1> DEFINE roots == IF This.to # "RUNNING" /\ Of = "RUNNING" THEN {Child(1)} ELSE {}
<1>1. /\ {"is"} \in SUBSET Modifiers /\ GoesOn({"is"})
      /\ Return(This.to, roots) /\ memo' = memo /\ previous' = previous /\ emitted' = emitted
  BY DEF MapStatus, kept, Modifiers
<1>2. PICK c \in Nodes : c = Current
  BY <1>1, StartFacts
<1>3. Kind(c) = "is" /\ Kind(c) \in Modifiers
  BY <1>1, <1>2 DEF GoesOn
<1>4. This.kind = "is" /\ This.to \in Answers
  BY <1>2, <1>3, ModifierKids
<1>5. This.to = "RUNNING" => ~EndsWithChild(This)
  BY <1>4 DEF EndsWithChild
<1>6. roots \in SUBSET {Child(1)} /\ (Of = "RUNNING" /\ roots = {} => This.to = "RUNNING")
  OBVIOUS
<1> HIDE DEF roots
<1> QED
  BY <1>1, <1>2, <1>3, <1>4, <1>5, <1>6, ModifierReturning

\* An inverter ends when its child does.
LEMMA InvertStep == ASSUME IInv, Invert PROVE IInv'
<1> DEFINE new == IF Of = "SUCCESS" THEN "FAILURE" ELSE "SUCCESS"
<1>1. /\ {"inverter"} \in SUBSET Modifiers /\ GoesOn({"inverter"}) /\ Inverts
      /\ Return(new, {}) /\ memo' = memo /\ previous' = previous /\ emitted' = emitted
  BY DEF Invert, kept, Modifiers
<1>2. new \in Answers /\ new # "RUNNING" /\ Of # "RUNNING"
  BY <1>1 DEF Answers, Inverts
<1> HIDE DEF new
<1> QED
  BY <1>1, <1>2, ModifierReturning

\* A modifier that passes on what its child returns is not past its end.
LEMMA PassOnStep == ASSUME IInv, PassOn PROVE IInv'
<1>1. /\ Modifiers \in SUBSET Modifiers /\ GoesOn(Modifiers) /\ ~Expired
      /\ Return(Of, {}) /\ memo' = memo /\ previous' = previous /\ emitted' = emitted
  BY DEF PassOn, kept
<1>2. Of \in Answers
  BY <1>1, ChildAnswers
<1>3. Kind(Current) = "timeout" => now <= memo[Current]
  <2>1. memo[Current] \in Nat /\ now \in Nat
    BY <1>1, StartFacts
  <2> QED
    BY <1>1, <2>1 DEF Expired
<1> QED
  BY <1>1, <1>2, <1>3, ModifierReturning
-----------------------------------------------------------------------------
(* The theorems                                                            *)

\* Between two ticks no behaviour is under way.
LEMMA NothingUnderWay ==
    ASSUME TypeOK, PathInv, path = <<>>
    PROVE  Entered = {} /\ ~started
<1>1. ~started /\ Len(path) = 0
  BY DEF PathInv
<1>2. Reached = -1
  BY <1>1 DEF Reached
<1>3. 1..Reached = {}
  BY <1>2
<1> QED
  BY <1>1, <1>3 DEF Entered

\* Before the first tick nothing runs and nothing is under way.
LEMMA InitInvariant == Init => IInv
<1> SUFFICES ASSUME Init PROVE IInv
  OBVIOUS
<1>1. /\ path = <<>> /\ started = FALSE /\ ticked = {} /\ now = 0 /\ before = {} /\ emitted = {}
      /\ scenario \in Scenarios /\ \A n \in Nodes : status[n] = "INVALID"
  BY DEF Init
<1>2. TypeOK
  <2>1. MaxNow \in Nat
    BY TreeAssumption
  <2>2. 0 \in 0..MaxNow /\ 0 \in 0..0 /\ path \in Seq(Nodes)
    BY <1>1, <2>1
  <2>3. memo \in [Nodes -> Nat] /\ previous \in [Edges -> Levels \cup {NoReference}]
        /\ status \in [Nodes -> Statuses] /\ level \in Levels
    BY DEF Init, Statuses, Levels
  <2> QED
    BY <1>1, <2>2, <2>3 DEF TypeOK, Init
<1>3. Len(path) = 0 /\ 1..Len(path) = {} /\ 1..(Len(path) - 1) = {}
  BY <1>1
<1>4. PathInv
  BY <1>1, <1>3 DEF PathInv
<1>5. Entered = {}
  BY <1>1, <1>2, <1>4, NothingUnderWay
<1>6. \A n \in Nodes : Settled(n)
  <2>1. \A n \in Nodes : Kids(n) \subseteq Nodes
    BY ChildrenFacts
  <2> QED
    BY <1>1, <2>1 DEF Settled
<1>7. ChildReturned /\ EventSeen
  BY <1>1 DEF ChildReturned, EventSeen
<1>8. AtRest
  BY <1>1, <1>2, LayersOfTheScenario DEF AtRest
<1>9. OthersRest
  BY <1>1, ScenarioIsNoChild, OutermostIsNode, TreeAssumption DEF OthersRest
<1>10. StraightDown
  BY <1>1 DEF StraightDown
<1>11. Deadline
  <2>1. \A k \in Timeouts : Layer(k) \in Nodes
    BY <1>2, LayersOfTheScenario
  <2>2. MaxStep \in Nat /\ ~(now > MaxStep)
    BY <1>1, TreeAssumption
  <2> QED
    BY <1>1, <1>5, <2>1, <2>2 DEF Deadline, TickedOrEntered
<1> QED
  BY <1>2, <1>4, <1>5, <1>6, <1>7, <1>8, <1>9, <1>10, <1>11 DEF IInv

\* The clock stays within its bound and the variable within its values.
LEMMA TickTreeTypes ==
    ASSUME TypeOK, NEW delay \in 1..MaxStep, NEW seen \in Readings, TickTree(delay, seen)
    PROVE  TypeOK'
<1>1. /\ now' = IF now + delay > MaxNow THEN MaxNow ELSE now + delay
      /\ level' = seen /\ since' = IF seen = level THEN since ELSE now'
      /\ path' = <<Root>> /\ ticked' = {} /\ before' = emitted
      /\ UNCHANGED <<scenario, status, memo, previous, emitted, started>>
  BY DEF TickTree, kept
<1>2. MaxNow \in Nat /\ MaxStep \in Nat
  BY TreeAssumption
<1>3. now \in 0..MaxNow /\ since \in 0..now
  BY DEF TypeOK
<1>4. now' \in 0..MaxNow /\ now <= now'
  BY <1>1, <1>2, <1>3
<1>5. since' \in 0..now'
  <2>1. CASE seen = level
    BY <1>1, <1>2, <1>3, <1>4, <2>1
  <2>2. CASE seen # level
    BY <1>1, <1>2, <1>4, <2>2
  <2> QED
    BY <2>1, <2>2
<1>6. level' \in Levels
  BY <1>1 DEF Readings, TypeOK
<1>7. path' \in Seq(Nodes)
  BY <1>1, LayersOfTheScenario
<1> QED
  BY <1>1, <1>4, <1>5, <1>6, <1>7 DEF TypeOK

\* A step that changes nothing.
LEMMA NothingHappens == ASSUME IInv, UNCHANGED vars PROVE IInv'
<1>1. UNCHANGED <<scenario, status, memo, previous, emitted, level, since, now, path, started, ticked, before>>
  BY DEF vars
<1>2. Entered' = Entered
  BY <1>1 DEF Entered, Reached
<1>3. TypeOK' /\ EventSeen' /\ AtRest' /\ OthersRest'
  BY <1>1 DEF IInv, TypeOK, EventSeen, AtRest, OthersRest, Root
<1>4. PathInv'
  <2>1. PathInv /\ path' = path /\ started' = started /\ Root' = Root /\ ticked' = ticked /\ memo' = memo
    BY <1>1 DEF IInv, Root
  <2>2. ASSUME NEW k \in 1..(Len(path) - 1) PROVE AtAChild(path[k])' /\ path[k + 1] = ComeTo(path[k])'
    BY <2>1 DEF PathInv, AtAChild, ComeTo, Place
  <2>3. \A k : {path'[j] : j \in 1..k} = {path[j] : j \in 1..k}
    BY <2>1
  <2>4. \A k \in 1..Len(path') : above[path'[k]] = {path'[j] : j \in 1..k} /\ path'[k] \notin ticked'
    BY <2>1, <2>3 DEF PathInv
  <2>5. \A j, k \in 1..Len(path') : path'[j] = path'[k] => j = k
    BY <2>1 DEF PathInv
  <2> QED
    BY <2>1, <2>2, <2>4, <2>5 DEF PathInv
<1>5. ChildReturned'
  BY <1>1 DEF IInv, ChildReturned, AtAChild, ComeTo, Place, Current, Done
<1>6. \A n \in Entered' : UnderWay(n)'
  BY <1>1, <1>2 DEF IInv, UnderWay, Done
<1>7. \A n \in Nodes \ Entered' : Settled(n)'
  BY <1>1, <1>2 DEF IInv, Settled, RunsWithChildren
<1>8. StraightDown' /\ Deadline'
  <2>1. Timeouts' = Timeouts /\ Root' = Root
    BY <1>1 DEF Timeouts, Root
  <2> QED
    BY <1>1, <1>2, <2>1 DEF IInv, StraightDown, Deadline, TickedOrEntered, Layer, Latest
<1> QED
  BY <1>3, <1>4, <1>5, <1>6, <1>7, <1>8 DEF IInv

\* The invariant holds in every state of the specification, whatever the scenarios are.
THEOREM TreeInvariant == Spec => []IInv
<1>1. Init => IInv
  BY InitInvariant
<1>2. IInv /\ [Next]_vars => IInv'
  <2> SUFFICES ASSUME IInv, [Next]_vars PROVE IInv'
    OBVIOUS
  <2>1. CASE \E delay \in 1..MaxStep, seen \in Readings : TickTree(delay, seen)
    <3>1. PICK delay \in 1..MaxStep, seen \in Readings : TickTree(delay, seen)
      BY <2>1
    <3>2. TypeOK'
      BY <3>1, TickTreeTypes DEF IInv
    <3> QED
      BY <3>1, <3>2, TickStep
  <2>2. CASE TickLeaf
    BY <2>2, WaitForEventStep, EmitStep, WaitForConditionStep, WaitForRiseStep, WaitElapsedStep, ActStep
       DEF TickLeaf
  <2>3. CASE TickComposition
    BY <2>3, StartSequenceStep, NextInSequenceStep, EndSequenceStep, StartParallelStep, NextInParallelStep,
       EndParallelStep DEF TickComposition
  <2>4. CASE TickModifier
    BY <2>4, StartModifierStep, ExpireStep, AgainStep, EnoughStep, MapStatusStep, InvertStep, PassOnStep
       DEF TickModifier
  <2>5. CASE UNCHANGED vars
    BY <2>5, NothingHappens
  <2> QED
    BY <2>1, <2>2, <2>3, <2>4, <2>5 DEF Next
<1> QED
  BY <1>1, <1>2, PTL DEF Spec

\* The type invariant, for every forest of elements.
THEOREM TreeTyping == Spec => []TypeOK
<1>1. IInv => TypeOK
  BY DEF IInv
<1> QED
  BY <1>1, TreeInvariant, PTL

\* The losers of a one_of, the target of an until and the branch a timeout gave up on are stopped with
\* all that is below them by the end of the tick.
THEOREM LosersAreStopped == Spec => []NothingLeftRunning
<1>1. IInv => NothingLeftRunning
  <2> SUFFICES ASSUME IInv, path = <<>>, NEW n \in Nodes, NEW c \in Kids(n), status[c] = "RUNNING"
               PROVE  status[n] = "RUNNING"
    BY DEF NothingLeftRunning
  <2>1. Entered = {}
    BY NothingUnderWay DEF IInv
  <2> QED
    BY <2>1 DEF IInv, Settled
<1> QED
  BY <1>1, TreeInvariant, PTL

\* Between two ticks only what was ticked in the last one runs.
LEMMA RunningWasTicked ==
    ASSUME IInv, path = <<>>, NEW n \in Nodes, status[n] = "RUNNING"
    PROVE  n \in ticked
<1> DEFINE S == {m \in Nodes : status[m] = "RUNNING" => m \in ticked}
<1>1. /\ TypeOK /\ AtRest /\ OthersRest /\ Entered = {} /\ \A m \in Nodes \ Entered : Settled(m)
  BY NothingUnderWay DEF IInv
<1>2. ASSUME NEW s \in Scenarios PROVE Outermost(s) \in S
  <2>1. Outermost(s) \in Nodes
    BY OutermostIsNode, TreeAssumption
  <2>2. CASE s = scenario
    BY <1>1, <2>1, <2>2 DEF AtRest, Root
  <2>3. CASE s # scenario
    BY <1>1, <2>1, <2>3 DEF OthersRest
  <2> QED
    BY <2>2, <2>3
<1>3. ASSUME NEW m \in Nodes, m \in S PROVE Kids(m) \subseteq S
  <2>1. Kids(m) \subseteq Nodes
    BY ChildrenFacts
  <2> QED
    BY <1>1, <1>3, <2>1 DEF Settled
<1> HIDE DEF S
<1>4. Nodes \subseteq S
  BY <1>2, <1>3, FromTheScenarios
<1> QED
  BY <1>4 DEF S

\* Whatever is inside an until is stopped by the end of the first tick after its event was set.
THEOREM UntilEndsTheInvocation == Spec => []UntilEnds
<1>1. IInv => UntilEnds
  <2> SUFFICES ASSUME IInv, path = <<>>, NEW e \in DOMAIN Elements, NEW i \in DOMAIN Elements[e].untils,
                      Elements[Elements[e].untils[i]].op = "event",
                      Elements[Elements[e].untils[i]].arg \in before,
                      NEW layer \in 1..Innermost(e), status[<<e, layer>>] = "RUNNING"
               PROVE  FALSE
    BY DEF UntilEnds
  <2> DEFINE f == Elements[e].untils[i]
             u == <<f, 1>>
             running == {l \in 1..Innermost(e) : status[<<e, l>>] = "RUNNING"}
  <2>1. /\ TypeOK /\ EventSeen /\ Entered = {} /\ \A n \in Nodes \ Entered : Settled(n)
    BY NothingUnderWay DEF IInv
  <2>2. /\ Elements[e].untils \in Seq(DOMAIN Elements) /\ i \in 1..Len(Elements[e].untils) /\ f \in DOMAIN Elements
        /\ Elements[e].untils # <<>> /\ Innermost(e) \in Nat \ {0} /\ Outermost(e)[2] = 0
    <3>1. Elements[e].untils \in Seq(DOMAIN Elements)
      BY ElementFacts
    <3>2. i \in 1..Len(Elements[e].untils) /\ f \in DOMAIN Elements /\ Elements[e].untils # <<>>
      BY <3>1
    <3> QED
      BY <3>1, <3>2, LayerFacts
  <2>3. \A l \in Nat : l <= Innermost(e) => <<e, l>> \in Nodes
    BY <2>2, IsNode
  <2>4. PICK l \in running : \A j \in running : l <= j
    <3>1. running \subseteq Nat /\ running # {}
      OBVIOUS
    <3> HIDE DEF running
    <3> QED
      BY <3>1, LeastNumber
  <2>5. <<e, 0>> \in Nodes /\ <<e, 0>>[1] = e /\ <<e, 0>>[2] = 0
    BY <2>2, <2>3
  <2>6. /\ DOMAIN Children(<<e, 0>>) = 1..Len(Children(<<e, 0>>))
        /\ Len(Children(<<e, 0>>)) = Len(Elements[e].untils) + 1
        /\ Children(<<e, 0>>)[1] = <<e, 1>> /\ Kind(<<e, 0>>) = "one_of"
        /\ Children(<<e, 0>>)[i + 1] = Outermost(f)
    BY <2>2, <2>5, UntilShape
  <2>7. <<e, 1>> \in Kids(<<e, 0>>) /\ Outermost(f) \in Kids(<<e, 0>>)
    <3>1. Len(Elements[e].untils) \in Nat
      BY <2>2
    <3>2. 1 \in DOMAIN Children(<<e, 0>>) /\ i + 1 \in DOMAIN Children(<<e, 0>>)
      BY <2>2, <2>6, <3>1
    <3> QED
      BY <2>6, <3>2 DEF Kids
  <2>8. l = 1
    <3>1. SUFFICES ASSUME l # 1 PROVE FALSE
      OBVIOUS
    <3>2. l \in 1..Innermost(e) /\ status[<<e, l>>] = "RUNNING"
      BY <2>4
    <3>3. l - 1 \in 1..(Innermost(e) - 1) /\ l - 1 \in Nat /\ l - 1 <= Innermost(e) /\ (l - 1) + 1 = l /\ ~(l <= l - 1)
          /\ l - 1 \in 1..Innermost(e)
      BY <2>2, <3>1, <3>2
    <3> DEFINE n == <<e, l - 1>>
    <3>4. n \in Nodes /\ n[1] = e /\ n[2] = l - 1
      BY <2>3, <3>3
    <3>5. Children(n) = <<<<e, (l - 1) + 1>>>>
      BY <3>3, <3>4, ModifierShape
    <3>6. <<e, l>> \in Kids(n)
      BY <3>3, <3>5 DEF Kids
    <3>7. status[n] = "RUNNING"
      BY <2>1, <3>2, <3>4, <3>6 DEF Settled
    <3> QED
      BY <2>4, <3>3, <3>7
  <2>9. status[<<e, 1>>] = "RUNNING"
    BY <2>4, <2>8
  <2>10. status[<<e, 0>>] = "RUNNING"
    BY <2>1, <2>5, <2>7, <2>9 DEF Settled
  <2>11. <<e, 0>> \in ticked
    BY <2>5, <2>10, RunningWasTicked
  <2>12. status[Outermost(f)] = "RUNNING"
    BY <2>1, <2>5, <2>6, <2>7, <2>10, <2>11 DEF Settled, RunsWithChildren
  <2>13. Outermost(f) \in ticked /\ Outermost(f) \in Nodes
    <3>1. Outermost(f) \in Nodes
      BY <2>2, OutermostIsNode
    <3> QED
      BY <2>12, <3>1, RunningWasTicked
  <2>14. Outermost(f) = <<f, 1>> /\ Innermost(f) = 1
    <3>1. IsElement(Elements[e])
      BY TreeAssumption
    <3>2. Elements[f].modifiers = <<>> /\ Elements[f].untils = <<>>
      BY <3>1 DEF IsElement
    <3>3. Len(Elements[f].modifiers) = 0
      BY <3>2
    <3> QED
      BY <3>2, <3>3 DEF Outermost, Innermost
  <2>15. Kind(Outermost(f)) = "event"
    <3>1. <<f, 1>> \in Nodes /\ <<f, 1>>[1] = f /\ <<f, 1>>[2] = Innermost(f)
      BY <2>13, <2>14
    <3>2. Kind(<<f, 1>>) = Elements[f].op
      BY <3>1, BehaviourShape
    <3> QED
      BY <2>14, <3>2
  <2>16. Outermost(f)[1] = f
    BY <2>14
  <2> QED
    BY <2>1, <2>12, <2>13, <2>15, <2>16 DEF EventSeen
<1> QED
  BY <1>1, TreeInvariant, PTL

\* A timeout around the scenario, with nothing but modifiers that end with their child around it, ends
\* it on the first tick past its duration.
THEOREM TimeoutEndsTheScenario == Spec => []TimeoutEnds
<1>1. IInv => TimeoutEnds
  <2> SUFFICES ASSUME IInv, path = <<>>, ~Over, NEW k \in DOMAIN Elements[scenario].modifiers,
                      Elements[scenario].modifiers[k].kind = "timeout",
                      \A j \in 1..(k - 1) : EndsWithChild(Elements[scenario].modifiers[j])
               PROVE  now <= MaxStep + Elements[scenario].modifiers[k].duration
    BY DEF TimeoutEnds
  <2>1. /\ TypeOK /\ AtRest /\ Deadline /\ Entered = {} /\ \A n \in Nodes \ Entered : Settled(n)
    BY NothingUnderWay DEF IInv
  <2>2. k \in Timeouts
    BY DEF Timeouts
  <2>3. /\ k \in Nat /\ Root[2] <= k /\ Root[2] \in {0, 1} /\ Kind(Layer(k)) = "timeout" /\ Layer(k) \in Nodes
        /\ Latest(k) \in Nat
    BY <2>1, <2>2, LayersOfTheScenario
  <2>4. now \in Nat
    <3>1. MaxNow \in Nat /\ now \in 0..MaxNow
      BY <2>1, TreeAssumption DEF TypeOK
    <3> QED
      BY <3>1
  <2>5. CASE Root \in ticked
    <3>1. k \in Root[2]..k
      BY <2>3
    <3>2. status[Layer(k)] = "RUNNING" /\ Layer(k) \in ticked
      BY <2>2, <2>5, <3>1, TimeoutsRunOn
    <3>3. now <= memo[Layer(k)]
      BY <2>1, <2>3, <3>2 DEF Settled
    <3>4. memo[Layer(k)] <= Latest(k)
      BY <2>1, <2>2, <3>2 DEF Deadline
    <3>5. memo[Layer(k)] \in Nat
      BY <2>1, <2>3 DEF TypeOK
    <3>6. now <= Latest(k)
      BY <2>3, <2>4, <3>3, <3>4, <3>5
    <3> QED
      BY <3>6 DEF Latest
  <2>6. CASE Root \notin ticked
    <3>1. now = 0
      BY <2>1, <2>6 DEF AtRest
    <3>2. now <= Latest(k)
      BY <2>3, <3>1
    <3> QED
      BY <3>2 DEF Latest
  <2> QED
    BY <2>5, <2>6
<1> QED
  BY <1>1, TreeInvariant, PTL
-----------------------------------------------------------------------------
(* A condition that lasts                                                  *)

\* What an answer of the latest tick says: a condition that waits does not hold, and the value can be
\* read; a timer that succeeds is past its end; what a serial and a modifier make of their children; a
\* race is won when the time has passed.
Answered(n) ==
    /\ Kind(n) = "condition" /\ status[n] = "RUNNING" => level \notin {"odd", Elements[n[1]].arg}
    /\ Kind(n) = "elapsed" /\ status[n] = "SUCCESS" => memo[n] <= now
    /\ Kind(n) = "serial" /\ status[n] = "RUNNING" => status[ComeTo(n)] = "RUNNING"
    /\ Kind(n) = "serial" /\ status[n] = "SUCCESS" =>
           /\ Children(n)[Len(Children(n))] \in ticked
           /\ status[Children(n)[Len(Children(n))]] = "SUCCESS"
    /\ Kind(n) \in {"timeout", "retry"} /\ status[n] = "SUCCESS" =>
           Children(n)[1] \in ticked /\ status[Children(n)[1]] = "SUCCESS"
    /\ Kind(n) = "is" /\ SuccessIsFailure(Modifier(n[1], n[2])) => status[n] # "SUCCESS"
    /\ Kind(n) = "one_of" /\ IsRace(n[1]) /\ status[n] = "SUCCESS" => Lasted(n[1])

Races == {r \in DOMAIN Elements : IsRace(r)}
Behaviour(e) == <<e, 1>>

\* While the timer of a race runs, the condition has not broken since it started.
TimerRuns(r) ==
    LET timer == Behaviour(TimerOf(r))
    IN  (timer \in ticked \/ status[timer] = "RUNNING") /\ Unbroken(r)
            => since + Elements[TimerOf(r)].arg <= memo[timer]

Lasting == (\A n \in ticked : Answered(n)) /\ \A r \in Races : TimerRuns(r)

\* An element without a with: block is one behaviour.
LEMMA PlainShape ==
    ASSUME NEW e \in DOMAIN Elements, Plain(e)
    PROVE  /\ Innermost(e) = 1 /\ Outermost(e) = Behaviour(e) /\ Behaviour(e) \in Nodes
           /\ Behaviour(e)[1] = e /\ Behaviour(e)[2] = Innermost(e)
           /\ Kind(Behaviour(e)) = Elements[e].op
<1>1. Elements[e].modifiers = <<>> /\ Elements[e].untils = <<>>
  BY DEF Plain
<1>2. Innermost(e) = 1 /\ Outermost(e) = Behaviour(e)
  <2>1. Len(Elements[e].modifiers) = 0
    BY <1>1
  <2> QED
    BY <1>1, <2>1 DEF Innermost, Outermost, Behaviour
<1>3. Behaviour(e) \in Nodes
  BY <1>2, OutermostIsNode
<1>4. Behaviour(e)[1] = e /\ Behaviour(e)[2] = Innermost(e)
  BY <1>2 DEF Behaviour
<1>5. Kind(Behaviour(e)) = Elements[e].op
  BY <1>3, <1>4, BehaviourShape
<1> QED
  BY <1>2, <1>3, <1>4, <1>5

\* The timer and the watch of a race, and what the watch is made of.
LEMMA RaceShape ==
    ASSUME NEW r \in Races
    PROVE  /\ TimerOf(r) \in DOMAIN Elements /\ Elements[TimerOf(r)].arg \in Nat
           /\ Behaviour(r) \in Nodes /\ Kind(Behaviour(r)) = "one_of" /\ Behaviour(r)[1] = r
           /\ Kids(Behaviour(r)) = {Behaviour(TimerOf(r)), Behaviour(WatchOf(r))}
           /\ Behaviour(TimerOf(r)) \in Nodes /\ Kind(Behaviour(TimerOf(r))) = "elapsed"
           /\ Behaviour(TimerOf(r))[1] = TimerOf(r)
           /\ Behaviour(WatchOf(r)) \in Nodes /\ Kind(Behaviour(WatchOf(r))) = "is"
           /\ SuccessIsFailure(Modifier(WatchOf(r), 1))
           /\ RunsWithChildren(Behaviour(WatchOf(r)))
           /\ <<WatchOf(r), 2>> \in Nodes /\ Kind(<<WatchOf(r), 2>>) = "serial"
           /\ Kids(Behaviour(WatchOf(r))) = {<<WatchOf(r), 2>>}
           /\ DOMAIN Children(<<WatchOf(r), 2>>) = {1}
           /\ Children(<<WatchOf(r), 2>>)[1] = Behaviour(BreakOf(r))
           /\ Behaviour(BreakOf(r)) \in Nodes /\ Kind(Behaviour(BreakOf(r))) = "condition"
           /\ Behaviour(BreakOf(r))[1] = BreakOf(r) /\ Elements[BreakOf(r)].arg \in {"low", "high"}
<1> DEFINE t == TimerOf(r)
           w == WatchOf(r)
           b == BreakOf(r)
           n == Behaviour(r)
<1>1. /\ r \in DOMAIN Elements /\ Elements[r].op = "one_of" /\ Plain(r) /\ Len(Elements[r].members) = 2
      /\ Elements[t].op = "elapsed" /\ Plain(t)
      /\ Elements[w].op = "serial" /\ Len(Elements[w].members) = 1
      /\ Elements[w].untils = <<>> /\ Len(Elements[w].modifiers) = 1
      /\ SuccessIsFailure(Elements[w].modifiers[1])
      /\ Elements[b].op = "condition" /\ Plain(b) /\ Elements[b].arg \in {"low", "high"}
  BY DEF Races, IsRace
<1>2. t \in DOMAIN Elements /\ w \in DOMAIN Elements
  <2>1. Elements[r].members \in Seq(DOMAIN Elements)
    BY <1>1, ElementFacts
  <2> QED
    BY <1>1, <2>1 DEF TimerOf, WatchOf
<1>3. b \in DOMAIN Elements
  <2>1. Elements[w].members \in Seq(DOMAIN Elements)
    BY <1>2, ElementFacts
  <2> QED
    BY <1>1, <2>1 DEF BreakOf
<1>4. /\ n \in Nodes /\ Kind(n) = "one_of" /\ n[1] = r /\ n[2] = Innermost(n[1])
      /\ Behaviour(t) \in Nodes /\ Kind(Behaviour(t)) = "elapsed" /\ Outermost(t) = Behaviour(t)
      /\ Behaviour(t)[1] = t
      /\ Behaviour(b) \in Nodes /\ Kind(Behaviour(b)) = "condition" /\ Outermost(b) = Behaviour(b)
      /\ Behaviour(b)[1] = b
  BY <1>1, <1>2, <1>3, PlainShape
<1>5. Elements[t].arg \in Nat
  BY <1>1, <1>2, ElementFacts
<1>6. Innermost(w) = 2 /\ Outermost(w) = Behaviour(w)
  BY <1>1 DEF Innermost, Outermost, Behaviour
<1>7. Behaviour(w) \in Nodes /\ <<w, 2>> \in Nodes
  <2>1. Outermost(w)[2] = 1
    BY <1>6 DEF Behaviour
  <2> QED
    BY <1>2, <1>6, <2>1, IsNode, OutermostIsNode
<1>8. Kids(n) = {Behaviour(t), Behaviour(w)}
  <2>1. /\ DOMAIN Children(n) = 1..Len(Children(n)) /\ Len(Children(n)) = 2
        /\ \A i \in 1..2 : Children(n)[i] = Outermost(Elements[r].members[i])
    BY <1>1, <1>4, BehaviourShape
  <2>2. Children(n)[1] = Behaviour(t) /\ Children(n)[2] = Behaviour(w)
    BY <1>4, <1>6, <2>1 DEF TimerOf, WatchOf
  <2>3. DOMAIN Children(n) = {1, 2}
    BY <2>1
  <2> QED
    BY <2>2, <2>3 DEF Kids
<1>9. /\ Kind(Behaviour(w)) = Modifier(w, 1).kind /\ Kind(Behaviour(w)) \in Modifiers
      /\ Children(Behaviour(w)) = <<<<w, 2>>>>
  <2>1. Behaviour(w)[1] = w /\ Behaviour(w)[2] = 1
    BY DEF Behaviour
  <2>2. Behaviour(w)[2] \in 1..(Innermost(Behaviour(w)[1]) - 1) /\ Behaviour(w)[2] + 1 = 2
    BY <1>6, <2>1
  <2> QED
    BY <1>7, <2>1, <2>2, ModifierShape
<1>10. /\ Kind(Behaviour(w)) = "is" /\ SuccessIsFailure(Modifier(w, 1)) /\ RunsWithChildren(Behaviour(w))
  <2>1. SuccessIsFailure(Modifier(w, 1))
    BY <1>1 DEF Modifier
  <2>2. Modifier(w, 1).kind = "is" /\ Modifier(w, 1).to = "FAILURE"
    BY <2>1 DEF SuccessIsFailure
  <2>3. Behaviour(w)[1] = w /\ Behaviour(w)[2] = 1
    BY DEF Behaviour
  <2> QED
    BY <1>9, <2>1, <2>2, <2>3 DEF RunsWithChildren, EndsWithChild
<1>11. Kids(Behaviour(w)) = {<<w, 2>>}
  BY <1>9 DEF Kids
<1>12. /\ Kind(<<w, 2>>) = "serial" /\ DOMAIN Children(<<w, 2>>) = {1}
       /\ Children(<<w, 2>>)[1] = Behaviour(b)
  <2>1. <<w, 2>>[1] = w /\ <<w, 2>>[2] = Innermost(w)
    BY <1>6
  <2>2. /\ Kind(<<w, 2>>) = "serial" /\ DOMAIN Children(<<w, 2>>) = 1..1
        /\ Children(<<w, 2>>)[1] = Outermost(Elements[w].members[1])
    BY <1>1, <1>7, <2>1, BehaviourShape
  <2> QED
    BY <1>4, <2>2 DEF BreakOf
<1> QED
  BY <1>1, <1>2, <1>4, <1>5, <1>7, <1>8, <1>10, <1>11, <1>12

\* What was ticked is under way no more.
LEMMA NotEntered == ASSUME IInv, NEW n \in ticked PROVE n \in Nodes /\ n \notin Entered
<1>1. TypeOK /\ PathInv
  BY DEF IInv
<1>2. n \in Nodes
  BY <1>1 DEF TypeOK
<1>3. SUFFICES ASSUME n \in Entered PROVE FALSE
  BY <1>2
<1>4. CASE path = <<>>
  BY <1>1, <1>3, <1>4, NothingUnderWay
<1>5. CASE path # <<>>
  <2>1. PICK k \in 1..Len(path) : n = path[k]
    BY <1>1, <1>3, <1>5, PathFacts
  <2> QED
    BY <1>1, <2>1 DEF PathInv
<1> QED
  BY <1>4, <1>5

\* While the watch of a race runs, the condition is not broken.
LEMMA WatchRuns ==
    ASSUME IInv, Lasting, NEW r \in Races,
           Behaviour(WatchOf(r)) \in ticked, status[Behaviour(WatchOf(r))] = "RUNNING"
    PROVE  Unbroken(r)
<1> DEFINE w == Behaviour(WatchOf(r))
           s == <<WatchOf(r), 2>>
           b == Behaviour(BreakOf(r))
<1>1. /\ w \in Nodes /\ RunsWithChildren(w) /\ Kids(w) = {s}
      /\ s \in Nodes /\ Kind(s) = "serial" /\ DOMAIN Children(s) = {1} /\ Children(s)[1] = b
      /\ b \in Nodes /\ Kind(b) = "condition" /\ b[1] = BreakOf(r)
  BY RaceShape
<1>2. b \in Kids(s)
  BY <1>1 DEF Kids
<1> HIDE DEF s, b
<1>3. \A n \in ticked : Settled(n) /\ Answered(n)
  <2>1. \A n \in ticked : n \in Nodes /\ n \notin Entered
    BY NotEntered
  <2> QED
    BY <2>1 DEF IInv, Lasting
<1>4. status[s] = "RUNNING" /\ s \in ticked
  BY <1>1, <1>3 DEF Settled
<1>5. ComeTo(s) = b
  <2>1. memo[s] \in DOMAIN Children(s)
    BY <1>1, <1>3, <1>4 DEF Settled
  <2> QED
    BY <1>1, <2>1, KindsApart DEF ComeTo, Place
<1>6. status[b] = "RUNNING" /\ b \in ticked
  BY <1>1, <1>2, <1>3, <1>4, <1>5 DEF Settled, Answered
<1>7. level \notin {"odd", Elements[b[1]].arg}
  BY <1>1, <1>3, <1>6 DEF Answered
<1> QED
  BY <1>1, <1>7 DEF Unbroken

\* The answers of the behaviours that do not take the step are still true.
LEMMA AnsweredStays ==
    ASSUME IInv, NEW roots, Quiet(roots), NEW n \in ticked, Answered(n)
    PROVE  Answered(n)'
<1>1. /\ TypeOK /\ PathInv /\ path # <<>> /\ roots \subseteq Kids(Current)
      /\ level' = level /\ since' = since /\ now' = now /\ ticked \subseteq ticked'
  BY DEF IInv, Quiet, inputs
<1>2. \A m \in Nodes \ {Current} :
          status'[m] = (IF m \in Below(roots) THEN "INVALID" ELSE status[m]) /\ memo'[m] = memo[m]
  BY DEF Quiet
<1>3. n \in Nodes /\ n \notin Entered /\ n # Current
  BY <1>1, NotEntered, PathFacts
<1>4. ASSUME NEW d \in Kids(n)
      PROVE  status'[d] = (IF n \in Below(roots) THEN "INVALID" ELSE status[d])
  BY <1>3, <1>4, ChildUntouched
<1>5. /\ memo'[n] = memo[n]
      /\ status'[n] = (IF n \in Below(roots) THEN "INVALID" ELSE status[n])
  BY <1>2, <1>3
<1>6. CASE status'[n] = "INVALID"
  BY <1>6 DEF Answered
<1>7. CASE status'[n] # "INVALID"
  <2>1. status'[n] = status[n] /\ \A d \in Kids(n) : status'[d] = status[d]
    BY <1>4, <1>5, <1>7
  <2>2. DOMAIN Children(n) = 1..Len(Children(n)) /\ Len(Children(n)) \in Nat
        /\ (Kind(n) \in Modifiers \cup Sequential => Len(Children(n)) >= 1)
    BY <1>3, ChildrenFacts
  <2>3. Kind(n) = "serial" /\ status[n] = "RUNNING" => ComeTo(n)' = ComeTo(n) /\ ComeTo(n) \in Kids(n)
    <3>1. SUFFICES ASSUME Kind(n) = "serial", status[n] = "RUNNING"
                   PROVE  ComeTo(n)' = ComeTo(n) /\ ComeTo(n) \in Kids(n)
      OBVIOUS
    <3>2. memo[n] \in DOMAIN Children(n)
      BY <1>3, <3>1 DEF IInv, Settled
    <3> QED
      BY <1>5, <3>1, <3>2, KindsApart DEF ComeTo, Place, Kids
  <2>4. Kind(n) = "serial" => Children(n)[Len(Children(n))] \in Kids(n)
    BY <2>2, KindsApart DEF Kids
  <2>5. Kind(n) \in {"timeout", "retry"} => Children(n)[1] \in Kids(n)
    BY <2>2 DEF Kids, Modifiers
  <2>6. Lasted(n[1])' <=> Lasted(n[1])
    BY <1>1 DEF Lasted, Unbroken
  <2>7. /\ Kind(n) = "condition" /\ status'[n] = "RUNNING" => level' \notin {"odd", Elements[n[1]].arg}
        /\ Kind(n) = "elapsed" /\ status'[n] = "SUCCESS" => memo'[n] <= now'
        /\ Kind(n) = "is" /\ SuccessIsFailure(Modifier(n[1], n[2])) => status'[n] # "SUCCESS"
        /\ Kind(n) = "one_of" /\ IsRace(n[1]) /\ status'[n] = "SUCCESS" => Lasted(n[1])'
    BY <1>1, <1>5, <2>1, <2>6 DEF Answered
  <2>8. Kind(n) = "serial" /\ status'[n] = "RUNNING" => status'[ComeTo(n)'] = "RUNNING"
    BY <2>1, <2>3 DEF Answered
  <2>9. /\ Kind(n) = "serial" /\ status'[n] = "SUCCESS" =>
               /\ Children(n)[Len(Children(n))] \in ticked'
               /\ status'[Children(n)[Len(Children(n))]] = "SUCCESS"
        /\ Kind(n) \in {"timeout", "retry"} /\ status'[n] = "SUCCESS" =>
               Children(n)[1] \in ticked' /\ status'[Children(n)[1]] = "SUCCESS"
    BY <1>1, <2>1, <2>4, <2>5 DEF Answered
  <2> QED
    BY <2>7, <2>8, <2>9 DEF Answered
<1> QED
  BY <1>6, <1>7

\* What is left to show of a step: what the current behaviour answers, and when a timer ends.
LEMMA LastingStays ==
    ASSUME IInv, Lasting, NEW roots, Quiet(roots), NEW c \in Nodes, c = Current,
           c \in ticked' => Answered(c)',
           Kind(c) = "elapsed" => memo'[c] = IF status[c] # "RUNNING" THEN now + Elements[c[1]].arg ELSE memo[c]
    PROVE  Lasting'
<1>1. /\ TypeOK /\ level' = level /\ since' = since /\ now' = now /\ ticked' \subseteq ticked \cup {c}
  BY DEF IInv, Quiet, inputs
<1>2. ASSUME NEW n \in ticked' PROVE Answered(n)'
  <2>1. CASE n = c
    BY <1>2, <2>1
  <2>2. CASE n # c
    <3>1. n \in ticked /\ Answered(n)
      BY <1>1, <1>2, <2>2 DEF Lasting
    <3> QED
      BY <3>1, AnsweredStays
  <2> QED
    BY <2>1, <2>2
<1>3. ASSUME NEW r \in Races PROVE TimerRuns(r)'
  <2> DEFINE t == Behaviour(TimerOf(r))
             arg == Elements[TimerOf(r)].arg
  <2>1. t \in Nodes /\ Kind(t) = "elapsed" /\ t[1] = TimerOf(r) /\ arg \in Nat
    BY RaceShape
  <2>2. (t \in ticked \/ status[t] = "RUNNING") /\ Unbroken(r) => since + arg <= memo[t]
    BY DEF Lasting, TimerRuns
  <2>3. since \in Nat /\ now \in Nat /\ since <= now
    <3>1. MaxNow \in Nat /\ now \in 0..MaxNow /\ since \in 0..now
      BY <1>1, TreeAssumption DEF TypeOK
    <3> QED
      BY <3>1
  <2> HIDE DEF t, arg
  <2>4. ASSUME t \in ticked' \/ status'[t] = "RUNNING", Unbroken(r) PROVE since + arg <= memo'[t]
    <3>1. CASE t = c
      <4>1. memo'[t] = IF status[t] # "RUNNING" THEN now + arg ELSE memo[t]
        BY <2>1, <3>1 DEF arg
      <4> QED
        BY <2>1, <2>2, <2>3, <2>4, <4>1
    <3>2. CASE t # c
      <4>1. memo'[t] = memo[t] /\ (status'[t] = "RUNNING" => status[t] = "RUNNING") /\ (t \in ticked' => t \in ticked)
        BY <1>1, <2>1, <3>2 DEF Quiet
      <4> QED
        BY <2>2, <2>4, <4>1
    <3> QED
      BY <3>1, <3>2
  <2>5. Unbroken(r)' <=> Unbroken(r)
    BY <1>1 DEF Unbroken
  <2> QED
    BY <1>1, <2>4, <2>5 DEF TimerRuns, t, arg
<1> QED
  BY <1>2, <1>3 DEF Lasting

\* The tree is ticked: the timer of a race that runs on started no later than the condition changed.
LEMMA TickLasting ==
    ASSUME IInv, Lasting, NEW delay \in 1..MaxStep, NEW seen \in Readings, TickTree(delay, seen)
    PROVE  Lasting'
<1>1. /\ path = <<>> /\ ticked' = {} /\ status' = status /\ memo' = memo
      /\ level' = seen /\ since' = IF seen = level THEN since ELSE now'
  BY DEF TickTree, kept
<1>2. TypeOK /\ Entered = {} /\ \A n \in Nodes \ Entered : Settled(n)
  BY <1>1, NothingUnderWay DEF IInv
<1>3. seen \in Levels /\ level \in Levels
  BY <1>2 DEF Readings, TypeOK
<1>4. ASSUME NEW r \in Races PROVE TimerRuns(r)'
  <2> DEFINE t == Behaviour(TimerOf(r))
             w == Behaviour(WatchOf(r))
             n == Behaviour(r)
             arg == Elements[BreakOf(r)].arg
  <2>1. /\ n \in Nodes /\ Kind(n) = "one_of" /\ Kids(n) = {t, w} /\ w \in Nodes /\ t \in Nodes
        /\ arg \in {"low", "high"}
    BY RaceShape
  <2> HIDE DEF n, t, w
  <2>2. SUFFICES ASSUME status[t] = "RUNNING", Unbroken(r)'
                 PROVE  since' + Elements[TimerOf(r)].arg <= memo[t]
    BY <1>1 DEF TimerRuns, t
  <2>3. status[n] = "RUNNING"
    BY <1>2, <2>1, <2>2 DEF Settled
  <2>4. n \in ticked
    BY <1>1, <2>1, <2>3, RunningWasTicked
  <2>5. status[w] = "RUNNING" /\ w \in ticked
    BY <1>1, <1>2, <2>1, <2>3, <2>4, RunningWasTicked DEF Settled, RunsWithChildren
  <2>6. Unbroken(r)
    BY <2>5, WatchRuns DEF w
  <2>7. level \notin {"odd", arg} /\ seen \notin {"odd", arg}
    BY <1>1, <2>2, <2>6 DEF Unbroken
  <2>8. seen = level
    BY <1>3, <2>1, <2>7 DEF Levels
  <2> QED
    BY <1>1, <2>2, <2>6, <2>8 DEF Lasting, TimerRuns, t
<1> QED
  BY <1>1, <1>4 DEF Lasting

\* A behaviour that ticks a child, or starts and has come to none, answers nothing.
LEMMA GoingDownLasts ==
    ASSUME IInv, Lasting, NEW c \in Nodes, c = Current, path # <<>>, Kind(c) \notin Leaves,
           NEW roots \in SUBSET Kids(c), status' = Stopped(roots), NEW value \in Nat, Keep(value),
           UNCHANGED inputs, ticked' = ticked
    PROVE  Lasting'
<1>1. TypeOK /\ PathInv
  BY DEF IInv
<1>2. Quiet(roots)
  BY <1>1, StoppedFacts, KeepFacts DEF Quiet
<1>3. c \notin ticked'
  BY <1>1, PathFacts
<1>4. Kind(c) # "elapsed"
  BY DEF Leaves
<1> QED
  BY <1>2, <1>3, <1>4, LastingStays

\* What is left to show of an action that returns.
LEMMA ReturningLasts ==
    ASSUME IInv, Lasting, NEW c \in Nodes, c = Current, path # <<>>,
           NEW new \in Answers, NEW roots \in SUBSET Kids(c), Return(new, roots),
           \A n \in Nodes \ {c} : memo'[n] = memo[n],
           Kind(c) = "condition" /\ new = "RUNNING" => level \notin {"odd", Elements[c[1]].arg},
           Kind(c) = "elapsed" =>
               /\ memo'[c] = IF status[c] # "RUNNING" THEN now + Elements[c[1]].arg ELSE memo[c]
               /\ new = "SUCCESS" => memo'[c] <= now,
           Kind(c) = "serial" /\ new = "RUNNING" =>
               /\ roots = {} /\ memo'[c] \in DOMAIN Children(c)
               /\ status[Children(c)[memo'[c]]] = "RUNNING",
           Kind(c) = "serial" /\ new = "SUCCESS" =>
               /\ roots = {} /\ Children(c)[Len(Children(c))] \in ticked
               /\ status[Children(c)[Len(Children(c))]] = "SUCCESS",
           Kind(c) \in {"timeout", "retry"} /\ new = "SUCCESS" =>
               roots = {} /\ Children(c)[1] \in ticked /\ status[Children(c)[1]] = "SUCCESS",
           Kind(c) = "is" /\ SuccessIsFailure(Modifier(c[1], c[2])) => new # "SUCCESS",
           Kind(c) = "one_of" /\ IsRace(c[1]) /\ new = "SUCCESS" => Lasted(c[1])
    PROVE  Lasting'
<1>1. TypeOK /\ PathInv
  BY DEF IInv
<1>2. /\ Quiet(roots) /\ ticked' = ticked \cup {c} /\ status'[c] = new
      /\ \A d \in Kids(c) : status'[d] = IF d \in roots THEN "INVALID" ELSE status[d]
  BY <1>1, ReturnFacts
<1>3. level' = level /\ since' = since /\ now' = now
  BY <1>2 DEF Quiet, inputs
<1>4. DOMAIN Children(c) = 1..Len(Children(c)) /\ Len(Children(c)) \in Nat
      /\ (Kind(c) \in Modifiers \cup Sequential => Len(Children(c)) >= 1)
  BY ChildrenFacts
<1>5. /\ Kind(c) = "serial" => Children(c)[Len(Children(c))] \in Kids(c)
      /\ Kind(c) \in {"timeout", "retry"} => Children(c)[1] \in Kids(c)
  BY <1>4, KindsApart DEF Kids, Modifiers
<1>6. Lasted(c[1])' <=> Lasted(c[1])
  BY <1>3 DEF Lasted, Unbroken
<1>7. /\ Kind(c) = "condition" /\ status'[c] = "RUNNING" => level' \notin {"odd", Elements[c[1]].arg}
      /\ Kind(c) = "elapsed" /\ status'[c] = "SUCCESS" => memo'[c] <= now'
      /\ Kind(c) = "is" /\ SuccessIsFailure(Modifier(c[1], c[2])) => status'[c] # "SUCCESS"
      /\ Kind(c) = "one_of" /\ IsRace(c[1]) /\ status'[c] = "SUCCESS" => Lasted(c[1])'
  BY <1>2, <1>3, <1>6
<1>8. Kind(c) = "serial" /\ status'[c] = "RUNNING" => status'[ComeTo(c)'] = "RUNNING"
  <2>1. SUFFICES ASSUME Kind(c) = "serial", new = "RUNNING" PROVE status'[ComeTo(c)'] = "RUNNING"
    BY <1>2
  <2>2. ComeTo(c)' = Children(c)[memo'[c]]
    BY <2>1, KindsApart DEF ComeTo, Place
  <2> QED
    BY <1>2, <2>1, <2>2 DEF Kids
<1>9. /\ Kind(c) = "serial" /\ status'[c] = "SUCCESS" =>
             /\ Children(c)[Len(Children(c))] \in ticked'
             /\ status'[Children(c)[Len(Children(c))]] = "SUCCESS"
      /\ Kind(c) \in {"timeout", "retry"} /\ status'[c] = "SUCCESS" =>
             Children(c)[1] \in ticked' /\ status'[Children(c)[1]] = "SUCCESS"
  BY <1>2, <1>5
<1>10. Answered(c)'
  BY <1>7, <1>8, <1>9 DEF Answered
<1> QED
  BY <1>2, <1>10, LastingStays

\* A leaf that reads no condition and is no timer.
LEMMA OtherLeafLasts ==
    ASSUME IInv, Lasting, NEW c \in Nodes, c = Current, path # <<>>,
           Kind(c) \in Leaves \ {"condition", "elapsed"},
           NEW new \in Answers, Return(new, {}), memo' = memo
    PROVE  Lasting'
<1>1. /\ {} \in SUBSET Kids(c) /\ Kind(c) \notin {"condition", "elapsed", "serial", "timeout", "retry", "is", "one_of"}
  BY DEF Leaves
<1> QED
  BY <1>1, ReturningLasts

\* The leaves.
LEMMA LeafLasts == ASSUME IInv, Lasting, TickLeaf PROVE Lasting'
<1>1. CASE WaitForEvent
  <2>1. PICK c \in Nodes : c = Current
    BY <1>1, StartFacts DEF WaitForEvent
  <2>2. path # <<>> /\ Kind(c) = "event"
    BY <1>1, <2>1, StartFacts DEF WaitForEvent
  <2>3. Return(IF Arg \in emitted THEN "SUCCESS" ELSE "RUNNING", {}) /\ memo' = memo
    BY <1>1 DEF WaitForEvent, kept
  <2>4. Kind(c) \in Leaves \ {"condition", "elapsed"}
        /\ (IF Arg \in emitted THEN "SUCCESS" ELSE "RUNNING") \in Answers
    BY <2>2 DEF Leaves, Answers
  <2> QED
    BY <2>1, <2>2, <2>3, <2>4, OtherLeafLasts
<1>2. CASE Emit
  <2>1. PICK c \in Nodes : c = Current
    BY <1>2, StartFacts DEF Emit
  <2>2. path # <<>> /\ Kind(c) = "emit"
    BY <1>2, <2>1, StartFacts DEF Emit
  <2>3. Return("SUCCESS", {}) /\ memo' = memo
    BY <1>2 DEF Emit
  <2>4. Kind(c) \in Leaves \ {"condition", "elapsed"} /\ "SUCCESS" \in Answers
    BY <2>2 DEF Leaves, Answers
  <2> QED
    BY <2>1, <2>2, <2>3, <2>4, OtherLeafLasts
<1>3. CASE WaitForCondition
  <2>1. PICK c \in Nodes : c = Current
    BY <1>3, StartFacts DEF WaitForCondition
  <2>2. path # <<>> /\ Kind(c) = "condition"
    BY <1>3, <2>1, StartFacts DEF WaitForCondition
  <2>3. Return(Holds, {}) /\ memo' = memo
    BY <1>3 DEF WaitForCondition, kept
  <2>4. Holds \in Answers /\ {} \in SUBSET Kids(c)
        /\ Kind(c) \notin {"elapsed", "serial", "timeout", "retry", "is", "one_of"}
    BY <2>2 DEF Answers, Holds
  <2>5. Holds = "RUNNING" => level \notin {"odd", Elements[c[1]].arg}
    BY <2>1 DEF Holds, Arg
  <2> QED
    BY <2>1, <2>2, <2>3, <2>4, <2>5, ReturningLasts
<1>4. CASE WaitForRise
  <2>1. PICK c \in Nodes : c = Current
    BY <1>4, StartFacts DEF WaitForRise
  <2>2. path # <<>> /\ Kind(c) = "rise"
    BY <1>4, <2>1, StartFacts DEF WaitForRise
  <2>3. PICK new \in Answers : Return(new, {})
    BY <1>4 DEF WaitForRise, Answers
  <2>4. Kind(c) \in Leaves \ {"condition", "elapsed"} /\ memo' = memo
    BY <1>4, <2>2 DEF Leaves, WaitForRise
  <2> QED
    BY <2>1, <2>2, <2>3, <2>4, OtherLeafLasts
<1>5. CASE WaitElapsed
  <2>1. PICK c \in Nodes : c = Current
    BY <1>5, StartFacts DEF WaitElapsed
  <2>2. path # <<>> /\ Kind(c) = "elapsed" /\ TypeOK /\ memo[c] \in Nat /\ now \in Nat
    BY <1>5, <2>1, StartFacts DEF WaitElapsed
  <2> DEFINE new == IF now >= Finish THEN "SUCCESS" ELSE "RUNNING"
  <2>3. Return(new, {}) /\ Keep(Finish)
    BY <1>5 DEF WaitElapsed
  <2>4. Finish = IF status[c] # "RUNNING" THEN now + Elements[c[1]].arg ELSE memo[c]
    BY <2>1 DEF Finish, Fresh, Arg
  <2>5. Finish \in Nat
    <3>1. Kind(c) \in Leaves
      BY <2>2 DEF Leaves
    <3>2. Elements[c[1]].arg \in Nat
      BY <2>2, <3>1, LeafElement, ElementFacts
    <3> QED
      BY <2>2, <2>4, <3>2
  <2>6. memo'[c] = Finish /\ \A n \in Nodes \ {c} : memo'[n] = memo[n]
    BY <2>1, <2>2, <2>3, <2>5, KeepFacts
  <2>7. new \in Answers /\ {} \in SUBSET Kids(c)
        /\ Kind(c) \notin {"condition", "serial", "timeout", "retry", "is", "one_of"}
    BY <2>2 DEF Answers
  <2>8. new = "SUCCESS" => memo'[c] <= now
    BY <2>2, <2>5, <2>6
  <2> HIDE DEF new
  <2> QED
    BY <2>1, <2>2, <2>3, <2>4, <2>6, <2>7, <2>8, ReturningLasts
<1>6. CASE Act
  <2>1. PICK c \in Nodes : c = Current
    BY <1>6, StartFacts DEF Act
  <2>2. path # <<>> /\ Kind(c) = "action"
    BY <1>6, <2>1, StartFacts DEF Act
  <2>3. PICK new \in Answers : Return(new, {})
    BY <1>6 DEF Act, Answers
  <2>4. Kind(c) \in Leaves \ {"condition", "elapsed"} /\ memo' = memo
    BY <1>6, <2>2 DEF Leaves, Act, kept
  <2> QED
    BY <2>1, <2>2, <2>3, <2>4, OtherLeafLasts
<1> QED
  BY <1>1, <1>2, <1>3, <1>4, <1>5, <1>6 DEF TickLeaf

\* A race is won only by its timer, while the watch runs and all its time has passed.
LEMMA RaceWon ==
    ASSUME IInv, Lasting, NEW c \in Nodes, c = Current, Kind(c) = "one_of", IsRace(c[1]), Verdict = "SUCCESS",
           \A d \in Kids(c) : Done(c, d)
    PROVE  Lasted(c[1])
<1>1. PICK r \in Races : r = c[1] /\ c = Behaviour(r)
  <2>1. c[1] \in DOMAIN Elements /\ c = <<c[1], c[2]>> /\ c[2] \in Nat
        /\ c[2] <= Innermost(c[1]) /\ Outermost(c[1])[2] <= c[2]
    BY NodeFacts
  <2>2. Innermost(c[1]) = 1 /\ Outermost(c[1])[2] = 1
    BY <2>1, PlainShape DEF IsRace, Behaviour
  <2>3. c[2] = 1
    BY <2>1, <2>2
  <2> QED
    BY <2>1, <2>3 DEF Races, Behaviour
<1> DEFINE t == Behaviour(TimerOf(r))
           w == Behaviour(WatchOf(r))
<1>2. /\ Kids(c) = {t, w} /\ t \in Nodes /\ w \in Nodes /\ Kind(t) = "elapsed" /\ Kind(w) = "is"
      /\ w[1] = WatchOf(r) /\ w[2] = 1 /\ SuccessIsFailure(Modifier(WatchOf(r), 1))
      /\ Elements[TimerOf(r)].arg \in Nat
  <2>1. w[1] = WatchOf(r) /\ w[2] = 1
    BY DEF Behaviour
  <2>2. /\ Kids(Behaviour(r)) = {t, w} /\ t \in Nodes /\ w \in Nodes /\ Kind(t) = "elapsed" /\ Kind(w) = "is"
        /\ SuccessIsFailure(Modifier(WatchOf(r), 1)) /\ Elements[TimerOf(r)].arg \in Nat
    BY RaceShape
  <2> QED
    BY <1>1, <2>1, <2>2
<1> HIDE DEF t, w
<1>3. TypeOK /\ \A n \in ticked : Answered(n)
  BY DEF IInv, Lasting
<1>4. \A d \in {t, w} : d \in ticked /\ status[d] # "INVALID" /\ status[d] # "FAILURE"
  <2>1. \A d \in Kids(c) : d \in ticked /\ status[d] # "INVALID"
    BY DEF Done
  <2>2. ASSUME NEW d \in Kids(c) PROVE status[d] # "FAILURE"
    <3> DEFINE of == {status[x] : x \in Kids(Current)}
    <3>1. status[d] = "FAILURE" => "FAILURE" \in of
      OBVIOUS
    <3>2. "FAILURE" \in of => Verdict = "FAILURE"
      BY DEF Verdict
    <3> QED
      BY <3>1, <3>2
  <2> QED
    BY <1>2, <2>1, <2>2
<1>5. status[w] = "RUNNING"
  <2>1. status[w] # "SUCCESS"
    BY <1>2, <1>3, <1>4 DEF Answered
  <2> QED
    BY <1>2, <1>3, <1>4, <2>1 DEF TypeOK, Statuses
<1>6. status[t] = "SUCCESS"
  BY <1>2, <1>5 DEF Verdict
<1>7. Unbroken(r)
  BY <1>1, <1>4, <1>5, WatchRuns DEF w
<1>8. memo[t] <= now
  BY <1>2, <1>3, <1>4, <1>6 DEF Answered
<1>9. since + Elements[TimerOf(r)].arg <= memo[t]
  BY <1>1, <1>4, <1>7 DEF Lasting, TimerRuns, t
<1>10. since \in Nat /\ now \in Nat /\ memo[t] \in Nat
  <2>1. MaxNow \in Nat /\ now \in 0..MaxNow /\ since \in 0..now
    BY <1>3, TreeAssumption DEF TypeOK
  <2>2. memo[t] \in Nat
    BY <1>2, <1>3 DEF TypeOK
  <2> QED
    BY <2>1, <2>2
<1>11. now - since >= Elements[TimerOf(r)].arg
  BY <1>2, <1>8, <1>9, <1>10
<1> QED
  BY <1>1, <1>7, <1>11 DEF Lasted

\* The children of a parallel or a one_of that ends have all been looked at.
LEMMA AllDone ==
    ASSUME IInv, GoesOn(Concurrent), \A i \in (memo[Current] + 1)..Len(Children(Current)) : Skips(i),
           NEW c \in Nodes, c = Current, NEW d \in Kids(c)
    PROVE  Done(c, d)
<1>1. /\ Kind(c) \in Concurrent /\ TypeOK /\ memo[c] \in Nat /\ started /\ UnderWay(c) /\ ChildReturned
  BY StartFacts DEF IInv
<1>2. Kind(c) \notin Modifiers /\ DOMAIN Children(c) = 1..Len(Children(c)) /\ Len(Children(c)) \in Nat
  BY <1>1, KindsApart, ChildrenFacts
<1>3. PICK j \in DOMAIN Children(c) : d = Children(c)[j]
  BY DEF Kids
<1>4. /\ memo[c] \in 0..Len(Children(c)) /\ \A k \in 1..(memo[c] - 1) : Done(c, Children(c)[k])
  BY <1>1 DEF UnderWay
<1>5. j \in 1..(memo[c] - 1) \/ j = memo[c] \/ j \in (memo[c] + 1)..Len(Children(c))
  BY <1>1, <1>2, <1>3
<1>6. CASE j = memo[c]
  <2>1. memo[c] # 0
    BY <1>2, <1>3, <1>6
  <2> QED
    BY <1>1, <1>2, <1>3, <1>6, <2>1 DEF ChildReturned, ComeTo, Place
<1>7. CASE j \in (memo[c] + 1)..Len(Children(c))
  <2>1. status[d] = "SUCCESS" /\ Kind(c) = "parallel"
    BY <1>3, <1>7 DEF Skips, Child
  <2> QED
    BY <2>1 DEF Done
<1> QED
  BY <1>3, <1>4, <1>5, <1>6, <1>7

\* The compositions.
LEMMA CompositionLasts == ASSUME IInv, Lasting, TickComposition PROVE Lasting'
<1>1. /\ Sequential \cap Leaves = {} /\ Concurrent \cap Leaves = {}
  BY KindsApart
<1>2. CASE StartSequence
  <2>1. PICK c \in Nodes : c = Current
    BY <1>2, StartFacts DEF StartSequence
  <2>2. path # <<>> /\ Kind(c) \in Sequential /\ Kind(c) \notin Leaves /\ TypeOK /\ memo[c] \in Nat
    BY <1>1, <1>2, <2>1, StartFacts DEF StartSequence
  <2> DEFINE roots == IF Fresh THEN Kids(c) ELSE {}
             first == IF Fresh \/ ~HasMemory THEN 1 ELSE memo[c]
  <2>3. status' = Stopped(roots) /\ Keep(first) /\ Descend(Child(first))
    BY <1>2, <2>1 DEF StartSequence, StopsChildren
  <2>4. roots \in SUBSET Kids(c) /\ first \in Nat
    BY <2>2
  <2> HIDE DEF roots, first
  <2> QED
    BY <2>1, <2>2, <2>3, <2>4, GoingDownLasts DEF Descend
<1>3. CASE NextInSequence
  <2>1. PICK c \in Nodes : c = Current
    BY <1>3, StartFacts DEF NextInSequence
  <2>2. path # <<>> /\ Kind(c) \in Sequential /\ Kind(c) \notin Leaves /\ TypeOK /\ memo[c] \in Nat
    BY <1>1, <1>3, <2>1, StartFacts DEF NextInSequence
  <2>3. status' = Stopped({}) /\ Keep(memo[c] + 1) /\ Descend(Child(memo[c] + 1)) /\ memo[c] + 1 \in Nat
    BY <1>3, <2>1, <2>2, StopsNothing DEF NextInSequence
  <2> QED
    BY <2>1, <2>2, <2>3, GoingDownLasts DEF Descend
<1>4. CASE EndSequence
  <2>1. PICK c \in Nodes : c = Current
    BY <1>4, StartFacts DEF EndSequence
  <2>2. /\ path # <<>> /\ Kind(c) \in Sequential /\ TypeOK /\ memo[c] \in Nat
        /\ started /\ UnderWay(c) /\ ChildReturned
    BY <1>4, <2>1, StartFacts DEF EndSequence, IInv
  <2>3. /\ Kind(c) \notin Modifiers /\ Kind(c) \notin Concurrent
        /\ Kind(c) \notin {"condition", "elapsed", "timeout", "retry", "is", "one_of"}
        /\ DOMAIN Children(c) = 1..Len(Children(c)) /\ Len(Children(c)) \in Nat
    BY <2>2, KindsApart, ChildrenFacts DEF Sequential
  <2> DEFINE d == Children(c)[memo[c]]
             new == status[d]
             behind == {Children(c)[i] : i \in (memo[c] + 1)..Len(Children(c))}
             roots == IF new = "SUCCESS" \/ HasMemory THEN {} ELSE behind
  <2>4. (new # "SUCCESS" \/ memo[c] = Len(Children(c))) /\ Return(new, roots) /\ memo' = memo
    BY <1>4, <2>1 DEF EndSequence, Child, kept
  <2>5. memo[c] \in DOMAIN Children(c) /\ d \in Nodes
    BY <2>2, ChildrenFacts DEF UnderWay, Kids
  <2>6. Done(c, d)
    BY <2>1, <2>2, <2>3 DEF ChildReturned, ComeTo, Place
  <2>7. new \in Answers
    BY <2>2, <2>5, <2>6 DEF Done, Answers, TypeOK, Statuses
  <2>8. roots \in SUBSET Kids(c)
    <3>1. \A i \in (memo[c] + 1)..Len(Children(c)) : i \in DOMAIN Children(c)
      BY <2>2, <2>3
    <3> QED
      BY <3>1 DEF Kids
  <2>9. Kind(c) = "serial" => roots = {} /\ d \in ticked
    BY <2>1, <2>6 DEF HasMemory, Done
  <2>10. new = "SUCCESS" => d = Children(c)[Len(Children(c))]
    BY <2>4
  <2>11. \A n \in Nodes \ {c} : memo'[n] = memo[n]
    BY <2>4
  <2>12. Kind(c) = "serial" /\ new = "RUNNING" =>
             /\ roots = {} /\ memo'[c] \in DOMAIN Children(c)
             /\ status[Children(c)[memo'[c]]] = "RUNNING"
    BY <2>4, <2>5, <2>9
  <2>13. Kind(c) = "serial" /\ new = "SUCCESS" =>
             /\ roots = {} /\ Children(c)[Len(Children(c))] \in ticked
             /\ status[Children(c)[Len(Children(c))]] = "SUCCESS"
    BY <2>9, <2>10
  <2> HIDE DEF new, roots
  <2> QED
    BY <2>1, <2>2, <2>3, <2>4, <2>7, <2>8, <2>11, <2>12, <2>13, ReturningLasts
<1>5. CASE StartParallel
  <2>1. PICK c \in Nodes : c = Current
    BY <1>5, StartFacts DEF StartParallel
  <2>2. path # <<>> /\ Kind(c) \in Concurrent /\ Kind(c) \notin Leaves
    BY <1>1, <1>5, <2>1, StartFacts DEF StartParallel
  <2> DEFINE roots == IF Fresh THEN Kids(c) ELSE {}
  <2>3. /\ status' = Stopped(roots) /\ Keep(0) /\ UNCHANGED inputs /\ ticked' = ticked
        /\ roots \in SUBSET Kids(c)
    BY <1>5, <2>1 DEF StartParallel, StopsChildren
  <2> HIDE DEF roots
  <2> QED
    BY <2>1, <2>2, <2>3, GoingDownLasts
<1>6. CASE NextInParallel
  <2>1. PICK c \in Nodes : c = Current
    BY <1>6, StartFacts DEF NextInParallel
  <2>2. path # <<>> /\ Kind(c) \in Concurrent /\ Kind(c) \notin Leaves /\ TypeOK
    BY <1>1, <1>6, <2>1, StartFacts DEF NextInParallel
  <2>3. PICK i \in DOMAIN Children(c) : Keep(i) /\ Descend(Child(i))
    BY <1>6, <2>1 DEF NextInParallel
  <2>4. i \in Nat /\ status' = Stopped({})
    BY <1>6, <2>2, ChildrenFacts, StopsNothing DEF NextInParallel
  <2> QED
    BY <2>1, <2>2, <2>3, <2>4, GoingDownLasts DEF Descend
<1>7. CASE EndParallel
  <2>1. PICK c \in Nodes : c = Current
    BY <1>7, StartFacts DEF EndParallel
  <2>2. path # <<>> /\ Kind(c) \in Concurrent /\ TypeOK
    BY <1>7, <2>1, StartFacts DEF EndParallel
  <2>3. Return(Verdict, Abandoned) /\ Keep(0)
    BY <1>7 DEF EndParallel
  <2>4. \A d \in Kids(c) : Done(c, d)
    BY <1>7, <2>1, AllDone DEF EndParallel
  <2>5. Verdict \in Answers /\ Abandoned \in SUBSET Kids(c)
    BY <2>1 DEF Verdict, Answers, Abandoned
  <2>6. Kind(c) = "one_of" /\ IsRace(c[1]) /\ Verdict = "SUCCESS" => Lasted(c[1])
    BY <2>1, <2>4, RaceWon
  <2>7. \A n \in Nodes \ {c} : memo'[n] = memo[n]
    BY <2>1, <2>2, <2>3, KeepFacts
  <2>8. Kind(c) \notin {"condition", "elapsed", "serial", "timeout", "retry", "is"}
    BY <2>2 DEF Concurrent
  <2> QED
    BY <2>1, <2>2, <2>3, <2>5, <2>6, <2>7, <2>8, ReturningLasts
<1> QED
  BY <1>2, <1>3, <1>4, <1>5, <1>6, <1>7 DEF TickComposition

\* What is left to show of a modifier that returns.
LEMMA ModifierReturningLasts ==
    ASSUME IInv, Lasting, NEW kinds \in SUBSET Modifiers, GoesOn(kinds),
           NEW new \in Answers, NEW roots \in SUBSET {Child(1)}, Return(new, roots),
           memo' = memo \/ Keep(memo[Current] + 1),
           Kind(Current) \in {"timeout", "retry"} /\ new = "SUCCESS" => roots = {} /\ Of = "SUCCESS",
           Kind(Current) = "is" /\ SuccessIsFailure(This) => new # "SUCCESS"
    PROVE  Lasting'
<1>1. PICK c \in Nodes : c = Current
  BY StartFacts
<1>2. /\ path # <<>> /\ Kind(c) \in Modifiers /\ TypeOK /\ memo[c] \in Nat /\ started /\ ChildReturned
  BY <1>1, StartFacts DEF IInv
<1>3. /\ Kids(c) = {Child(1)} /\ Child(1) = Children(c)[1] /\ This = Modifier(c[1], c[2])
      /\ Kind(c) \notin Concurrent /\ Kind(c) # "serial" /\ Kind(c) # "one_of"
  BY <1>1, <1>2, ModifierKids
<1>4. Kind(c) # "condition" /\ Kind(c) # "elapsed"
  BY <1>2 DEF Modifiers
<1>5. Done(c, Child(1))
  BY <1>1, <1>2, <1>3 DEF ChildReturned, ComeTo, Place
<1>6. Child(1) \in ticked
  <2>1. Kind(c) # "parallel"
    BY <1>2 DEF Modifiers
  <2> QED
    BY <1>5, <2>1 DEF Done
<1>7. \A n \in Nodes \ {c} : memo'[n] = memo[n]
  <2>1. memo[c] + 1 \in Nat
    BY <1>2
  <2> QED
    BY <1>1, <1>2, <2>1, KeepFacts
<1>8. Kind(c) \in {"timeout", "retry"} /\ new = "SUCCESS" =>
          roots = {} /\ Children(c)[1] \in ticked /\ status[Children(c)[1]] = "SUCCESS"
  BY <1>1, <1>3, <1>6 DEF Of
<1>9. Kind(c) = "is" /\ SuccessIsFailure(Modifier(c[1], c[2])) => new # "SUCCESS"
  BY <1>1, <1>3
<1> QED
  BY <1>1, <1>2, <1>3, <1>4, <1>7, <1>8, <1>9, ReturningLasts

\* The modifiers.
LEMMA ModifierLasts == ASSUME IInv, Lasting, TickModifier PROVE Lasting'
<1>1. CASE StartModifier
  <2>1. PICK c \in Nodes : c = Current
    BY <1>1, StartFacts DEF StartModifier
  <2>2. path # <<>> /\ Kind(c) \in Modifiers /\ TypeOK /\ memo[c] \in Nat /\ now \in Nat
    BY <1>1, <2>1, StartFacts DEF StartModifier
  <2> DEFINE value == IF ~Fresh THEN memo[c] ELSE IF Kind(c) = "timeout" THEN now + This.duration ELSE 0
  <2>3. Keep(value) /\ Descend(Child(1)) /\ status' = Stopped({}) /\ {} \in SUBSET Kids(c)
    BY <1>1, <2>1, <2>2, StopsNothing DEF StartModifier
  <2>4. Kind(c) \notin Leaves /\ (Kind(c) = "timeout" => This.duration \in Nat)
    BY <2>1, <2>2, ModifierKids
  <2>5. value \in Nat
    BY <2>2, <2>4
  <2> HIDE DEF value
  <2> QED
    BY <2>1, <2>2, <2>3, <2>4, <2>5, GoingDownLasts DEF Descend
<1>2. CASE Expire
  <2>1. /\ {"timeout"} \in SUBSET Modifiers /\ GoesOn({"timeout"}) /\ "FAILURE" \in Answers
        /\ Return("FAILURE", {Child(1)}) /\ memo' = memo
    BY <1>2 DEF Expire, kept, Modifiers, Answers
  <2> QED
    BY <2>1, ModifierReturningLasts
<1>3. CASE Again
  <2> DEFINE kinds == {"retry", "repeat"}
  <2>1. /\ kinds \in SUBSET Modifiers /\ GoesOn(kinds) /\ "RUNNING" \in Answers
        /\ Return("RUNNING", {}) /\ (memo' = memo \/ Keep(memo[Current] + 1))
    BY <1>3 DEF Again, Modifiers, Answers
  <2> HIDE DEF kinds
  <2> QED
    BY <2>1, ModifierReturningLasts
<1>4. CASE Enough
  <2> DEFINE kinds == {"retry", "repeat"}
  <2>1. /\ kinds \in SUBSET Modifiers /\ GoesOn(kinds) /\ Counts
        /\ Return(Of, {}) /\ Keep(memo[Current] + 1) /\ Kind(Current) \in kinds
    BY <1>4 DEF Enough, Modifiers, GoesOn
  <2>2. Of \in Answers /\ Kind(Current) # "is"
    BY <2>1 DEF Answers, Counts
  <2> HIDE DEF kinds
  <2> QED
    BY <2>1, <2>2, ModifierReturningLasts
<1>5. CASE MapStatus
  <2> DEFINE roots == IF This.to # "RUNNING" /\ Of = "RUNNING" THEN {Child(1)} ELSE {}
  <2>1. /\ {"is"} \in SUBSET Modifiers /\ GoesOn({"is"})
        /\ Return(This.to, roots) /\ memo' = memo /\ Kind(Current) = "is"
    BY <1>5 DEF MapStatus, kept, Modifiers, GoesOn
  <2>2. PICK c \in Nodes : c = Current
    BY <2>1, StartFacts
  <2>3. This.to \in Answers
    BY <2>1, <2>2, ModifierKids DEF Modifiers
  <2>4. SuccessIsFailure(This) => This.to # "SUCCESS"
    BY DEF SuccessIsFailure
  <2>5. roots \in SUBSET {Child(1)}
    OBVIOUS
  <2> HIDE DEF roots
  <2> QED
    BY <2>1, <2>3, <2>4, <2>5, ModifierReturningLasts
<1>6. CASE Invert
  <2> DEFINE new == IF Of = "SUCCESS" THEN "FAILURE" ELSE "SUCCESS"
  <2>1. /\ {"inverter"} \in SUBSET Modifiers /\ GoesOn({"inverter"})
        /\ Return(new, {}) /\ memo' = memo /\ Kind(Current) = "inverter"
    BY <1>6 DEF Invert, kept, Modifiers, GoesOn
  <2>2. new \in Answers
    BY DEF Answers
  <2> HIDE DEF new
  <2> QED
    BY <2>1, <2>2, ModifierReturningLasts
<1>7. CASE PassOn
  <2>1. /\ Modifiers \in SUBSET Modifiers /\ GoesOn(Modifiers) /\ ~Maps
        /\ Return(Of, {}) /\ memo' = memo
    BY <1>7 DEF PassOn, kept
  <2>2. Of \in Answers
    BY <2>1, ChildAnswers
  <2>3. Kind(Current) = "is" /\ SuccessIsFailure(This) => Of # "SUCCESS"
    BY <2>1 DEF Maps, SuccessIsFailure
  <2> QED
    BY <2>1, <2>2, <2>3, ModifierReturningLasts
<1> QED
  BY <1>1, <1>2, <1>3, <1>4, <1>5, <1>6, <1>7 DEF TickModifier

\* What the answers of the latest tick say holds in every state of the specification.
THEOREM AnswersInvariant == Spec => []Lasting
<1>1. Init => Lasting
  <2> SUFFICES ASSUME Init PROVE Lasting
    OBVIOUS
  <2>1. ticked = {} /\ \A n \in Nodes : status[n] = "INVALID"
    BY DEF Init
  <2>2. \A r \in Races : Behaviour(TimerOf(r)) \in Nodes
    BY RaceShape
  <2> QED
    BY <2>1, <2>2 DEF Lasting, TimerRuns
<1>2. IInv /\ Lasting /\ [Next]_vars => Lasting'
  <2> SUFFICES ASSUME IInv, Lasting, [Next]_vars PROVE Lasting'
    OBVIOUS
  <2>1. CASE \E delay \in 1..MaxStep, seen \in Readings : TickTree(delay, seen)
    BY <2>1, TickLasting
  <2>2. CASE TickLeaf
    BY <2>2, LeafLasts
  <2>3. CASE TickComposition
    BY <2>3, CompositionLasts
  <2>4. CASE TickModifier
    BY <2>4, ModifierLasts
  <2>5. CASE UNCHANGED vars
    <3>1. UNCHANGED <<scenario, status, memo, previous, emitted, level, since, now, path, started, ticked, before>>
      BY <2>5 DEF vars
    <3>2. ASSUME NEW n \in ticked' PROVE Answered(n)'
      BY <3>1, <3>2 DEF Lasting, Answered, ComeTo, Place, Lasted, Unbroken
    <3>3. ASSUME NEW r \in Races PROVE TimerRuns(r)'
      BY <3>1 DEF Lasting, TimerRuns, Unbroken
    <3> QED
      BY <3>2, <3>3 DEF Lasting
  <2> QED
    BY <2>1, <2>2, <2>3, <2>4, <2>5 DEF Next
<1> QED
  BY <1>1, <1>2, TreeInvariant, PTL DEF Spec

\* A serial of which every modifier is a timeout or a retry succeeds only when its last member does.
LEMMA LastOfASuccess ==
    ASSUME \A n \in ticked : Answered(n), NEW e \in DOMAIN Elements, NEW last, EndsWith(e, last),
           Outermost(e) \in ticked, status[Outermost(e)] = "SUCCESS"
    PROVE  last \in DOMAIN Elements /\ Outermost(last) \in ticked /\ status[Outermost(last)] = "SUCCESS"
<1> DEFINE bad == {l \in 1..Innermost(e) : ~(<<e, l>> \in ticked /\ status[<<e, l>>] = "SUCCESS")}
<1>1. /\ Elements[e].op = "serial" /\ Elements[e].untils = <<>>
      /\ Elements[e].members[Len(Elements[e].members)] = last
      /\ \A k \in DOMAIN Elements[e].modifiers : Modifier(e, k).kind \in {"timeout", "retry"}
  BY DEF EndsWith, Modifier
<1>2. Innermost(e) \in Nat \ {0} /\ Outermost(e) = <<e, 1>> /\ Outermost(e)[2] = 1
  BY <1>1, LayerFacts DEF Outermost
<1>3. \A k \in 1..(Innermost(e) - 1) : Modifier(e, k).kind \in {"timeout", "retry"}
  <2>1. DOMAIN Elements[e].modifiers = 1..(Innermost(e) - 1)
    BY ElementFacts DEF Innermost
  <2> QED
    BY <1>1, <2>1
<1>4. bad = {}
  <2> SUFFICES ASSUME bad # {} PROVE FALSE
    OBVIOUS
  <2>1. bad \subseteq Nat
    BY <1>2
  <2>2. PICK l \in bad : \A k \in bad : l <= k
    BY <2>1, LeastNumber
  <2>3. l \in 1..Innermost(e) /\ ~(<<e, l>> \in ticked /\ status[<<e, l>>] = "SUCCESS")
    BY <2>2
  <2>4. l # 1
    BY <1>2, <2>3
  <2>5. PICK k \in 1..(Innermost(e) - 1) : k + 1 = l
    <3>1. l - 1 \in 1..(Innermost(e) - 1) /\ (l - 1) + 1 = l
      BY <1>2, <2>3, <2>4
    <3> QED
      BY <3>1
  <2>6. k \in 1..Innermost(e) /\ ~(l <= k) /\ k \in Nat /\ 1 <= k /\ k <= Innermost(e)
    BY <1>2, <2>5
  <2>7. <<e, k>> \in ticked /\ status[<<e, k>>] = "SUCCESS"
    BY <2>2, <2>6
  <2> DEFINE n == <<e, k>>
  <2>8. n \in Nodes /\ n[1] = e /\ n[2] = k
    BY <1>2, <2>6, IsNode
  <2> HIDE DEF n
  <2>9. Kind(n) = Modifier(e, k).kind /\ Children(n) = <<<<e, k + 1>>>>
    BY <2>5, <2>8, ModifierShape
  <2>10. Kind(n) \in {"timeout", "retry"} /\ Children(n)[1] = <<e, l>>
    BY <1>3, <2>5, <2>9
  <2>11. n \in ticked /\ status[n] = "SUCCESS"
    BY <2>7 DEF n
  <2>12. <<e, l>> \in ticked /\ status[<<e, l>>] = "SUCCESS"
    BY <2>10, <2>11 DEF Answered
  <2> QED
    BY <2>3, <2>12
<1> DEFINE n == <<e, Innermost(e)>>
<1>5. n \in ticked /\ status[n] = "SUCCESS"
  <2>1. Innermost(e) \in 1..Innermost(e)
    BY <1>2
  <2> QED
    BY <1>4, <2>1
<1>6. n \in Nodes /\ n[1] = e /\ n[2] = Innermost(e)
  <2>1. Outermost(e)[2] <= Innermost(e) /\ Innermost(e) <= Innermost(e)
    BY <1>2
  <2> QED
    BY <1>2, <2>1, IsNode
<1> HIDE DEF n, bad
<1>7. /\ Kind(n) = "serial" /\ Elements[e].members \in Seq(DOMAIN Elements)
      /\ Len(Children(n)) = Len(Elements[e].members)
      /\ \A i \in 1..Len(Elements[e].members) : Children(n)[i] = Outermost(Elements[e].members[i])
  BY <1>1, <1>6, BehaviourShape
<1>8. Len(Elements[e].members) \in 1..Len(Elements[e].members)
  <2>1. Elements[e].members # <<>>
    BY <1>1, ElementFacts DEF Leaves
  <2> QED
    BY <1>7, <2>1
<1>9. last \in DOMAIN Elements /\ Children(n)[Len(Children(n))] = Outermost(last)
  BY <1>1, <1>7, <1>8
<1> QED
  BY <1>5, <1>7, <1>9 DEF Answered

\* A scenario that waits for a condition to last succeeds only when it has held for the whole duration.
THEOREM ConditionHasHeld == Spec => []HeldForDuration
<1>1. IInv /\ Lasting => HeldForDuration
  <2> SUFFICES ASSUME IInv, Lasting, path = <<>>, status[Root] = "SUCCESS",
                      NEW attempt \in DOMAIN Elements, NEW race \in DOMAIN Elements,
                      EndsWith(scenario, attempt), EndsWith(attempt, race), IsRace(race)
               PROVE  Lasted(race)
    BY DEF HeldForDuration
  <2>1. scenario \in DOMAIN Elements
    BY TreeAssumption DEF IInv, TypeOK
  <2>2. Root \in ticked /\ \A n \in ticked : Answered(n)
    BY DEF IInv, AtRest, Lasting
  <2>3. Outermost(attempt) \in ticked /\ status[Outermost(attempt)] = "SUCCESS"
    BY <2>1, <2>2, LastOfASuccess DEF Root
  <2>4. Outermost(race) \in ticked /\ status[Outermost(race)] = "SUCCESS"
    BY <2>2, <2>3, LastOfASuccess
  <2>5. /\ Outermost(race) = Behaviour(race) /\ Behaviour(race)[1] = race
        /\ Kind(Behaviour(race)) = "one_of"
    BY PlainShape DEF IsRace
  <2> QED
    BY <2>2, <2>4, <2>5 DEF Answered
<1> QED
  BY <1>1, TreeInvariant, AnswersInvariant, PTL
==============================================================================
