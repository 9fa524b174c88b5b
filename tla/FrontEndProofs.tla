--------------------------- MODULE FrontEndProofs ---------------------------
(***************************************************************************)
(* Proofs of what the front end promises, in two parts.                     *)
(*                                                                          *)
(* ImportWalk, for any number of files that import each other in any way:   *)
(* the walk is a stack of files that were opened one after the other, and   *)
(* what each of them is behind is opened or declared.                       *)
(*                                                                          *)
(* OscLexer, for any text: the columns that the lexer keeps are those at    *)
(* which the blocks around the last token begin.                            *)
(***************************************************************************)
EXTENDS ImportWalk, OscLexer, FiniteSetTheorems, SequenceTheorems, WellFoundedInduction, TLAPS
-----------------------------------------------------------------------------
(* The walk: the invariant                                                 *)

Walks == [file : Files, done : Nat]

TypeOK ==
    /\ \A f \in Files : Len(Contents[f]) \in Nat
    /\ first \in Files
    /\ parsed_files \in Seq(Names)
    /\ walks \in Seq(Walks)
    /\ made \in Seq(Files \X Nat)
    /\ refused \in BOOLEAN
    /\ refused => walks = <<>>

\* No file is opened twice; the first is the one that is loaded, and each other is there because one
\* that was opened before it imports it.
OpenedOnce ==
    /\ \A a, b \in 1..Len(parsed_files) : parsed_files[a] = parsed_files[b] => a = b
    /\ parsed_files # <<>> /\ parsed_files[1] = first
    /\ \A b \in 1..Len(parsed_files) :
           b = 1 \/ \E a \in 1..(b - 1) :
                        parsed_files[a] \in Files /\ parsed_files[b] \in ImportsOf(parsed_files[a])

\* Of one file, the declarations are added in their order.
AddedInOrder ==
    \A i, j \in 1..Len(made) : i < j /\ made[i][1] = made[j][1] => made[i][2] < made[j][2]

\* The files on the stack are within themselves, and were opened one after the other.
Stacked ==
    /\ \A i \in 1..Len(walks) :
           walks[i].file \in Opened /\ walks[i].done <= Len(Contents[walks[i].file])
    /\ \A i, j \in 1..Len(walks) : i < j => Earlier(walks[i].file, walks[j].file)

\* A statement that the walk is behind: all of a file that is not on the stack.
Passed(f, k) ==
    /\ f \in Opened /\ k \in Statements(f)
    /\ \A i \in 1..Len(walks) : walks[i].file = f => k <= walks[i].done

Progress ==
    /\ Stacked
    /\ Opened \subseteq Files
    /\ \A f \in Opened : \A k \in ImportsIn(f) : Passed(f, k) => \E g \in Opened : Meant(f, k) = {g}
    /\ \A f \in Opened : \A k \in DeclarationsIn(f) :
           Passed(f, k) => \E j \in 1..Len(made) : made[j] = <<f, k>>
    /\ \A j \in 1..Len(made) :
           made[j][2] \in DeclarationsIn(made[j][1]) /\ Passed(made[j][1], made[j][2])

IInv == TypeOK /\ OpenedOnce /\ AddedInOrder /\ ImportedComesFirst /\ (~refused => Progress)
-----------------------------------------------------------------------------
(* The order in which files are opened                                     *)

\* The files that are opened, by their places.
LEMMA OpenedFacts ==
    ASSUME TypeOK
    PROVE  /\ Len(parsed_files) \in Nat /\ DOMAIN parsed_files = 1..Len(parsed_files)
           /\ Opened = {parsed_files[a] : a \in 1..Len(parsed_files)}
           /\ Len(made) \in Nat /\ DOMAIN made = 1..Len(made)
           /\ Len(walks) \in Nat /\ DOMAIN walks = 1..Len(walks)
BY DEF TypeOK, Opened

\* No two files are both opened before the other.
LEMMA EarlierIsAnOrder ==
    ASSUME TypeOK, OpenedOnce, NEW f, NEW g, Earlier(f, g)
    PROVE  ~Earlier(g, f) /\ f # g
BY OpenedFacts DEF OpenedOnce, Earlier

\* A new file comes behind all the others, and changes nothing among them.
LEMMA EarlierGrows ==
    ASSUME TypeOK, NEW new, new \notin Opened, parsed_files' = Append(parsed_files, new), new \in Names
    PROVE  /\ Opened' = Opened \cup {new}
           /\ Len(parsed_files') = Len(parsed_files) + 1
           /\ \A a \in 1..Len(parsed_files) : parsed_files'[a] = parsed_files[a]
           /\ parsed_files'[Len(parsed_files) + 1] = new
           /\ \A f \in Opened : Earlier(f, new)'
           /\ \A f, g : Earlier(f, g) => Earlier(f, g)'
           /\ \A f, g : Earlier(f, g)' => Earlier(f, g) \/ g = new
<1> DEFINE n == Len(parsed_files)
<1>1. n \in Nat /\ DOMAIN parsed_files = 1..n /\ parsed_files \in Seq(Names)
  BY OpenedFacts DEF TypeOK
<1>2. /\ DOMAIN parsed_files' = 1..(n + 1) /\ Len(parsed_files') = n + 1
      /\ \A a \in 1..n : parsed_files'[a] = parsed_files[a]
      /\ parsed_files'[n + 1] = new
  BY <1>1
<1>3. 1..(n + 1) = 1..n \cup {n + 1}
  BY <1>1
<1> HIDE DEF n
<1>4. Opened' = Opened \cup {new}
  BY <1>1, <1>2, <1>3 DEF Opened
<1>5. ASSUME NEW f \in Opened PROVE Earlier(f, new)'
  <2>1. PICK a \in 1..n : parsed_files[a] = f
    BY <1>1 DEF Opened
  <2>2. a \in 1..(n + 1) /\ n + 1 \in 1..(n + 1) /\ a < n + 1
    BY <1>1
  <2> QED
    BY <1>2, <2>1, <2>2 DEF Earlier
<1>6. ASSUME NEW f, NEW g, Earlier(f, g) PROVE Earlier(f, g)'
  <2>1. PICK a \in 1..n, b \in 1..n : parsed_files[a] = f /\ parsed_files[b] = g /\ a < b
    BY <1>1, <1>6 DEF Earlier
  <2> QED
    BY <1>2, <1>3, <2>1 DEF Earlier
<1>7. ASSUME NEW f, NEW g, Earlier(f, g)', g # new PROVE Earlier(f, g)
  <2>1. PICK a \in 1..(n + 1), b \in 1..(n + 1) : parsed_files'[a] = f /\ parsed_files'[b] = g /\ a < b
    BY <1>2, <1>7 DEF Earlier
  <2>2. b \in 1..n
    BY <1>2, <1>3, <1>7, <2>1
  <2>3. a \in 1..n
    BY <1>1, <2>1, <2>2
  <2> QED
    BY <1>1, <1>2, <2>1, <2>2, <2>3 DEF Earlier
<1> QED
  BY <1>2, <1>4, <1>5, <1>6, <1>7 DEF n
-----------------------------------------------------------------------------
(* The stack                                                               *)

\* The file on top is there once and is the last that was opened of those on the stack: nothing that
\* was opened behind it is still walked through.
LEMMA TopOfTheStack ==
    ASSUME IInv, ~refused, walks # <<>>
    PROVE  /\ Len(walks) \in 1..Len(walks) /\ Walk = walks[Len(walks)] /\ Walk \in Walks
           /\ Walk.file \in Opened /\ Walk.file \in Files /\ Walk.done \in Nat /\ Here \in Nat
           /\ Len(Contents[Walk.file]) \in Nat /\ Walk.done <= Len(Contents[Walk.file])
           /\ \A i \in 1..Len(walks) : walks[i].file = Walk.file => i = Len(walks)
           /\ \A g : Earlier(Walk.file, g) => \A i \in 1..Len(walks) : walks[i].file # g
<1> DEFINE n == Len(walks)
<1>1. TypeOK /\ OpenedOnce /\ Progress /\ Stacked
  BY DEF IInv, Progress
<1>2. n \in Nat /\ n # 0 /\ walks \in Seq(Walks) /\ DOMAIN walks = 1..n
  BY <1>1 DEF TypeOK
<1>3. n \in 1..n /\ Walk = walks[n] /\ walks[n] \in Walks
  BY <1>2 DEF Walk
<1>4. /\ Walk.file \in Opened /\ Walk.file \in Files /\ Walk.done \in Nat /\ Here \in Nat
      /\ Walk.done <= Len(Contents[Walk.file])
  BY <1>1, <1>3 DEF Stacked, Walks, Here
<1>5. Len(Contents[Walk.file]) \in Nat
  BY <1>1, <1>4 DEF TypeOK
<1> HIDE DEF n
<1>6. \A i \in 1..n : i # n => Earlier(walks[i].file, walks[n].file)
  <2>1. \A i, j \in 1..n : i < j => Earlier(walks[i].file, walks[j].file)
    BY <1>1 DEF n, Stacked
  <2>2. \A i \in 1..n : i # n => i < n
    BY <1>2
  <2> QED
    BY <1>3, <2>1, <2>2
<1>7. \A i \in 1..n : walks[i].file = walks[n].file => i = n
  BY <1>1, <1>6, EarlierIsAnOrder
<1>8. ASSUME NEW g, Earlier(walks[n].file, g), NEW i \in 1..n PROVE walks[i].file # g
  <2>1. CASE i = n
    BY <1>1, <1>8, <2>1, EarlierIsAnOrder
  <2>2. CASE i # n
    BY <1>1, <1>6, <1>8, <2>2, EarlierIsAnOrder
  <2> QED
    BY <2>1, <2>2
<1> QED
  BY <1>3, <1>4, <1>5, <1>7, <1>8 DEF n

\* Of the file on top, the walk is behind the statements that are done.
LEMMA PassedOnTop ==
    ASSUME IInv, ~refused, walks # <<>>
    PROVE  \A k : Passed(Walk.file, k) <=> k \in Statements(Walk.file) /\ k <= Walk.done
<1> DEFINE n == Len(walks)
<1>1. /\ n \in 1..n /\ Walk = walks[n] /\ Walk.file \in Opened
      /\ \A i \in 1..n : walks[i].file = Walk.file => i = n
  BY TopOfTheStack
<1> HIDE DEF n
<1>2. ASSUME NEW k, Passed(Walk.file, k) PROVE k \in Statements(Walk.file) /\ k <= Walk.done
  BY <1>1, <1>2 DEF Passed, n
<1>3. ASSUME NEW k, k \in Statements(Walk.file), k <= Walk.done PROVE Passed(Walk.file, k)
  <2>1. \A i \in 1..n : walks[i].file = Walk.file => k <= walks[i].done
    BY <1>1, <1>3
  <2> QED
    BY <1>1, <1>3, <2>1 DEF Passed, n
<1> QED
  BY <1>2, <1>3

\* The statement that is next is within the file, and not passed.
LEMMA NextStatement ==
    ASSUME IInv, ~refused, Going
    PROVE  /\ walks # <<>> /\ Here \in Statements(Walk.file) /\ Here = Walk.done + 1
           /\ Here <= Len(Contents[Walk.file]) /\ ~Passed(Walk.file, Here)
<1>1. walks # <<>> /\ Here \in Statements(Walk.file)
  BY DEF Going
<1>2. Walk.done \in Nat /\ Len(Contents[Walk.file]) \in Nat
  BY <1>1, TopOfTheStack
<1>3. Here = Walk.done + 1 /\ ~(Here <= Walk.done) /\ Here <= Len(Contents[Walk.file])
  BY <1>1, <1>2 DEF Here, Statements
<1> QED
  BY <1>1, <1>3, PassedOnTop

\* The stack when the walk on top went one statement further.
LEMMA MovedFacts ==
    ASSUME IInv, ~refused, Going
    PROVE  /\ Moved \in Seq(Walks) /\ Len(Moved) = Len(walks) /\ Len(walks) \in Nat
           /\ \A i \in 1..Len(walks) : Moved[i].file = walks[i].file
           /\ \A i \in 1..Len(walks) : i # Len(walks) => Moved[i].done = walks[i].done
           /\ Moved[Len(walks)].done = Here
<1> DEFINE n == Len(walks)
<1>1. n \in Nat /\ walks \in Seq(Walks) /\ DOMAIN walks = 1..n
  BY DEF IInv, TypeOK
<1>2. n \in 1..n /\ walks[n] \in Walks /\ Here \in Nat
  BY NextStatement, TopOfTheStack
<1>3. \A i \in 1..n : walks[i] \in Walks
  BY <1>1
<1>4. Moved = [i \in 1..n |-> IF i = n THEN [walks[n] EXCEPT !.done = Here] ELSE walks[i]]
  BY <1>1, <1>2 DEF Moved
<1>5. [walks[n] EXCEPT !.done = Here] \in Walks
  BY <1>2 DEF Walks
<1> HIDE DEF n
<1>6. Moved \in [1..n -> Walks]
  BY <1>3, <1>4, <1>5
<1>7. Moved \in Seq(Walks) /\ Len(Moved) = n
  BY <1>1, <1>6
<1>8. /\ [walks[n] EXCEPT !.done = Here].file = walks[n].file
      /\ [walks[n] EXCEPT !.done = Here].done = Here
  BY <1>2 DEF Walks
<1>9. \A i \in 1..n : Moved[i].file = walks[i].file
  BY <1>4, <1>8
<1>10. \A i \in 1..n : i # n => Moved[i].done = walks[i].done
  BY <1>4
<1>11. Moved[n].done = Here
  BY <1>2, <1>4, <1>8
<1> QED
  BY <1>1, <1>7, <1>9, <1>10, <1>11 DEF n

\* What is declared behind an import has it opened.
LEMMA ImportsBefore ==
    ASSUME IInv, ~refused, NEW j \in 1..Len(made), NEW m \in ImportsIn(made[j][1]), m < made[j][2]
    PROVE  Meant(made[j][1], m) \subseteq Opened
<1>1. PICK f, k : f = made[j][1] /\ k = made[j][2]
  OBVIOUS
<1>2. Passed(f, k) /\ m \in ImportsIn(f) /\ m < k
  BY <1>1 DEF IInv, Progress
<1>3. f \in Opened /\ f \in Files /\ Len(Contents[f]) \in Nat /\ k \in Statements(f) /\ m \in Statements(f)
  BY <1>2 DEF IInv, Progress, Passed, TypeOK, ImportsIn
<1>4. m \in Nat /\ k \in Nat
  BY <1>3 DEF Statements
<1>5. ASSUME NEW i \in 1..Len(walks), walks[i].file = f PROVE m <= walks[i].done
  <2>1. walks \in Seq(Walks)
    BY DEF IInv, TypeOK
  <2>2. walks[i] \in Walks
    BY <2>1
  <2>3. walks[i].done \in Nat
    BY <2>2 DEF Walks
  <2>4. k <= walks[i].done
    BY <1>2, <1>5 DEF Passed
  <2> QED
    BY <1>2, <1>4, <2>3, <2>4
<1>6. Passed(f, m)
  BY <1>3, <1>5 DEF Passed
<1>7. \E g \in Opened : Meant(f, m) = {g}
  BY <1>2, <1>3, <1>6 DEF IInv, Progress
<1> QED
  BY <1>1, <1>7
-----------------------------------------------------------------------------
(* The steps                                                               *)

\* Nothing is opened: what was opened is as it was.
LEMMA NothingOpened ==
    ASSUME parsed_files' = parsed_files
    PROVE  Opened' = Opened /\ \A f, g : Earlier(f, g)' <=> Earlier(f, g)
BY DEF Opened, Earlier

\* The walk on top goes one statement further, and is behind that one more.
LEMMA OneFurther ==
    ASSUME IInv, ~refused, Going, parsed_files' = parsed_files, walks' = Moved
    PROVE  /\ walks' \in Seq(Walks) /\ Stacked'
           /\ \A f, k : Passed(f, k)' <=> Passed(f, k) \/ (f = Walk.file /\ k = Here)
<1> DEFINE n == Len(walks)
<1>1. /\ walks' \in Seq(Walks) /\ Len(walks') = n /\ n \in Nat
      /\ \A i \in 1..n : walks'[i].file = walks[i].file
      /\ \A i \in 1..n : i # n => walks'[i].done = walks[i].done
      /\ walks'[n].done = Here
  BY MovedFacts
<1>2. /\ n \in 1..n /\ Walk = walks[n] /\ Walk.file \in Opened /\ Walk.done \in Nat /\ Here = Walk.done + 1
      /\ \A i \in 1..n : walks[i].file = Walk.file => i = n
      /\ Here <= Len(Contents[Walk.file]) /\ Here \in Statements(Walk.file)
  BY TopOfTheStack, NextStatement
<1>3. Opened' = Opened /\ \A f, g : Earlier(f, g)' <=> Earlier(f, g)
  BY NothingOpened
<1>4. /\ \A i \in 1..n : walks[i].file \in Opened /\ walks[i].done <= Len(Contents[walks[i].file])
      /\ \A i, j \in 1..n : i < j => Earlier(walks[i].file, walks[j].file)
  BY DEF IInv, Progress, Stacked
<1> HIDE DEF n
<1>5. Stacked'
  <2>1. ASSUME NEW i \in 1..n
        PROVE  walks'[i].file \in Opened' /\ walks'[i].done <= Len(Contents[walks'[i].file])
    <3>1. CASE i = n
      BY <1>1, <1>2, <1>3, <3>1
    <3>2. CASE i # n
      BY <1>1, <1>3, <1>4, <3>2
    <3> QED
      BY <3>1, <3>2
  <2>2. ASSUME NEW i \in 1..n, NEW j \in 1..n, i < j PROVE Earlier(walks[i].file, walks[j].file)'
    <3>1. PICK f, g : f = walks[i].file /\ g = walks[j].file
      OBVIOUS
    <3>2. Earlier(f, g)'
      BY <1>3, <1>4, <2>2, <3>1
    <3>3. f = walks'[i].file /\ g = walks'[j].file
      BY <1>1, <3>1
    <3> QED
      BY <3>2, <3>3 DEF Earlier
  <2> QED
    BY <1>1, <2>1, <2>2 DEF Stacked
<1>6. ASSUME NEW f, NEW k, Passed(f, k)' PROVE Passed(f, k) \/ (f = Walk.file /\ k = Here)
  <2>1. /\ f \in Opened /\ k \in Statements(f)
        /\ \A i \in 1..n : walks'[i].file = f => k <= walks'[i].done
    BY <1>1, <1>3, <1>6 DEF Passed
  <2>2. k \in Nat
    BY <2>1 DEF Statements
  <2>3. CASE f = Walk.file
    <3>1. k <= Here
      BY <1>1, <1>2, <2>1, <2>3
    <3>2. k <= Walk.done \/ k = Here
      BY <1>2, <2>2, <3>1
    <3> QED
      BY <1>2, <2>1, <2>3, <3>2, NextStatement, PassedOnTop
  <2>4. CASE f # Walk.file
    <3>1. \A i \in 1..n : walks[i].file = f => k <= walks[i].done
      BY <1>1, <1>2, <2>1, <2>4
    <3> QED
      BY <2>1, <3>1 DEF Passed, n
  <2> QED
    BY <2>3, <2>4
<1>7. ASSUME NEW f, NEW k, Passed(f, k) PROVE Passed(f, k)'
  <2>1. /\ f \in Opened /\ k \in Statements(f)
        /\ \A i \in 1..n : walks[i].file = f => k <= walks[i].done
    BY <1>7 DEF Passed, n
  <2>2. k \in Nat
    BY <2>1 DEF Statements
  <2>3. ASSUME NEW i \in 1..n, walks'[i].file = f PROVE k <= walks'[i].done
    <3>1. k <= walks[i].done
      BY <1>1, <2>1, <2>3
    <3>2. CASE i = n
      BY <1>1, <1>2, <2>2, <3>1, <3>2
    <3>3. CASE i # n
      BY <1>1, <3>1, <3>3
    <3> QED
      BY <3>2, <3>3
  <2> QED
    BY <1>1, <1>3, <2>1, <2>3 DEF Passed
<1>8. ASSUME NEW f, NEW k, f = Walk.file, k = Here PROVE Passed(f, k)'
  <2>2. \A i \in 1..n : walks'[i].file = f => k <= walks'[i].done
    BY <1>1, <1>2, <1>8
  <2> QED
    BY <1>1, <1>2, <1>3, <1>8, <2>2 DEF Passed
<1> QED
  BY <1>1, <1>5, <1>6, <1>7, <1>8

\* The same, and a new file is on top, of which nothing is passed.
LEMMA OneOpened ==
    ASSUME IInv, ~refused, Going, NEW new \in Files, new \notin Opened,
           parsed_files' = Append(parsed_files, new),
           walks' = Append(Moved, [file |-> new, done |-> 0])
    PROVE  /\ walks' \in Seq(Walks) /\ Stacked'
           /\ \A f \in Opened : \A k :
                  Passed(f, k)' <=> Passed(f, k) \/ (f = Walk.file /\ k = Here)
           /\ \A k : ~Passed(new, k)'
<1> DEFINE n == Len(walks)
<1>1. /\ Moved \in Seq(Walks) /\ Len(Moved) = n /\ n \in Nat
      /\ \A i \in 1..n : Moved[i].file = walks[i].file
      /\ \A i \in 1..n : i # n => Moved[i].done = walks[i].done
      /\ Moved[n].done = Here
  BY MovedFacts
<1>2. /\ n \in 1..n /\ Walk = walks[n] /\ Walk.file \in Opened /\ Walk.done \in Nat /\ Here = Walk.done + 1
      /\ \A i \in 1..n : walks[i].file = Walk.file => i = n
      /\ Here <= Len(Contents[Walk.file]) /\ Here \in Statements(Walk.file)
  BY TopOfTheStack, NextStatement
<1>3. /\ \A i \in 1..n : walks[i].file \in Opened /\ walks[i].done <= Len(Contents[walks[i].file])
      /\ \A i, j \in 1..n : i < j => Earlier(walks[i].file, walks[j].file)
  BY DEF IInv, Progress, Stacked
<1>4. new \in Names /\ TypeOK /\ Len(Contents[new]) \in Nat
  BY DEF Names, IInv, TypeOK
<1>5. /\ Opened' = Opened \cup {new}
      /\ \A f \in Opened : Earlier(f, new)'
      /\ \A f, g : Earlier(f, g) => Earlier(f, g)'
  BY <1>4, EarlierGrows
<1>6. [file |-> new, done |-> 0] \in Walks
  BY DEF Walks
<1> HIDE DEF n
<1>7. /\ walks' \in Seq(Walks) /\ Len(walks') = n + 1
      /\ \A i \in 1..n : walks'[i] = Moved[i]
      /\ walks'[n + 1] = [file |-> new, done |-> 0]
  BY <1>1, <1>6
<1>8. 1..(n + 1) = 1..n \cup {n + 1} /\ n + 1 \notin 1..n
  BY <1>1
<1>9. /\ \A i \in 1..n : walks'[i].file = walks[i].file
      /\ \A i \in 1..n : i # n => walks'[i].done = walks[i].done
      /\ walks'[n].done = Here
      /\ walks'[n + 1].file = new /\ walks'[n + 1].done = 0
  BY <1>1, <1>2, <1>7
<1>10. Stacked'
  <2>1. ASSUME NEW i \in 1..(n + 1)
        PROVE  walks'[i].file \in Opened' /\ walks'[i].done <= Len(Contents[walks'[i].file])
    <3>1. CASE i = n
      BY <1>2, <1>3, <1>5, <1>9, <3>1
    <3>2. CASE i \in 1..n /\ i # n
      BY <1>3, <1>5, <1>9, <3>2
    <3>3. CASE i = n + 1
      <4>1. walks'[i].file = new /\ walks'[i].done = 0
        BY <1>9, <3>3
      <4>2. 0 <= Len(Contents[new])
        BY <1>4
      <4> QED
        BY <1>5, <4>1, <4>2
    <3> QED
      BY <1>8, <3>1, <3>2, <3>3
  <2>2. ASSUME NEW i \in 1..(n + 1), NEW j \in 1..(n + 1), i < j,
               NEW f, NEW g, f = walks'[i].file, g = walks'[j].file
        PROVE  Earlier(f, g)'
    <3>1. i \in 1..n
      BY <1>1, <2>2
    <3>2. f = walks[i].file /\ f \in Opened
      BY <1>3, <1>9, <2>2, <3>1
    <3>3. CASE j \in 1..n
      <4>1. g = walks[j].file
        BY <1>9, <2>2, <3>3
      <4>2. Earlier(f, g)
        BY <1>3, <2>2, <3>1, <3>2, <3>3, <4>1
      <4> QED
        BY <1>5, <4>2
    <3>4. CASE j = n + 1
      BY <1>5, <1>9, <2>2, <3>2, <3>4
    <3> QED
      BY <1>8, <3>3, <3>4
  <2>3. ASSUME NEW i \in 1..(n + 1), NEW j \in 1..(n + 1), i < j
        PROVE  Earlier(walks[i].file, walks[j].file)'
    <3>1. PICK f, g : f = walks'[i].file /\ g = walks'[j].file
      OBVIOUS
    <3>2. Earlier(f, g)'
      BY <2>2, <2>3, <3>1
    <3> QED
      BY <3>1, <3>2 DEF Earlier
  <2> QED
    BY <1>7, <2>1, <2>3 DEF Stacked
<1>11. ASSUME NEW f \in Opened, NEW k
       PROVE  Passed(f, k)' <=> k \in Statements(f) /\ \A i \in 1..n : walks[i].file = f => k <= walks'[i].done
  <2>1. f # new /\ f \in Opened'
    BY <1>5
  <2>2. ASSUME NEW i \in 1..(n + 1), walks'[i].file = f PROVE i \in 1..n
    BY <1>8, <1>9, <2>1, <2>2
  <2>3. (\A i \in 1..(n + 1) : walks'[i].file = f => k <= walks'[i].done)
        <=> \A i \in 1..n : walks[i].file = f => k <= walks'[i].done
    BY <1>8, <1>9, <2>2
  <2> QED
    BY <1>7, <2>1, <2>3 DEF Passed
<1>12. ASSUME NEW f \in Opened, NEW k
       PROVE  Passed(f, k)' <=> Passed(f, k) \/ (f = Walk.file /\ k = Here)
  <2>1. CASE f = Walk.file
    <3>1. Passed(f, k)' <=> k \in Statements(f) /\ k <= Here
      <4>1. (\A i \in 1..n : walks[i].file = f => k <= walks'[i].done) <=> k <= Here
        BY <1>2, <1>9, <2>1
      <4> QED
        BY <1>11, <4>1
    <3>2. \A l \in Statements(f) : l <= Here <=> l <= Walk.done \/ l = Here
      BY <1>2 DEF Statements
    <3>3. Passed(f, k) <=> k \in Statements(f) /\ k <= Walk.done
      BY <2>1, NextStatement, PassedOnTop
    <3> QED
      BY <1>2, <2>1, <3>1, <3>2, <3>3
  <2>2. CASE f # Walk.file
    <3>1. \A i \in 1..n : walks[i].file = f => walks'[i].done = walks[i].done
      BY <1>2, <1>9, <2>2
    <3>2. Passed(f, k) <=> k \in Statements(f) /\ \A i \in 1..n : walks[i].file = f => k <= walks[i].done
      BY DEF Passed, n
    <3> QED
      BY <1>11, <2>2, <3>1, <3>2
  <2> QED
    BY <2>1, <2>2
<1>13. ASSUME NEW k, Passed(new, k)' PROVE FALSE
  <2>1. k \in Statements(new) /\ k <= 0
    BY <1>7, <1>8, <1>9, <1>13 DEF Passed
  <2> QED
    BY <2>1 DEF Statements
<1> QED
  BY <1>7, <1>10, <1>12, <1>13

\* As long as nothing is declared and no opened file comes in between, imported comes first as before.
LEMMA FirstAsBefore ==
    ASSUME IInv, made' = made,
           \A f, g : Earlier(f, g)' => Earlier(f, g) \/ g \notin Opened, ~refused \/ parsed_files' = parsed_files
    PROVE  ImportedComesFirst'
<1>1. SUFFICES ASSUME NEW f \in Files, NEW m \in ImportsIn(f), NEW g \in Meant(f, m), NEW j \in DOMAIN made,
                      made[j][1] = f, m < made[j][2], Earlier(f, g)'
               PROVE  \A k \in DeclarationsIn(g) : \E i \in 1..(j - 1) : made[i] = <<g, k>>
  BY DEF ImportedComesFirst
<1>2. ImportedComesFirst /\ j \in 1..Len(made)
  BY OpenedFacts DEF IInv
<1>3. Earlier(f, g)
  <2>1. CASE ~refused
    <3>1. g \in Opened
      BY <1>1, <1>2, <2>1, ImportsBefore
    <3> QED
      BY <1>1, <3>1
  <2>2. CASE parsed_files' = parsed_files
    BY <1>1, <2>2, NothingOpened
  <2> QED
    BY <2>1, <2>2
<1> QED
  BY <1>1, <1>2, <1>3 DEF ImportedComesFirst

\* Nothing is walked through any more when the file is refused.
LEMMA NotRefused ==
    ASSUME IInv, walks # <<>>
    PROVE  ~refused
BY DEF IInv, TypeOK

\* An import that was opened before is passed without a change.
LEMMA SkipImportKeeps ==
    ASSUME IInv, SkipImport
    PROVE  IInv'
<1>1. /\ ~refused /\ Going /\ Here \in ImportsIn(Walk.file)
      /\ \E g \in Opened : Meant(Walk.file, Here) = {g}
      /\ walks' = Moved /\ parsed_files' = parsed_files /\ made' = made
      /\ first' = first /\ refused' = refused
  BY NotRefused DEF SkipImport, Going
<1>2. /\ walks' \in Seq(Walks) /\ Stacked'
      /\ \A f, k : Passed(f, k)' <=> Passed(f, k) \/ (f = Walk.file /\ k = Here)
  BY <1>1, OneFurther
<1>3. Opened' = Opened /\ \A f, g : Earlier(f, g)' <=> Earlier(f, g)
  BY <1>1, NothingOpened
<1>4. TypeOK'
  BY <1>1, <1>2 DEF IInv, TypeOK
<1>5. OpenedOnce' /\ AddedInOrder'
  BY <1>1 DEF IInv, OpenedOnce, AddedInOrder
<1>6. ImportedComesFirst'
  BY <1>1, <1>3, FirstAsBefore
<1>7. Progress'
  <2>1. Opened' \subseteq Files
    BY <1>1, <1>3 DEF IInv, Progress
  <2>2. ASSUME NEW f \in Opened', NEW k \in ImportsIn(f), Passed(f, k)'
        PROVE  \E g \in Opened' : Meant(f, k) = {g}
    <3>1. CASE Passed(f, k)
      BY <1>1, <1>3, <2>2, <3>1 DEF IInv, Progress
    <3>2. CASE f = Walk.file /\ k = Here
      BY <1>1, <1>3, <3>2
    <3> QED
      BY <1>2, <2>2, <3>1, <3>2
  <2>3. ASSUME NEW f \in Opened', NEW k \in DeclarationsIn(f), Passed(f, k)'
        PROVE  \E j \in 1..Len(made') : made'[j] = <<f, k>>
    <3>1. Passed(f, k)
      BY <1>1, <1>2, <2>3 DEF DeclarationsIn
    <3> QED
      BY <1>1, <1>3, <2>3, <3>1 DEF IInv, Progress
  <2>4. ASSUME NEW j \in 1..Len(made'), NEW f, NEW k, f = made'[j][1], k = made'[j][2]
        PROVE  k \in DeclarationsIn(f) /\ Passed(f, k)'
    BY <1>1, <1>2, <2>4 DEF IInv, Progress
  <2>5. ASSUME NEW j \in 1..Len(made')
        PROVE  (made[j][2] \in DeclarationsIn(made[j][1]) /\ Passed(made[j][1], made[j][2]))'
    <3>1. PICK f, k : f = made'[j][1] /\ k = made'[j][2]
      OBVIOUS
    <3> QED
      BY <2>4, <3>1 DEF Passed
  <2> QED
    BY <1>2, <2>1, <2>2, <2>3, <2>5 DEF Progress
<1> QED
  BY <1>4, <1>5, <1>6, <1>7 DEF IInv

\* One more file is opened that an opened one imports.
LEMMA OpenedOnceMore ==
    ASSUME TypeOK, OpenedOnce, NEW new \in Names, new \notin Opened,
           NEW f \in Opened, f \in Files, new \in ImportsOf(f),
           parsed_files' = Append(parsed_files, new), first' = first
    PROVE  OpenedOnce' /\ parsed_files' \in Seq(Names)
<1> DEFINE n == Len(parsed_files)
<1>1. n \in Nat /\ parsed_files \in Seq(Names) /\ Opened = {parsed_files[a] : a \in 1..n}
  BY OpenedFacts DEF TypeOK
<1>2. /\ parsed_files' \in Seq(Names) /\ Len(parsed_files') = n + 1
      /\ \A a \in 1..n : parsed_files'[a] = parsed_files[a]
      /\ parsed_files'[n + 1] = new
  BY <1>1
<1>3. /\ \A a, b \in 1..n : parsed_files[a] = parsed_files[b] => a = b
      /\ parsed_files # <<>> /\ parsed_files[1] = first
      /\ \A b \in 1..n : b = 1 \/ \E a \in 1..(b - 1) : /\ parsed_files[a] \in Files
                                                        /\ parsed_files[b] \in ImportsOf(parsed_files[a])
  BY DEF OpenedOnce
<1>4. 1 \in 1..n /\ 1..(n + 1) = 1..n \cup {n + 1} /\ (n + 1) - 1 = n /\ parsed_files' # <<>>
  BY <1>1, <1>2, <1>3
<1> HIDE DEF n
<1>5. ASSUME NEW a \in 1..(n + 1), NEW b \in 1..(n + 1), parsed_files'[a] = parsed_files'[b] PROVE a = b
  BY <1>1, <1>2, <1>3, <1>4, <1>5
<1>6. ASSUME NEW b \in 1..(n + 1), b # 1
      PROVE  \E a \in 1..(b - 1) : parsed_files'[a] \in Files /\ parsed_files'[b] \in ImportsOf(parsed_files'[a])
  <2>1. CASE b \in 1..n
    <3>1. PICK a \in 1..(b - 1) : parsed_files[a] \in Files /\ parsed_files[b] \in ImportsOf(parsed_files[a])
      BY <1>3, <1>6, <2>1
    <3>2. a \in 1..n
      BY <1>1, <2>1, <3>1
    <3>3. parsed_files'[a] = parsed_files[a] /\ parsed_files'[b] = parsed_files[b]
      BY <1>2, <2>1, <3>2
    <3> QED
      BY <3>1, <3>3
  <2>2. CASE b = n + 1
    <3>1. PICK a \in 1..n : parsed_files[a] = f
      BY <1>1
    <3>2. parsed_files'[a] = f /\ parsed_files'[b] = new /\ a \in 1..(b - 1)
      BY <1>2, <1>4, <2>2, <3>1
    <3> QED
      BY <3>2
  <2> QED
    BY <1>4, <2>1, <2>2
<1>7. parsed_files'[1] = first'
  BY <1>2, <1>3, <1>4
<1> QED
  BY <1>2, <1>4, <1>5, <1>6, <1>7 DEF OpenedOnce

\* An import of a new file is passed; the file is opened, and walked through first.
LEMMA OpenImportKeeps ==
    ASSUME IInv, OpenImport
    PROVE  IInv'
<1>1. PICK new \in Files \ Opened :
          /\ ~refused /\ Going /\ Here \in ImportsIn(Walk.file) /\ Meant(Walk.file, Here) = {new}
          /\ parsed_files' = Append(parsed_files, new)
          /\ walks' = Append(Moved, [file |-> new, done |-> 0])
          /\ made' = made /\ first' = first /\ refused' = refused
  BY NotRefused DEF OpenImport, Going
<1>2. new \in Files /\ new \notin Opened /\ new \in Names /\ TypeOK /\ OpenedOnce
  BY <1>1 DEF Names, IInv
<1>3. /\ walks' \in Seq(Walks) /\ Stacked'
      /\ \A f \in Opened : \A k : Passed(f, k)' <=> Passed(f, k) \/ (f = Walk.file /\ k = Here)
      /\ \A k : ~Passed(new, k)'
  BY <1>1, <1>2, OneOpened
<1>4. /\ Opened' = Opened \cup {new}
      /\ \A f, g : Earlier(f, g)' => Earlier(f, g) \/ g = new
  BY <1>1, <1>2, EarlierGrows
<1>5. Walk.file \in Opened /\ Walk.file \in Files /\ new \in ImportsOf(Walk.file)
  <2>1. Walk.file \in Opened /\ Walk.file \in Files
    BY <1>1, NextStatement, TopOfTheStack
  <2>2. new \in Meant(Walk.file, Here)
    BY <1>1
  <2> QED
    BY <1>1, <2>1, <2>2 DEF ImportsOf
<1>6. OpenedOnce' /\ parsed_files' \in Seq(Names)
  BY <1>1, <1>2, <1>5, OpenedOnceMore
<1>7. TypeOK'
  BY <1>1, <1>2, <1>3, <1>6 DEF TypeOK
<1>8. AddedInOrder'
  BY <1>1 DEF IInv, AddedInOrder
<1>9. ImportedComesFirst'
  <2>1. \A f, g : Earlier(f, g)' => Earlier(f, g) \/ g \notin Opened
    BY <1>2, <1>4
  <2> QED
    BY <1>1, <2>1, FirstAsBefore
<1>10. Progress'
  <2>1. Opened' \subseteq Files
    BY <1>1, <1>2, <1>4 DEF IInv, Progress
  <2>2. ASSUME NEW f \in Opened', NEW k \in ImportsIn(f), Passed(f, k)'
        PROVE  \E g \in Opened' : Meant(f, k) = {g}
    <3>1. f \in Opened
      BY <1>3, <1>4, <2>2
    <3>2. CASE Passed(f, k)
      BY <1>1, <1>4, <2>2, <3>1, <3>2 DEF IInv, Progress
    <3>3. CASE f = Walk.file /\ k = Here
      BY <1>1, <1>4, <3>3
    <3> QED
      BY <1>3, <2>2, <3>1, <3>2, <3>3
  <2>3. ASSUME NEW f \in Opened', NEW k \in DeclarationsIn(f), Passed(f, k)'
        PROVE  \E j \in 1..Len(made') : made'[j] = <<f, k>>
    <3>1. f \in Opened
      BY <1>3, <1>4, <2>3
    <3>2. Passed(f, k)
      BY <1>1, <1>3, <2>3, <3>1 DEF DeclarationsIn
    <3> QED
      BY <1>1, <2>3, <3>1, <3>2 DEF IInv, Progress
  <2>4. ASSUME NEW j \in 1..Len(made'), NEW f, NEW k, f = made'[j][1], k = made'[j][2]
        PROVE  k \in DeclarationsIn(f) /\ Passed(f, k)'
    <3>1. k \in DeclarationsIn(f) /\ Passed(f, k)
      BY <1>1, <2>4 DEF IInv, Progress
    <3>2. f \in Opened
      BY <3>1 DEF Passed
    <3> QED
      BY <1>3, <3>1, <3>2
  <2>5. ASSUME NEW j \in 1..Len(made')
        PROVE  (made[j][2] \in DeclarationsIn(made[j][1]) /\ Passed(made[j][1], made[j][2]))'
    <3>1. PICK f, k : f = made'[j][1] /\ k = made'[j][2]
      OBVIOUS
    <3> QED
      BY <2>4, <3>1 DEF Passed
  <2> QED
    BY <1>3, <2>1, <2>2, <2>3, <2>5 DEF Progress
<1> QED
  BY <1>6, <1>7, <1>8, <1>9, <1>10 DEF IInv

\* A declaration is added behind those of its file, and behind all that is declared in the files that
\* were opened after its file: none of those is still walked through.
LEMMA DeclareKeeps ==
    ASSUME IInv, Declare
    PROVE  IInv'
<1> DEFINE n == Len(made)
           new == <<Walk.file, Here>>
<1>1. /\ ~refused /\ Going /\ Here \in DeclarationsIn(Walk.file)
      /\ made' = Append(made, new) /\ walks' = Moved
      /\ first' = first /\ parsed_files' = parsed_files /\ refused' = refused
  BY NotRefused DEF Declare, Going
<1>2. /\ walks' \in Seq(Walks) /\ Stacked'
      /\ \A f, k : Passed(f, k)' <=> Passed(f, k) \/ (f = Walk.file /\ k = Here)
  BY <1>1, OneFurther
<1>3. Opened' = Opened /\ \A f, g : Earlier(f, g)' <=> Earlier(f, g)
  BY <1>1, NothingOpened
<1>4. Walk.file \in Files /\ Here \in Nat /\ Here = Walk.done + 1 /\ Walk.done \in Nat /\ walks # <<>>
  BY <1>1, NextStatement, TopOfTheStack
<1>5. made \in Seq(Files \X Nat) /\ n \in Nat /\ new \in Files \X Nat /\ new[1] = Walk.file /\ new[2] = Here
  BY <1>4 DEF IInv, TypeOK
<1>6. /\ \A j \in 1..n : made[j] \in Files \X Nat
      /\ \A j \in 1..n : made[j][2] \in DeclarationsIn(made[j][1]) /\ Passed(made[j][1], made[j][2])
  BY <1>1, <1>5 DEF IInv, Progress
<1> HIDE DEF new
<1>7. /\ made' \in Seq(Files \X Nat) /\ Len(made') = n + 1 /\ DOMAIN made' = 1..(n + 1)
      /\ \A j \in 1..n : made'[j] = made[j]
      /\ made'[n + 1] = new
  BY <1>1, <1>5
<1> HIDE DEF n
<1>8. 1..(n + 1) = 1..n \cup {n + 1} /\ (n + 1) - 1 = n /\ n + 1 \in 1..(n + 1)
  BY <1>5
<1>9. TypeOK'
  BY <1>1, <1>2, <1>7 DEF IInv, TypeOK
<1>10. OpenedOnce'
  BY <1>1 DEF IInv, OpenedOnce
<1>11. AddedInOrder'
  <2>1. ASSUME NEW i \in 1..(n + 1), NEW j \in 1..(n + 1), i < j, made'[i][1] = made'[j][1]
        PROVE  made'[i][2] < made'[j][2]
    <3>1. i \in 1..n /\ made'[i] = made[i]
      BY <1>5, <1>7, <2>1
    <3>2. CASE j \in 1..n
      <4>1. made'[j] = made[j]
        BY <1>7, <3>2
      <4>2. \A a, b \in 1..n : a < b /\ made[a][1] = made[b][1] => made[a][2] < made[b][2]
        BY DEF IInv, AddedInOrder, n
      <4> QED
        BY <2>1, <3>1, <3>2, <4>1, <4>2
    <3>3. CASE j = n + 1
      <4>1. made[i][1] = Walk.file /\ made'[j][2] = Here
        BY <1>5, <1>7, <2>1, <3>1, <3>3
      <4>2. Passed(Walk.file, made[i][2])
        BY <1>6, <3>1, <4>1
      <4>3. made[i][2] <= Walk.done /\ made[i][2] \in Nat
        BY <1>1, <1>4, <1>6, <3>1, <4>2, PassedOnTop
      <4> QED
        BY <1>4, <3>1, <4>1, <4>3
    <3> QED
      BY <1>8, <3>2, <3>3
  <2> QED
    BY <1>7, <2>1 DEF AddedInOrder
<1>12. ImportedComesFirst'
  <2>1. SUFFICES ASSUME NEW f \in Files, NEW m \in ImportsIn(f), NEW g \in Meant(f, m), NEW j \in DOMAIN made',
                        made'[j][1] = f, m < made'[j][2], Earlier(f, g)', NEW k \in DeclarationsIn(g)
                 PROVE  \E i \in 1..(j - 1) : made'[i] = <<g, k>>
    BY DEF ImportedComesFirst
  <2>2. Earlier(f, g) /\ j \in 1..(n + 1)
    BY <1>3, <1>7, <2>1
  <2>5. CASE j \in 1..n
    <3>1. made'[j] = made[j] /\ DOMAIN made = 1..n
      BY <1>5, <1>7, <2>5 DEF n
    <3>2. PICK i \in 1..(j - 1) : made[i] = <<g, k>>
      BY <2>1, <2>2, <2>5, <3>1 DEF IInv, ImportedComesFirst
    <3>3. i \in 1..n
      BY <1>5, <2>5, <3>2
    <3> QED
      BY <1>7, <3>2, <3>3
  <2>6. CASE j = n + 1
    <3>1. f = Walk.file
      BY <1>5, <1>7, <2>1, <2>6
    <3>2. \A i \in 1..Len(walks) : walks[i].file # g
      BY <1>1, <1>4, <2>2, <3>1, TopOfTheStack
    <3>3. g \in Opened /\ k \in DeclarationsIn(g) /\ k \in Statements(g)
      BY <2>1, <2>2 DEF Earlier, Opened, DeclarationsIn
    <3>4. Passed(g, k)
      BY <3>2, <3>3 DEF Passed
    <3>5. PICK i \in 1..n : made[i] = <<g, k>>
      BY <1>1, <3>3, <3>4 DEF IInv, Progress, n
    <3> QED
      BY <1>7, <1>8, <2>6, <3>5
  <2> QED
    BY <1>8, <2>2, <2>5, <2>6
<1>13. Progress'
  <2>1. Opened' \subseteq Files
    BY <1>1, <1>3 DEF IInv, Progress
  <2>2. ASSUME NEW f \in Opened', NEW k \in ImportsIn(f), Passed(f, k)'
        PROVE  \E g \in Opened' : Meant(f, k) = {g}
    <3>1. Passed(f, k)
      BY <1>1, <1>2, <2>2 DEF DeclarationsIn
    <3> QED
      BY <1>1, <1>3, <2>2, <3>1 DEF IInv, Progress
  <2>3. ASSUME NEW f \in Opened', NEW k \in DeclarationsIn(f), Passed(f, k)'
        PROVE  \E j \in 1..Len(made') : made'[j] = <<f, k>>
    <3>1. CASE Passed(f, k)
      <4>1. PICK j \in 1..n : made[j] = <<f, k>>
        BY <1>1, <1>3, <2>3, <3>1 DEF IInv, Progress, n
      <4> QED
        BY <1>7, <1>8, <4>1
    <3>2. CASE f = Walk.file /\ k = Here
      BY <1>7, <1>8, <3>2 DEF new
    <3> QED
      BY <1>2, <2>3, <3>1, <3>2
  <2>4. ASSUME NEW j \in 1..(n + 1), NEW f, NEW k, f = made'[j][1], k = made'[j][2]
        PROVE  k \in DeclarationsIn(f) /\ Passed(f, k)'
    <3>1. CASE j \in 1..n
      BY <1>2, <1>6, <1>7, <2>4, <3>1
    <3>2. CASE j = n + 1
      BY <1>1, <1>2, <1>5, <1>7, <2>4, <3>2
    <3> QED
      BY <1>8, <3>1, <3>2
  <2>5. ASSUME NEW j \in 1..Len(made')
        PROVE  (made[j][2] \in DeclarationsIn(made[j][1]) /\ Passed(made[j][1], made[j][2]))'
    <3>1. PICK f, k : f = made'[j][1] /\ k = made'[j][2]
      OBVIOUS
    <3> QED
      BY <1>7, <2>4, <3>1 DEF Passed
  <2> QED
    BY <1>2, <2>1, <2>2, <2>3, <2>5 DEF Progress
<1> QED
  BY <1>9, <1>10, <1>11, <1>12, <1>13 DEF IInv

\* A file leaves the stack when it is through: what is passed stays what it was.
LEMMA EndWalkKeeps ==
    ASSUME IInv, EndWalk
    PROVE  IInv'
<1> DEFINE n == Len(walks)
<1>1. /\ ~refused /\ walks # <<>> /\ Here \notin Statements(Walk.file)
      /\ walks' = SubSeq(walks, 1, n - 1) /\ made' = made
      /\ first' = first /\ parsed_files' = parsed_files /\ refused' = refused
  BY NotRefused DEF EndWalk, Going
<1>2. /\ n \in 1..n /\ Walk = walks[n] /\ Walk.done \in Nat /\ Walk.file \in Opened
      /\ Len(Contents[Walk.file]) \in Nat /\ Walk.done <= Len(Contents[Walk.file])
  BY <1>1, TopOfTheStack
<1>3. Walk.done = Len(Contents[Walk.file])
  BY <1>1, <1>2 DEF Here, Statements
<1>4. walks \in Seq(Walks) /\ n \in Nat
  BY DEF IInv, TypeOK
<1>5. Opened' = Opened /\ \A f, g : Earlier(f, g)' <=> Earlier(f, g)
  BY <1>1, NothingOpened
<1>6. /\ \A i \in 1..n : walks[i].file \in Opened /\ walks[i].done <= Len(Contents[walks[i].file])
      /\ \A i, j \in 1..n : i < j => Earlier(walks[i].file, walks[j].file)
  BY <1>1 DEF IInv, Progress, Stacked
<1>7. /\ walks' \in Seq(Walks) /\ Len(walks') = n - 1
      /\ \A i \in 1..(n - 1) : walks'[i] = walks[i]
  <2>1. n - 1 \in Nat /\ n - 1 <= n /\ 1..(n - 1) \subseteq 1..n
    BY <1>2, <1>4
  <2>2. walks' = [i \in 1..(n - 1) |-> walks[i]]
    BY <1>1, <1>4, <2>1
  <2>3. \A i \in 1..(n - 1) : walks[i] \in Walks
    BY <1>4, <2>1
  <2> QED
    BY <2>1, <2>2, <2>3
<1>8. 1..n = 1..(n - 1) \cup {n}
  BY <1>2, <1>4
<1>9. TypeOK'
  BY <1>1, <1>7 DEF IInv, TypeOK
<1>10. OpenedOnce' /\ AddedInOrder'
  BY <1>1 DEF IInv, OpenedOnce, AddedInOrder
<1>11. ImportedComesFirst'
  BY <1>1, <1>5, FirstAsBefore
<1>12. ASSUME NEW f, NEW k PROVE Passed(f, k)' <=> Passed(f, k)
  <2>1. ASSUME f \in Opened, k \in Statements(f), NEW i \in 1..n, walks[i].file = f, i = n
        PROVE  k <= walks[i].done
    BY <1>2, <1>3, <2>1 DEF Statements
  <2>2. ASSUME f \in Opened, k \in Statements(f)
        PROVE  (\A i \in 1..(n - 1) : walks'[i].file = f => k <= walks'[i].done)
               <=> \A i \in 1..n : walks[i].file = f => k <= walks[i].done
    BY <1>7, <1>8, <2>1, <2>2
  <2>3. Passed(f, k) <=> /\ f \in Opened /\ k \in Statements(f)
                         /\ \A i \in 1..n : walks[i].file = f => k <= walks[i].done
    BY DEF Passed
  <2>4. Passed(f, k)' <=> /\ f \in Opened /\ k \in Statements(f)
                          /\ \A i \in 1..(n - 1) : walks'[i].file = f => k <= walks'[i].done
    BY <1>5, <1>7 DEF Passed
  <2> QED
    BY <2>2, <2>3, <2>4
<1> HIDE DEF n
<1>13. Stacked'
  <2>1. \A i \in 1..(n - 1) : walks'[i].file \in Opened' /\ walks'[i].done <= Len(Contents[walks'[i].file])
    BY <1>5, <1>6, <1>7, <1>8
  <2>2. ASSUME NEW i \in 1..(n - 1), NEW j \in 1..(n - 1), i < j
        PROVE  Earlier(walks[i].file, walks[j].file)'
    <3>1. PICK f, g : f = walks'[i].file /\ g = walks'[j].file
      OBVIOUS
    <3>2. f = walks[i].file /\ g = walks[j].file /\ i \in 1..n /\ j \in 1..n
      BY <1>7, <1>8, <3>1
    <3>3. Earlier(f, g)'
      BY <1>5, <1>6, <2>2, <3>2
    <3> QED
      BY <3>1, <3>3 DEF Earlier
  <2> QED
    BY <1>7, <2>1, <2>2 DEF Stacked
<1>14. Progress'
  <2>1. Opened' \subseteq Files
    BY <1>1, <1>5 DEF IInv, Progress
  <2>2. ASSUME NEW f \in Opened', NEW k \in ImportsIn(f), Passed(f, k)'
        PROVE  \E g \in Opened' : Meant(f, k) = {g}
    BY <1>1, <1>5, <1>12, <2>2 DEF IInv, Progress
  <2>3. ASSUME NEW f \in Opened', NEW k \in DeclarationsIn(f), Passed(f, k)'
        PROVE  \E j \in 1..Len(made') : made'[j] = <<f, k>>
    BY <1>1, <1>5, <1>12, <2>3 DEF IInv, Progress
  <2>4. ASSUME NEW j \in 1..Len(made'), NEW f, NEW k, f = made'[j][1], k = made'[j][2]
        PROVE  k \in DeclarationsIn(f) /\ Passed(f, k)'
    BY <1>1, <1>12, <2>4 DEF IInv, Progress
  <2>5. ASSUME NEW j \in 1..Len(made')
        PROVE  (made[j][2] \in DeclarationsIn(made[j][1]) /\ Passed(made[j][1], made[j][2]))'
    <3>1. PICK f, k : f = made'[j][1] /\ k = made'[j][2]
      OBVIOUS
    <3> QED
      BY <2>4, <3>1 DEF Passed
  <2> QED
    BY <1>13, <2>1, <2>2, <2>3, <2>5 DEF Progress
<1> QED
  BY <1>9, <1>10, <1>11, <1>14 DEF IInv

\* A refusal stops all walks; a file that was noted for it comes behind what is declared.
LEMMA RefuseKeeps ==
    ASSUME IInv, Refuse
    PROVE  IInv'
<1>1. ~refused /\ refused' = TRUE /\ walks' = <<>> /\ made' = made /\ first' = first
  BY DEF Refuse
<1>2. AddedInOrder'
  BY <1>1 DEF IInv, AddedInOrder
<1>3. CASE parsed_files' = parsed_files
  <2>1. TypeOK' /\ OpenedOnce'
    BY <1>1, <1>3 DEF IInv, TypeOK, OpenedOnce
  <2>2. ImportedComesFirst'
    BY <1>1, <1>3, NothingOpened, FirstAsBefore
  <2> QED
    BY <1>1, <1>2, <2>1, <2>2 DEF IInv
<1>4. ASSUME Going, Here \in ImportsIn(Walk.file), NEW new \in Meant(Walk.file, Here) \ Opened,
             parsed_files' = Append(parsed_files, new)
      PROVE  IInv'
  <2>1. Walk.file \in Opened /\ Walk.file \in Files
    BY <1>1, <1>4, NextStatement, TopOfTheStack
  <2>2. new \in ImportsOf(Walk.file) /\ new \notin Opened
    BY <1>4 DEF ImportsOf
  <2>3. new \in Names /\ TypeOK /\ OpenedOnce
    BY <2>1, <2>2 DEF Names, IInv
  <2>4. OpenedOnce' /\ parsed_files' \in Seq(Names)
    BY <1>1, <1>4, <2>1, <2>2, <2>3, OpenedOnceMore
  <2>5. TypeOK'
    BY <1>1, <2>3, <2>4 DEF TypeOK
  <2>6. \A f, g : Earlier(f, g)' => Earlier(f, g) \/ g \notin Opened
    BY <1>4, <2>2, <2>3, EarlierGrows
  <2>7. ImportedComesFirst'
    BY <1>1, <2>6, FirstAsBefore
  <2> QED
    BY <1>1, <1>2, <2>4, <2>5, <2>7 DEF IInv
<1> QED
  BY <1>3, <1>4 DEF Refuse

\* In the beginning, the file that is loaded is the only one, with nothing passed.
LEMMA InitInvariant ==
    ASSUME Init
    PROVE  IInv
<1>1. /\ first \in Files /\ parsed_files = <<first>> /\ made = <<>> /\ refused = FALSE
      /\ walks = <<[file |-> first, done |-> 0]>>
      /\ \A f \in Files : Len(Contents[f]) \in Nat
  BY DEF Init
<1>2. first \in Names /\ [file |-> first, done |-> 0] \in Walks
  BY <1>1 DEF Names, Walks
<1>3. TypeOK
  <2>1. parsed_files \in Seq(Names) /\ walks \in Seq(Walks)
    BY <1>1, <1>2
  <2>2. made \in Seq(Files \X Nat)
    BY <1>1
  <2> QED
    BY <1>1, <2>1, <2>2 DEF TypeOK
<1>4. Len(parsed_files) = 1 /\ parsed_files[1] = first /\ Opened = {first}
  BY <1>1 DEF Opened
<1>5. Len(walks) = 1 /\ walks[1] = [file |-> first, done |-> 0] /\ Len(made) = 0
  BY <1>1
<1>6. OpenedOnce /\ AddedInOrder /\ ImportedComesFirst
  BY <1>1, <1>4, <1>5 DEF OpenedOnce, AddedInOrder, ImportedComesFirst
<1>7. Stacked
  <2>1. 0 <= Len(Contents[first])
    BY <1>1
  <2> QED
    BY <1>4, <1>5, <2>1 DEF Stacked
<1>8. ASSUME NEW f, NEW k, Passed(f, k) PROVE FALSE
  <2>1. f = first /\ k \in Statements(f) /\ k <= 0
    BY <1>4, <1>5, <1>8 DEF Passed
  <2> QED
    BY <1>1, <2>1 DEF Statements
<1>9. Progress
  BY <1>1, <1>4, <1>5, <1>7, <1>8 DEF Progress
<1> QED
  BY <1>3, <1>6, <1>9 DEF IInv

\* Every step of the walk, and every stutter, keeps the invariant.
LEMMA StepInvariant ==
    ASSUME IInv, [Next]_vars
    PROVE  IInv'
<1>1. CASE Next
  BY <1>1, SkipImportKeeps, OpenImportKeeps, DeclareKeeps, EndWalkKeeps, RefuseKeeps DEF Next
<1>2. CASE UNCHANGED vars
  <2>1. /\ first' = first /\ parsed_files' = parsed_files /\ walks' = walks
        /\ made' = made /\ refused' = refused
    BY <1>2 DEF vars
  <2>2. Opened' = Opened /\ \A f, g : Earlier(f, g)' <=> Earlier(f, g)
    BY <2>1, NothingOpened
  <2>3. TypeOK' /\ OpenedOnce' /\ AddedInOrder'
    BY <2>1 DEF IInv, TypeOK, OpenedOnce, AddedInOrder
  <2>4. ImportedComesFirst'
    BY <2>1, <2>2, FirstAsBefore
  <2>5. Progress' <=> Progress
    BY <2>1 DEF Progress, Stacked, Passed, Opened, Earlier
  <2> QED
    BY <2>1, <2>3, <2>4, <2>5 DEF IInv
<1> QED
  BY <1>1, <1>2
-----------------------------------------------------------------------------
(* What is promised                                                        *)

\* A set of places has a first one.
LEMMA FirstPlace ==
    ASSUME NEW S, S \subseteq Nat, S # {}
    PROVE  \E x \in S : \A y \in S : x <= y
<1> DEFINE Before == {p \in Nat \X Nat : p[1] < p[2]}
<1>1. IsWellFoundedOn(Before, Nat)
  BY NatLessThanWellFounded DEF OpToRel
<1>2. PICK x \in S : \A y \in S : <<y, x>> \notin Before
  BY <1>1, WFMin
<1>3. ASSUME NEW y \in S PROVE x <= y
  <2>1. x \in Nat /\ y \in Nat /\ ~(y < x)
    BY <1>2
  <2> QED
    BY <2>1
<1> QED
  BY <1>3

\* What holds of the first file, and of what is imported by a file that it holds of, holds of all that
\* were opened.
LEMMA FromTheFirst ==
    ASSUME TypeOK, OpenedOnce, Opened \subseteq Files,
           NEW S \in SUBSET Opened, first \in S, \A f \in S : ImportsOf(f) \subseteq S
    PROVE  S = Opened
<1> DEFINE n == Len(parsed_files)
           others == {b \in 1..n : parsed_files[b] \notin S}
<1>1. n \in Nat /\ Opened = {parsed_files[a] : a \in 1..n}
  BY OpenedFacts
<1>2. SUFFICES ASSUME others # {} PROVE FALSE
  BY <1>1
<1>3. PICK b \in others : \A a \in others : b <= a
  <2>1. others \subseteq Nat
    BY <1>1
  <2> QED
    BY <1>2, <2>1, FirstPlace
<1>4. b \in 1..n /\ parsed_files[b] \notin S /\ b # 1
  BY <1>3 DEF OpenedOnce
<1>5. PICK a \in 1..(b - 1) : parsed_files[b] \in ImportsOf(parsed_files[a])
  BY <1>4 DEF OpenedOnce
<1>6. a \in 1..n /\ ~(b <= a)
  BY <1>1, <1>4, <1>5
<1>7. parsed_files[a] \in S
  BY <1>3, <1>6
<1> QED
  BY <1>4, <1>5, <1>7

\* In every run, the files that are walked through are those opened last, and what they are behind is
\* opened or declared.
THEOREM WalkInvariant == Spec => []IInv
<1>1. Init => IInv
  BY InitInvariant
<1>2. IInv /\ [Next]_vars => IInv'
  BY StepInvariant
<1> QED
  BY <1>1, <1>2, PTL DEF Spec

\* When all is walked through, everything is passed.
LEMMA AllPassed ==
    ASSUME IInv, Loaded
    PROVE  Progress /\ \A f \in Opened : \A k \in Statements(f) : Passed(f, k)
<1>1. Progress /\ Len(walks) = 0
  BY DEF IInv, Loaded
<1> QED
  BY <1>1 DEF Passed

\* However files import each other, each is opened once; and of a file that is loaded, what it imports
\* and what that imports is read, and nothing else (the imports of load_model's parser).
THEOREM FilesOnce == Spec => []EveryFileOnce
<1>1. ASSUME IInv PROVE EveryFileOnce
  <2>1. TypeOK /\ OpenedOnce /\ DOMAIN parsed_files = 1..Len(parsed_files)
    BY <1>1, OpenedFacts DEF IInv
  <2>2. \A a, b \in DOMAIN parsed_files : parsed_files[a] = parsed_files[b] => a = b
    BY <2>1 DEF OpenedOnce
  <2>3. ASSUME Loaded
        PROVE  /\ first \in Opened /\ \A f \in Opened : ImportsOf(f) \subseteq Opened
               /\ \A S \in SUBSET Opened :
                      first \in S /\ (\A f \in S : ImportsOf(f) \subseteq S) => S = Opened
    <3>1. Progress /\ \A f \in Opened : \A k \in Statements(f) : Passed(f, k)
      BY <1>1, <2>3, AllPassed
    <3>2. first \in Opened
      <4>1. 1 \in 1..Len(parsed_files) /\ parsed_files[1] = first
        BY <2>1 DEF OpenedOnce, TypeOK
      <4> QED
        BY <2>1, <4>1 DEF Opened
    <3>3. ASSUME NEW f \in Opened, NEW g \in ImportsOf(f) PROVE g \in Opened
      <4>1. PICK k \in ImportsIn(f) : g \in Meant(f, k)
        BY <3>3 DEF ImportsOf
      <4>2. \E h \in Opened : Meant(f, k) = {h}
        BY <3>1, <4>1 DEF Progress, ImportsIn
      <4> QED
        BY <4>1, <4>2
    <3>4. Opened \subseteq Files
      BY <3>1 DEF Progress
    <3> QED
      BY <2>1, <3>2, <3>3, <3>4, FromTheFirst
  <2> QED
    BY <2>2, <2>3 DEF EveryFileOnce
<1> QED
  BY <1>1, WalkInvariant, PTL

\* Of each file, the declarations are in the model once and in their order; of a file that is loaded,
\* those of all files that were read, and no others (the walk of ModelBuilder).
THEOREM DeclarationsOnce == Spec => []EveryDeclarationOnce
<1>1. ASSUME IInv PROVE EveryDeclarationOnce
  <2>1. TypeOK /\ AddedInOrder /\ DOMAIN made = 1..Len(made)
    BY <1>1, OpenedFacts DEF IInv
  <2>2. \A i, j \in DOMAIN made : i < j /\ made[i][1] = made[j][1] => made[i][2] < made[j][2]
    BY <2>1 DEF AddedInOrder
  <2>3. ASSUME Loaded
        PROVE  {made[j] : j \in DOMAIN made} = UNION {{f} \X DeclarationsIn(f) : f \in Opened}
    <3>1. Progress /\ \A f \in Opened : \A k \in Statements(f) : Passed(f, k)
      BY <1>1, <2>3, AllPassed
    <3>2. ASSUME NEW j \in 1..Len(made)
          PROVE  made[j] \in UNION {{f} \X DeclarationsIn(f) : f \in Opened}
      <4>1. made[j] \in Files \X Nat
        BY <2>1 DEF TypeOK
      <4>2. made[j][1] \in Opened /\ made[j][2] \in DeclarationsIn(made[j][1])
        BY <3>1 DEF Progress, Passed
      <4>3. made[j] = <<made[j][1], made[j][2]>>
        BY <4>1
      <4>4. made[j] \in {made[j][1]} \X DeclarationsIn(made[j][1])
        BY <4>2, <4>3
      <4> QED
        BY <4>2, <4>4
    <3>3. ASSUME NEW f \in Opened, NEW k \in DeclarationsIn(f)
          PROVE  \E j \in 1..Len(made) : made[j] = <<f, k>>
      BY <3>1 DEF Progress, DeclarationsIn
    <3>4. UNION {{f} \X DeclarationsIn(f) : f \in Opened} \subseteq {made[j] : j \in 1..Len(made)}
      <4>1. ASSUME NEW d, d \in UNION {{f} \X DeclarationsIn(f) : f \in Opened}
            PROVE  d \in {made[j] : j \in 1..Len(made)}
        <5>1. PICK f \in Opened : d \in {f} \X DeclarationsIn(f)
          BY <4>1
        <5>2. d = <<f, d[2]>> /\ d[2] \in DeclarationsIn(f)
          BY <5>1
        <5>3. PICK j \in 1..Len(made) : made[j] = <<f, d[2]>>
          BY <3>3, <5>2
        <5> QED
          BY <5>2, <5>3
      <4> QED
        BY <4>1
    <3>5. {made[j] : j \in 1..Len(made)} \subseteq UNION {{f} \X DeclarationsIn(f) : f \in Opened}
      BY <3>2
    <3> QED
      BY <2>1, <3>4, <3>5
  <2> QED
    BY <2>2, <2>3 DEF EveryDeclarationOnce
<1> QED
  BY <1>1, WalkInvariant, PTL

\* What a file imports is declared before what it declares behind the import, unless the imported file
\* was begun before - as when two files import each other.
THEOREM ImportsFirst == Spec => []ImportedComesFirst
<1>1. IInv => ImportedComesFirst
  BY DEF IInv
<1> QED
  BY <1>1, WalkInvariant, PTL
-----------------------------------------------------------------------------
(* Counting in sequences of tokens                                         *)

\* A sequence, whatever is in it.
IsSequence(s) == \E S : s \in Seq(S)

\* What is known of two sequences behind each other.
LEMMA Concatenated ==
    ASSUME NEW s, NEW t, IsSequence(s), IsSequence(t)
    PROVE  /\ IsSequence(s \o t) /\ Len(s) \in Nat /\ Len(t) \in Nat /\ Len(s \o t) = Len(s) + Len(t)
           /\ DOMAIN s = 1..Len(s)
           /\ \A p \in 1..Len(s) : (s \o t)[p] = s[p]
           /\ \A p \in 1..Len(t) : (s \o t)[Len(s) + p] = t[p]
<1>1. PICK S : s \in Seq(S)
  BY DEF IsSequence
<1>2. PICK T : t \in Seq(T)
  BY DEF IsSequence
<1>3. s \in Seq(S \cup T) /\ t \in Seq(S \cup T)
  BY <1>1, <1>2
<1>4. s \o t \in Seq(S \cup T)
  BY <1>3
<1>5. IsSequence(s \o t)
  BY <1>4 DEF IsSequence
<1> QED
  BY <1>3, <1>5

LEMMA SequenceOf ==
    ASSUME NEW n \in Nat, NEW f, f = [k \in 1..n |-> f[k]]
    PROVE  IsSequence(f) /\ Len(f) = n
<1>1. f \in Seq({f[k] : k \in 1..n})
  BY SMTT(30)
<1> QED
  BY <1>1 DEF IsSequence

LEMMA OneToken ==
    ASSUME NEW x
    PROVE  IsSequence(<<x>>) /\ Len(<<x>>) = 1 /\ <<x>>[1] = x
<1>1. <<x>> \in Seq({x})
  OBVIOUS
<1> QED
  BY <1>1 DEF IsSequence

\* What is counted in two sequences behind each other is counted in both.
LEMMA PlacesInBoth ==
    ASSUME NEW s, NEW t, IsSequence(s), IsSequence(t), NEW j \in 0..Len(t), NEW kind
    PROVE  /\ Cardinality(Places(s, Len(s), kind)) \in Nat /\ Cardinality(Places(t, j, kind)) \in Nat
           /\ Cardinality(Places(s \o t, Len(s) + j, kind)) =
                  Cardinality(Places(s, Len(s), kind)) + Cardinality(Places(t, j, kind))
<1> DEFINE n == Len(s)
           A == Places(s, n, kind)
           B == Places(t, j, kind)
           C == {n + p : p \in B}
           shift == [p \in B |-> n + p]
<1>1. n \in Nat /\ j \in Nat /\ j <= Len(t) /\ Len(t) \in Nat
  BY Concatenated
<1>2. A \subseteq 1..n /\ B \subseteq 1..j
  BY DEF Places
<1>3. IsFiniteSet(A) /\ IsFiniteSet(B)
  <2>1. IsFiniteSet(1..n) /\ IsFiniteSet(1..j)
    BY <1>1, FS_Interval
  <2> QED
    BY <1>2, <2>1, FS_Subset
<1>4. IsFiniteSet(C) /\ Cardinality(C) = Cardinality(B)
  <2>1. shift \in [B -> C]
    OBVIOUS
  <2>2. \A p, q \in B : shift[p] = shift[q] => p = q
    BY <1>1, <1>2
  <2>3. \A c \in C : \E p \in B : shift[p] = c
    OBVIOUS
  <2>4. shift \in Bijection(B, C)
    BY <2>1, <2>2, <2>3 DEF Bijection, Injection, Surjection, IsInjective
  <2> QED
    BY <1>3, <2>4, FS_Bijection DEF ExistsBijection
<1>5. A \cap C = {}
  BY <1>1, <1>2
<1>6. Places(s \o t, n + j, kind) = A \cup C
  <2>1. ASSUME NEW p \in 1..(n + j) PROVE (s \o t)[p].kind = kind <=> p \in A \cup C
    <3>1. CASE p <= n
      <4>1. p \in 1..n /\ (s \o t)[p] = s[p] /\ p \notin C
        BY <1>1, <1>2, <2>1, <3>1, Concatenated
      <4> QED
        BY <4>1 DEF Places
    <3>2. CASE p > n
      <4>1. PICK q \in 1..j : p = n + q
        <5>1. p - n \in 1..j /\ p = n + (p - n)
          BY <1>1, <2>1, <3>2
        <5> QED
          BY <5>1
      <4>2. q \in 1..Len(t) /\ (s \o t)[p] = t[q] /\ p \notin A
        BY <1>1, <1>2, <3>2, <4>1, Concatenated
      <4>3. p \in C <=> q \in B
        BY <1>1, <1>2, <4>1
      <4> QED
        BY <4>1, <4>2, <4>3 DEF Places
    <3> QED
      BY <1>1, <2>1, <3>1, <3>2
  <2>2. A \cup C \subseteq 1..(n + j)
    BY <1>1, <1>2
  <2> QED
    BY <2>1, <2>2 DEF Places
<1>7. Cardinality(A \cap C) = 0
  BY <1>5, FS_EmptySet
<1>8. Cardinality(A) \in Nat /\ Cardinality(B) \in Nat
  BY <1>3, FS_CardinalityType
<1>9. Cardinality(A \cup C) = Cardinality(A) + Cardinality(B)
  <2>1. Cardinality(A \cup C) = Cardinality(A) + Cardinality(C) - Cardinality(A \cap C)
    BY <1>3, <1>4, FS_Union
  <2> QED
    BY <1>4, <1>7, <1>8, <2>1
<1> QED
  BY <1>6, <1>8, <1>9

LEMMA PlacesInFirst ==
    ASSUME NEW s, NEW t, IsSequence(s), IsSequence(t), NEW m \in 0..Len(s), NEW kind
    PROVE  Places(s \o t, m, kind) = Places(s, m, kind)
<1>1. \A p \in 1..m : p \in 1..Len(s)
  BY Concatenated
<1> QED
  BY <1>1, Concatenated DEF Places

\* The depth behind both is the sum of the depths.
LEMMA DepthInBoth ==
    ASSUME NEW s, NEW t, IsSequence(s), IsSequence(t)
    PROVE  /\ \A m \in 0..Len(s) : Depth(s \o t, m) = Depth(s, m)
           /\ \A j \in 0..Len(t) : /\ Depth(s, Len(s)) \in Int /\ Depth(t, j) \in Int
                                   /\ Depth(s \o t, Len(s) + j) = Depth(s, Len(s)) + Depth(t, j)
<1>1. ASSUME NEW m \in 0..Len(s) PROVE Depth(s \o t, m) = Depth(s, m)
  BY PlacesInFirst DEF Depth
<1>2. ASSUME NEW j \in 0..Len(t)
      PROVE  /\ Depth(s, Len(s)) \in Int /\ Depth(t, j) \in Int
             /\ Depth(s \o t, Len(s) + j) = Depth(s, Len(s)) + Depth(t, j)
  <2> DEFINE a(kind) == Cardinality(Places(s, Len(s), kind))
             b(kind) == Cardinality(Places(t, j, kind))
             c(kind) == Cardinality(Places(s \o t, Len(s) + j, kind))
  <2>1. a("INDENT") \in Nat /\ b("INDENT") \in Nat /\ c("INDENT") = a("INDENT") + b("INDENT")
    BY PlacesInBoth
  <2>2. a("DEDENT") \in Nat /\ b("DEDENT") \in Nat /\ c("DEDENT") = a("DEDENT") + b("DEDENT")
    BY PlacesInBoth
  <2>3. /\ Depth(s, Len(s)) = a("INDENT") - a("DEDENT") /\ Depth(t, j) = b("INDENT") - b("DEDENT")
        /\ Depth(s \o t, Len(s) + j) = c("INDENT") - c("DEDENT")
    BY DEF Depth
  <2> HIDE DEF a, b, c
  <2> QED
    BY <2>1, <2>2, <2>3
<1> QED
  BY <1>1, <1>2

\* No block ends before it begins, and d of them are open at the end.
Nested(s, d) ==
    /\ \A n \in 0..Len(s) : Depth(s, n) \in Nat
    /\ Depth(s, Len(s)) = d

\* Tokens of which none begins or ends a block, one that begins one, and those that end some.
LEMMA PlainDepth ==
    ASSUME NEW t, IsSequence(t), NEW j \in 0..Len(t),
           \A p \in 1..Len(t) : t[p].kind \notin {"INDENT", "DEDENT"}
    PROVE  Depth(t, j) = 0
<1>1. 1..j \subseteq 1..Len(t)
  <2>1. Len(t) \in Nat
    BY Concatenated
  <2> QED
    BY <2>1
<1>2. Places(t, j, "INDENT") = {} /\ Places(t, j, "DEDENT") = {}
  BY <1>1 DEF Places
<1>3. Cardinality({}) = 0
  BY FS_EmptySet
<1>4. Depth(t, j) = Cardinality({}) - Cardinality({})
  BY <1>2 DEF Depth
<1> QED
  BY <1>3, <1>4

LEMMA BeginDepth ==
    ASSUME NEW x, x.kind = "INDENT", NEW j \in 0..1
    PROVE  Depth(<<x>>, j) = j
<1>1. Places(<<x>>, j, "INDENT") = 1..j /\ Places(<<x>>, j, "DEDENT") = {}
  BY OneToken DEF Places
<1>2. Cardinality({}) = 0
  BY FS_EmptySet
<1>3. j \in Int /\ Cardinality(1..j) = j
  <2>1. j \in Int /\ 1 \in Int /\ (1 > j => j = 0) /\ j - 1 + 1 = j
    OBVIOUS
  <2>2. Cardinality(1..j) = IF 1 > j THEN 0 ELSE j - 1 + 1
    BY <2>1, FS_Interval
  <2> QED
    BY <2>1, <2>2
<1>4. Depth(<<x>>, j) = Cardinality(1..j) - Cardinality({})
  BY <1>1 DEF Depth
<1> QED
  BY <1>2, <1>3, <1>4

LEMMA EndDepth ==
    ASSUME NEW t, IsSequence(t), NEW j \in 0..Len(t), \A p \in 1..Len(t) : t[p].kind = "DEDENT"
    PROVE  Depth(t, j) = 0 - j
<1>1. 1..j \subseteq 1..Len(t) /\ j \in Nat
  <2>1. Len(t) \in Nat
    BY Concatenated
  <2> QED
    BY <2>1
<1>2. Places(t, j, "INDENT") = {} /\ Places(t, j, "DEDENT") = 1..j
  BY <1>1 DEF Places
<1>3. Cardinality({}) = 0
  BY FS_EmptySet
<1>4. Cardinality(1..j) = j
  BY <1>1, FS_Interval
<1> QED
  BY <1>1, <1>2, <1>3, <1>4 DEF Depth

\* Behind tokens that are nested, these are.
LEMMA NestedBehind ==
    ASSUME NEW s, NEW t, IsSequence(s), IsSequence(t), NEW d \in Nat, Nested(s, d),
           \A j \in 0..Len(t) : d + Depth(t, j) \in Nat
    PROVE  Nested(s \o t, d + Depth(t, Len(t)))
<1>1. Len(s) \in Nat /\ Len(t) \in Nat /\ Len(s \o t) = Len(s) + Len(t)
  BY Concatenated
<1>2. ASSUME NEW n \in 0..Len(s \o t) PROVE Depth(s \o t, n) \in Nat
  <2>1. CASE n <= Len(s)
    BY <1>1, <2>1, DepthInBoth DEF Nested
  <2>2. CASE n > Len(s)
    <3>1. PICK j \in 0..Len(t) : n = Len(s) + j
      <4>1. n - Len(s) \in 0..Len(t) /\ n = Len(s) + (n - Len(s))
        BY <1>1, <2>2
      <4> QED
        BY <4>1
    <3>2. Depth(s \o t, n) = d + Depth(t, j)
      BY <3>1, DepthInBoth DEF Nested
    <3> QED
      BY <3>1, <3>2
  <2> QED
    BY <1>1, <2>1, <2>2
<1>3. Depth(s \o t, Len(s \o t)) = d + Depth(t, Len(t))
  <2>1. Len(t) \in 0..Len(t)
    BY <1>1
  <2> QED
    BY <1>1, <2>1, DepthInBoth DEF Nested
<1> QED
  BY <1>2, <1>3 DEF Nested

LEMMA NestedPlain ==
    ASSUME NEW s, NEW t, IsSequence(s), IsSequence(t), NEW d \in Nat, Nested(s, d),
           \A p \in 1..Len(t) : t[p].kind \notin {"INDENT", "DEDENT"}
    PROVE  Nested(s \o t, d)
<1>1. \A j \in 0..Len(t) : Depth(t, j) = 0
  BY PlainDepth
<1>2. Len(t) \in 0..Len(t)
  BY Concatenated
<1>3. d + 0 = d
  OBVIOUS
<1>4. Nested(s \o t, d + Depth(t, Len(t)))
  BY <1>1, <1>3, NestedBehind
<1> QED
  BY <1>1, <1>2, <1>3, <1>4

LEMMA NestedBegin ==
    ASSUME NEW s, IsSequence(s), NEW x, x.kind = "INDENT", NEW d \in Nat, Nested(s, d)
    PROVE  Nested(s \o <<x>>, d + 1)
<1>1. IsSequence(<<x>>) /\ Len(<<x>>) = 1
  BY OneToken
<1>2. \A j \in 0..Len(<<x>>) : Depth(<<x>>, j) = j
  BY <1>1, BeginDepth
<1>3. \A j \in 0..Len(<<x>>) : d + Depth(<<x>>, j) \in Nat
  BY <1>1, <1>2
<1>4. Nested(s \o <<x>>, d + Depth(<<x>>, Len(<<x>>)))
  BY <1>1, <1>3, NestedBehind
<1>5. Depth(<<x>>, Len(<<x>>)) = 1
  BY <1>1, <1>2
<1> QED
  BY <1>4, <1>5

LEMMA NestedEnd ==
    ASSUME NEW s, NEW t, IsSequence(s), IsSequence(t), NEW d \in Nat, Nested(s, d),
           Len(t) <= d, \A p \in 1..Len(t) : t[p].kind = "DEDENT"
    PROVE  Nested(s \o t, d - Len(t))
<1>1. Len(t) \in Nat
  BY Concatenated
<1>2. \A j \in 0..Len(t) : Depth(t, j) = 0 - j
  BY EndDepth
<1>3. \A j \in 0..Len(t) : d + Depth(t, j) \in Nat
  BY <1>1, <1>2
<1>4. Nested(s \o t, d + Depth(t, Len(t)))
  BY <1>3, NestedBehind
<1>5. d + Depth(t, Len(t)) = d - Len(t)
  BY <1>1, <1>2
<1> QED
  BY <1>4, <1>5
-----------------------------------------------------------------------------
(* The blocks around a place                                               *)

\* Around and the start of a block, with the columns that the lines lead to as a function.
Within(s, n, leads) ==
    {p \in Places(s, n, "INDENT") :
        \A q \in p..n : s[q].kind = "NEWLINE" => leads[s[p].line] <= leads[s[q].line]}
Begins(s, p, leads) ==
    /\ p > 1 /\ s[p - 1].kind = "NEWLINE"
    /\ leads[s[p - 1].line] > 0
    /\ \A b \in Within(s, p - 2, leads) : leads[s[p - 1].line] > leads[s[b].line]

\* What is around a place depends on what is before it.
LEMMA WithinFirst ==
    ASSUME NEW s, NEW t, IsSequence(s), IsSequence(t), NEW leads, NEW m \in Int, m <= Len(s)
    PROVE  /\ Within(s \o t, m, leads) = Within(s, m, leads)
           /\ Within(s, m, leads) \subseteq 1..m
<1>1. \A p \in 1..m : p \in 1..Len(s) /\ (s \o t)[p] = s[p]
  <2>1. \A p \in 1..m : p \in 1..Len(s)
    BY Concatenated
  <2> QED
    BY <2>1, Concatenated
<1>2. Places(s \o t, m, "INDENT") = Places(s, m, "INDENT") /\ Places(s, m, "INDENT") \subseteq 1..m
  BY <1>1 DEF Places
<1>3. \A p \in 1..m : \A q \in p..m : q \in 1..m
  OBVIOUS
<1> QED
  BY <1>1, <1>2, <1>3 DEF Within

\* The words of a line begin and end nothing.
LEMMA WithinPlain ==
    ASSUME NEW s, NEW t, IsSequence(s), IsSequence(t), NEW leads,
           \A p \in 1..Len(t) : t[p].kind \notin {"NEWLINE", "INDENT"}
    PROVE  Within(s \o t, Len(s \o t), leads) = Within(s, Len(s), leads)
<1> DEFINE n == Len(s)
           r == s \o t
<1>1. n \in Nat /\ Len(t) \in Nat /\ Len(r) = n + Len(t) /\ \A p \in 1..n : r[p] = s[p]
  BY Concatenated
<1>2. ASSUME NEW p \in 1..Len(r), r[p].kind \in {"NEWLINE", "INDENT"} PROVE p \in 1..n
  <2>1. SUFFICES ASSUME p > n PROVE FALSE
    BY <1>1
  <2>2. p - n \in 1..Len(t) /\ n + (p - n) = p
    BY <1>1, <2>1
  <2>3. r[n + (p - n)] = t[p - n]
    BY <2>2, Concatenated
  <2> QED
    BY <1>2, <2>2, <2>3
<1> HIDE DEF r, n
<1>3. \A p \in 1..n : p \in 1..Len(r) /\ (\A q \in p..n : q \in 1..n /\ q \in p..Len(r))
  BY <1>1
<1>4. \A p \in 1..n : \A q \in p..Len(r) : q \in 1..n => q \in p..n
  BY <1>1
<1>5. \A p \in 1..n : \A q \in p..Len(r) : q \in 1..Len(r)
  BY <1>1
<1>6. ASSUME NEW p \in Within(r, Len(r), leads) PROVE p \in Within(s, n, leads)
  <2>1. p \in 1..n /\ s[p].kind = "INDENT" /\ r[p] = s[p]
    BY <1>1, <1>2 DEF Within, Places
  <2>2. ASSUME NEW q \in p..n, s[q].kind = "NEWLINE" PROVE leads[s[p].line] <= leads[s[q].line]
    BY <1>1, <1>3, <2>1, <2>2 DEF Within
  <2> QED
    BY <2>1, <2>2 DEF Within, Places
<1>7. ASSUME NEW p \in Within(s, n, leads) PROVE p \in Within(r, Len(r), leads)
  <2>1. p \in 1..n /\ p \in 1..Len(r) /\ r[p].kind = "INDENT" /\ r[p] = s[p]
    BY <1>1, <1>3 DEF Within, Places
  <2>2. ASSUME NEW q \in p..Len(r), r[q].kind = "NEWLINE" PROVE leads[r[p].line] <= leads[r[q].line]
    <3>1. q \in 1..n /\ q \in p..n /\ r[q] = s[q]
      BY <1>1, <1>2, <1>4, <1>5, <2>1, <2>2
    <3> QED
      BY <2>1, <2>2, <3>1 DEF Within
  <2> QED
    BY <2>1, <2>2 DEF Within, Places
<1> QED
  BY <1>6, <1>7 DEF r, n

\* A line break leads out of the blocks that begin further right than it leads to.
LEMMA WithinNewline ==
    ASSUME NEW s, IsSequence(s), NEW x, x.kind = "NEWLINE", NEW leads
    PROVE  Within(s \o <<x>>, Len(s \o <<x>>), leads) =
               {p \in Within(s, Len(s), leads) : leads[s[p].line] <= leads[x.line]}
<1> DEFINE n == Len(s)
           r == s \o <<x>>
<1>1. n \in Nat /\ Len(r) = n + 1 /\ r[n + 1] = x /\ \A p \in 1..n : r[p] = s[p]
  BY OneToken, Concatenated
<1> HIDE DEF r, n
<1>2. Places(r, n + 1, "INDENT") = Places(s, n, "INDENT") /\ Places(s, n, "INDENT") \subseteq 1..n
  <2>1. \A p \in 1..(n + 1) : p = n + 1 \/ p \in 1..n
    BY <1>1
  <2>2. \A p \in 1..n : p \in 1..(n + 1)
    BY <1>1
  <2> QED
    BY <1>1, <2>1, <2>2 DEF Places
<1>3. ASSUME NEW p \in 1..n
      PROVE  (\A q \in p..(n + 1) : r[q].kind = "NEWLINE" => leads[r[p].line] <= leads[r[q].line])
             <=> /\ \A q \in p..n : s[q].kind = "NEWLINE" => leads[s[p].line] <= leads[s[q].line]
                 /\ leads[s[p].line] <= leads[x.line]
  <2>1. n + 1 \in p..(n + 1) /\ \A q \in p..(n + 1) : q = n + 1 \/ (q \in p..n /\ q \in 1..n)
    BY <1>1
  <2>2. \A q \in p..n : q \in p..(n + 1) /\ q \in 1..n
    BY <1>1
  <2> QED
    BY <1>1, <2>1, <2>2
<1> QED
  BY <1>1, <1>2, <1>3 DEF Within, r, n

LEMMA WithinIndent ==
    ASSUME NEW s, IsSequence(s), NEW x, x.kind = "INDENT", NEW leads
    PROVE  Within(s \o <<x>>, Len(s \o <<x>>), leads) = Within(s, Len(s), leads) \cup {Len(s) + 1}
<1> DEFINE n == Len(s)
           r == s \o <<x>>
<1>1. n \in Nat /\ Len(r) = n + 1 /\ r[n + 1] = x /\ \A p \in 1..n : r[p] = s[p]
  BY OneToken, Concatenated
<1> HIDE DEF r, n
<1>2. Places(r, n + 1, "INDENT") = Places(s, n, "INDENT") \cup {n + 1} /\ Places(s, n, "INDENT") \subseteq 1..n
  <2>1. \A p \in 1..(n + 1) : p = n + 1 \/ p \in 1..n
    BY <1>1
  <2>2. n + 1 \in 1..(n + 1) /\ \A p \in 1..n : p \in 1..(n + 1)
    BY <1>1
  <2> QED
    BY <1>1, <2>1, <2>2 DEF Places
<1>3. ASSUME NEW p \in 1..n
      PROVE  (\A q \in p..(n + 1) : r[q].kind = "NEWLINE" => leads[r[p].line] <= leads[r[q].line])
             <=> \A q \in p..n : s[q].kind = "NEWLINE" => leads[s[p].line] <= leads[s[q].line]
  <2>1. \A q \in p..(n + 1) : q = n + 1 \/ (q \in p..n /\ q \in 1..n)
    BY <1>1
  <2>2. \A q \in p..n : q \in p..(n + 1) /\ q \in 1..n
    BY <1>1
  <2> QED
    BY <1>1, <2>1, <2>2
<1>4. \A q \in (n + 1)..(n + 1) : r[q].kind # "NEWLINE"
  <2>1. \A q \in (n + 1)..(n + 1) : q = n + 1
    BY <1>1
  <2> QED
    BY <1>1, <2>1
<1> QED
  BY <1>1, <1>2, <1>3, <1>4 DEF Within, r, n

\* The tokens that begin a block are those that are to.
Marked(s, leads) == \A p \in 1..Len(s) : s[p].kind = "INDENT" <=> Begins(s, p, leads)

\* Whether a block is to begin at a place depends on what is before it.
LEMMA BeginsFirst ==
    ASSUME NEW s, NEW t, IsSequence(s), IsSequence(t), NEW leads, NEW p \in 1..(Len(s) + 1)
    PROVE  Begins(s \o t, p, leads) <=> Begins(s, p, leads)
<1>1. Len(s) \in Nat /\ \A q \in 1..Len(s) : (s \o t)[q] = s[q]
  BY Concatenated
<1>2. p - 2 \in Int /\ p - 2 <= Len(s) /\ (p > 1 => p - 1 \in 1..Len(s))
  BY <1>1
<1>3. /\ Within(s \o t, p - 2, leads) = Within(s, p - 2, leads)
      /\ Within(s, p - 2, leads) \subseteq 1..(p - 2)
  BY <1>2, WithinFirst
<1>4. \A b \in 1..(p - 2) : b \in 1..Len(s)
  BY <1>1, <1>2
<1> QED
  BY <1>1, <1>2, <1>3, <1>4 DEF Begins

LEMMA MarkedPlain ==
    ASSUME NEW s, NEW t, IsSequence(s), IsSequence(t), NEW leads,
           \A p \in 1..Len(t) : t[p].kind \notin {"NEWLINE", "INDENT"},
           Marked(s, leads), ~Begins(s, Len(s) + 1, leads)
    PROVE  Marked(s \o t, leads) /\ ~Begins(s \o t, Len(s \o t) + 1, leads)
<1> DEFINE n == Len(s)
           r == s \o t
<1>1. n \in Nat /\ Len(t) \in Nat /\ Len(r) = n + Len(t) /\ \A p \in 1..n : r[p] = s[p]
  BY Concatenated
<1>2. ASSUME NEW p \in 1..Len(r), p > n PROVE r[p].kind \notin {"NEWLINE", "INDENT"}
  <2>1. p - n \in 1..Len(t) /\ n + (p - n) = p
    BY <1>1, <1>2
  <2>2. r[n + (p - n)] = t[p - n]
    BY <2>1, Concatenated
  <2> QED
    BY <2>1, <2>2
<1>3. \A p \in 1..(n + 1) : Begins(r, p, leads) <=> Begins(s, p, leads)
  BY BeginsFirst
<1> HIDE DEF r, n
<1>4. ASSUME NEW p \in 1..(Len(r) + 1), p > n PROVE ~Begins(r, p, leads)
  <2>1. CASE p = n + 1
    BY <1>1, <1>3, <2>1 DEF n
  <2>2. CASE p # n + 1
    <3>1. p - 1 \in 1..Len(r) /\ p - 1 > n
      BY <1>1, <1>4, <2>2
    <3> QED
      BY <1>2, <3>1 DEF Begins
  <2> QED
    BY <2>1, <2>2
<1>5. Marked(r, leads)
  <2>1. ASSUME NEW p \in 1..Len(r) PROVE r[p].kind = "INDENT" <=> Begins(r, p, leads)
    <3>1. CASE p > n
      <4>1. p \in 1..(Len(r) + 1)
        BY <1>1
      <4> QED
        BY <1>2, <1>4, <3>1, <4>1
    <3>2. CASE ~(p > n)
      <4>1. p \in 1..n /\ p \in 1..(n + 1)
        BY <1>1, <3>2
      <4> QED
        BY <1>1, <1>3, <4>1 DEF Marked, n
    <3> QED
      BY <3>1, <3>2
  <2> QED
    BY <2>1 DEF Marked
<1>6. Len(r) + 1 \in 1..(Len(r) + 1) /\ Len(r) + 1 > n
  BY <1>1
<1> QED
  BY <1>4, <1>5, <1>6 DEF r

LEMMA MarkedNewline ==
    ASSUME NEW s, IsSequence(s), NEW x, x.kind = "NEWLINE", NEW leads,
           Marked(s, leads), ~Begins(s, Len(s) + 1, leads)
    PROVE  /\ Marked(s \o <<x>>, leads)
           /\ Begins(s \o <<x>>, Len(s \o <<x>>) + 1, leads)
                <=> /\ leads[x.line] > 0
                    /\ \A b \in Within(s, Len(s), leads) : leads[x.line] > leads[s[b].line]
<1> DEFINE n == Len(s)
           r == s \o <<x>>
<1>1. n \in Nat /\ Len(r) = n + 1 /\ r[n + 1] = x /\ \A p \in 1..n : r[p] = s[p]
  BY OneToken, Concatenated
<1>2. \A p \in 1..(n + 1) : Begins(r, p, leads) <=> Begins(s, p, leads)
  BY OneToken, BeginsFirst
<1>3. Within(r, n, leads) = Within(s, n, leads) /\ Within(s, n, leads) \subseteq 1..n
  <2>1. n \in Int /\ n <= n
    BY <1>1
  <2> QED
    BY <2>1, OneToken, WithinFirst
<1> HIDE DEF r, n
<1>4. Marked(r, leads)
  <2>1. ASSUME NEW p \in 1..Len(r) PROVE r[p].kind = "INDENT" <=> Begins(r, p, leads)
    <3>1. CASE p = n + 1
      <4>1. n + 1 \in 1..(n + 1)
        BY <1>1
      <4> QED
        BY <1>1, <1>2, <3>1, <4>1 DEF n
    <3>2. CASE p # n + 1
      <4>1. p \in 1..n /\ p \in 1..(n + 1)
        BY <1>1, <3>2
      <4> QED
        BY <1>1, <1>2, <4>1 DEF Marked, n
    <3> QED
      BY <3>1, <3>2
  <2> QED
    BY <2>1 DEF Marked
<1>5. Len(r) + 1 > 1 /\ Len(r) + 1 - 1 = n + 1 /\ Len(r) + 1 - 2 = n
  BY <1>1
<1>6. Begins(r, Len(r) + 1, leads)
        <=> leads[x.line] > 0 /\ \A b \in Within(s, n, leads) : leads[x.line] > leads[s[b].line]
  BY <1>1, <1>3, <1>5 DEF Begins
<1> QED
  BY <1>4, <1>6 DEF r, n

LEMMA MarkedIndent ==
    ASSUME NEW s, IsSequence(s), NEW x, x.kind = "INDENT", NEW leads,
           Marked(s, leads), Begins(s, Len(s) + 1, leads)
    PROVE  Marked(s \o <<x>>, leads) /\ ~Begins(s \o <<x>>, Len(s \o <<x>>) + 1, leads)
<1> DEFINE n == Len(s)
           r == s \o <<x>>
<1>1. n \in Nat /\ Len(r) = n + 1 /\ r[n + 1] = x /\ \A p \in 1..n : r[p] = s[p]
  BY OneToken, Concatenated
<1>2. \A p \in 1..(n + 1) : Begins(r, p, leads) <=> Begins(s, p, leads)
  BY OneToken, BeginsFirst
<1> HIDE DEF r, n
<1>3. Marked(r, leads)
  <2>1. ASSUME NEW p \in 1..Len(r) PROVE r[p].kind = "INDENT" <=> Begins(r, p, leads)
    <3>1. CASE p = n + 1
      <4>1. n + 1 \in 1..(n + 1)
        BY <1>1
      <4> QED
        BY <1>1, <1>2, <3>1, <4>1 DEF n
    <3>2. CASE p # n + 1
      <4>1. p \in 1..n /\ p \in 1..(n + 1)
        BY <1>1, <3>2
      <4> QED
        BY <1>1, <1>2, <4>1 DEF Marked, n
    <3> QED
      BY <3>1, <3>2
  <2> QED
    BY <2>1 DEF Marked
<1>4. Len(r) + 1 - 1 = n + 1
  BY <1>1
<1> QED
  BY <1>1, <1>3, <1>4 DEF Begins, r
-----------------------------------------------------------------------------
(* The open blocks                                                         *)

\* The columns that are kept are where the blocks around the last token begin, outermost first.
Increasing(stack) == \A j, k \in 1..Len(stack) : j < k => stack[j] < stack[k]
Mirrored(s, leads, stack) ==
    \E starts \in [1..Len(stack) -> 1..Len(s)] :
        /\ Within(s, Len(s), leads) = {starts[k] : k \in 1..Len(stack)}
        /\ \A k \in 1..Len(stack) : leads[s[starts[k]].line] = stack[k]

\* As many columns are kept as there are blocks around the last token.
LEMMA MirroredCount ==
    ASSUME NEW s, NEW leads, NEW stack \in Seq(Nat \ {0}), Increasing(stack), Mirrored(s, leads, stack)
    PROVE  Cardinality(Within(s, Len(s), leads)) = Len(stack)
<1> DEFINE n == Len(stack)
           W == Within(s, Len(s), leads)
<1>1. n \in Nat
  OBVIOUS
<1>2. PICK starts \in [1..n -> 1..Len(s)] :
          /\ W = {starts[k] : k \in 1..n}
          /\ \A k \in 1..n : leads[s[starts[k]].line] = stack[k]
  BY DEF Mirrored
<1> HIDE DEF W
<1>3. starts \in Bijection(1..n, W)
  <2>1. starts \in [1..n -> W]
    BY <1>2
  <2>2. ASSUME NEW j \in 1..n, NEW k \in 1..n, starts[j] = starts[k] PROVE j = k
    <3>1. stack[j] = stack[k] /\ stack[j] \in Nat
      BY <1>2, <2>2
    <3>2. ~(j < k) /\ ~(k < j)
      BY <3>1 DEF Increasing
    <3> QED
      BY <3>2
  <2>3. \A w \in W : \E k \in 1..n : starts[k] = w
    BY <1>2
  <2> QED
    BY <2>1, <2>2, <2>3 DEF Bijection, Injection, Surjection, IsInjective
<1>4. IsFiniteSet(1..n) /\ Cardinality(1..n) = n
  <2>1. n \in Int /\ 1 \in Int /\ (1 > n => n = 0) /\ n - 1 + 1 = n
    BY <1>1
  <2>2. IsFiniteSet(1..n) /\ Cardinality(1..n) = IF 1 > n THEN 0 ELSE n - 1 + 1
    BY <2>1, FS_Interval
  <2> QED
    BY <2>1, <2>2
<1>5. Cardinality(W) = n
  BY <1>3, <1>4, FS_Bijection DEF ExistsBijection
<1> QED
  BY <1>5 DEF W

LEMMA MirroredPlain ==
    ASSUME NEW s, NEW t, IsSequence(s), IsSequence(t), NEW leads, NEW stack \in Seq(Nat \ {0}),
           \A p \in 1..Len(t) : t[p].kind \notin {"NEWLINE", "INDENT"}, Mirrored(s, leads, stack)
    PROVE  Mirrored(s \o t, leads, stack)
<1>1. PICK starts \in [1..Len(stack) -> 1..Len(s)] :
          /\ Within(s, Len(s), leads) = {starts[k] : k \in 1..Len(stack)}
          /\ \A k \in 1..Len(stack) : leads[s[starts[k]].line] = stack[k]
  BY DEF Mirrored
<1>2. 1..Len(s) \subseteq 1..Len(s \o t) /\ \A p \in 1..Len(s) : (s \o t)[p] = s[p]
  <2>1. Len(s) \in Nat /\ Len(t) \in Nat /\ Len(s \o t) = Len(s) + Len(t)
    BY Concatenated
  <2> QED
    BY <2>1, Concatenated
<1>3. starts \in [1..Len(stack) -> 1..Len(s \o t)]
  BY <1>1, <1>2
<1>4. Within(s \o t, Len(s \o t), leads) = Within(s, Len(s), leads)
  BY WithinPlain
<1>5. \A k \in 1..Len(stack) : leads[(s \o t)[starts[k]].line] = stack[k]
  BY <1>1, <1>2
<1> QED
  BY <1>1, <1>3, <1>4, <1>5 DEF Mirrored

\* A line break to a column that the first of the blocks begin no further right than.
LEMMA MirroredNewline ==
    ASSUME NEW s, IsSequence(s), NEW x, x.kind = "NEWLINE", NEW leads, NEW stack \in Seq(Nat \ {0}),
           Mirrored(s, leads, stack), NEW open \in 0..Len(stack),
           \A k \in 1..Len(stack) : stack[k] <= leads[x.line] <=> k <= open
    PROVE  Mirrored(s \o <<x>>, leads, SubSeq(stack, 1, open))
<1> DEFINE r == s \o <<x>>
           rest == SubSeq(stack, 1, open)
<1>1. PICK starts \in [1..Len(stack) -> 1..Len(s)] :
          /\ Within(s, Len(s), leads) = {starts[k] : k \in 1..Len(stack)}
          /\ \A k \in 1..Len(stack) : leads[s[starts[k]].line] = stack[k]
  BY DEF Mirrored
<1>2. 1..Len(s) \subseteq 1..Len(r) /\ \A p \in 1..Len(s) : r[p] = s[p]
  <2>1. Len(s) \in Nat /\ Len(r) = Len(s) + 1
    BY OneToken, Concatenated
  <2> QED
    BY <2>1, OneToken, Concatenated
<1>3. Len(rest) = open /\ open \in Nat /\ \A k \in 1..open : k \in 1..Len(stack) /\ rest[k] = stack[k]
  OBVIOUS
<1>4. Within(r, Len(r), leads) = {p \in Within(s, Len(s), leads) : leads[s[p].line] <= leads[x.line]}
  BY WithinNewline
<1> HIDE DEF r, rest
<1>5. \A k \in 1..Len(stack) : leads[s[starts[k]].line] <= leads[x.line] <=> k \in 1..open
  BY <1>1, <1>3
<1>6. Within(r, Len(r), leads) = {starts[k] : k \in 1..open}
  BY <1>1, <1>3, <1>4, <1>5
<1> DEFINE kept == [k \in 1..open |-> starts[k]]
<1>7. kept \in [1..Len(rest) -> 1..Len(r)] /\ \A k \in 1..open : kept[k] = starts[k]
  BY <1>1, <1>2, <1>3
<1> HIDE DEF kept
<1>8. Within(r, Len(r), leads) = {kept[k] : k \in 1..Len(rest)}
  BY <1>3, <1>6, <1>7
<1>9. ASSUME NEW k \in 1..Len(rest) PROVE leads[r[kept[k]].line] = rest[k]
  <2>1. k \in 1..open /\ k \in 1..Len(stack) /\ kept[k] = starts[k] /\ rest[k] = stack[k]
    BY <1>3, <1>7
  <2>2. starts[k] \in 1..Len(s) /\ r[starts[k]] = s[starts[k]]
    BY <1>1, <1>2, <2>1
  <2> QED
    BY <1>1, <2>1, <2>2
<1>10. Mirrored(r, leads, rest)
  BY <1>7, <1>8, <1>9 DEF Mirrored
<1> QED
  BY <1>10 DEF r, rest

LEMMA MirroredIndent ==
    ASSUME NEW s, IsSequence(s), NEW x, x.kind = "INDENT", NEW leads, NEW stack \in Seq(Nat \ {0}),
           Mirrored(s, leads, stack), leads[x.line] \in Nat \ {0}
    PROVE  Mirrored(s \o <<x>>, leads, Append(stack, leads[x.line]))
<1> DEFINE r == s \o <<x>>
           n == Len(stack)
           more == Append(stack, leads[x.line])
<1>1. PICK starts \in [1..n -> 1..Len(s)] :
          /\ Within(s, Len(s), leads) = {starts[k] : k \in 1..n}
          /\ \A k \in 1..n : leads[s[starts[k]].line] = stack[k]
  BY DEF Mirrored
<1>2. Len(s) \in Nat /\ Len(r) = Len(s) + 1 /\ r[Len(s) + 1] = x /\ \A p \in 1..Len(s) : r[p] = s[p]
  BY OneToken, Concatenated
<1>3. n \in Nat /\ Len(more) = n + 1 /\ more[n + 1] = leads[x.line] /\ \A k \in 1..n : more[k] = stack[k]
  OBVIOUS
<1>4. Within(r, Len(r), leads) = Within(s, Len(s), leads) \cup {Len(s) + 1}
  BY WithinIndent
<1> HIDE DEF r, n, more
<1> DEFINE longer == [k \in 1..(n + 1) |-> IF k = n + 1 THEN Len(s) + 1 ELSE starts[k]]
<1>5. \A k \in 1..(n + 1) : k = n + 1 \/ k \in 1..n
  BY <1>3
<1>6. n + 1 \in 1..(n + 1) /\ \A k \in 1..n : k \in 1..(n + 1) /\ k # n + 1
  BY <1>3
<1>7. longer[n + 1] = Len(s) + 1 /\ \A k \in 1..n : longer[k] = starts[k]
  BY <1>6
<1>8. longer \in [1..Len(more) -> 1..Len(r)]
  <2>1. Len(s) + 1 \in 1..Len(r) /\ 1..Len(s) \subseteq 1..Len(r)
    BY <1>2
  <2> QED
    BY <1>1, <1>3, <1>5, <2>1
<1> HIDE DEF longer
<1>9. Within(r, Len(r), leads) = {longer[k] : k \in 1..Len(more)}
  <2>1. {longer[k] : k \in 1..(n + 1)} = {longer[k] : k \in 1..n} \cup {longer[n + 1]}
    BY <1>5, <1>6
  <2>2. {longer[k] : k \in 1..n} = {starts[k] : k \in 1..n}
    BY <1>7
  <2> QED
    BY <1>1, <1>3, <1>4, <1>7, <2>1, <2>2
<1>10. ASSUME NEW k \in 1..Len(more) PROVE leads[r[longer[k]].line] = more[k]
  <2>1. CASE k = n + 1
    BY <1>2, <1>3, <1>7, <2>1
  <2>2. CASE k \in 1..n
    <3>1. starts[k] \in 1..Len(s) /\ r[starts[k]] = s[starts[k]]
      BY <1>1, <1>2, <2>2
    <3> QED
      BY <1>1, <1>3, <1>7, <2>2, <3>1
  <2> QED
    BY <1>3, <1>5, <2>1, <2>2
<1>11. Mirrored(r, leads, more)
  BY <1>8, <1>9, <1>10 DEF Mirrored
<1> QED
  BY <1>11 DEF r, n, more
-----------------------------------------------------------------------------
(* What the end of a line does to the blocks                               *)

InnermostOf(stack) == IF stack = <<>> THEN 0 ELSE stack[Len(stack)]
Blocks(s, leads, stack) ==
    /\ IsSequence(s) /\ stack \in Seq(Nat \ {0}) /\ Increasing(stack)
    /\ Nested(s, Len(stack))
    /\ Mirrored(s, leads, stack)
    /\ Marked(s, leads) /\ ~Begins(s, Len(s) + 1, leads)

LEMMA BlocksPlain ==
    ASSUME NEW s, NEW t, IsSequence(t), NEW leads, NEW stack, Blocks(s, leads, stack),
           \A p \in 1..Len(t) : t[p].kind \notin {"NEWLINE", "INDENT", "DEDENT"}
    PROVE  Blocks(s \o t, leads, stack)
<1>1. /\ IsSequence(s) /\ stack \in Seq(Nat \ {0}) /\ Len(stack) \in Nat
      /\ \A p \in 1..Len(t) : t[p].kind \notin {"NEWLINE", "INDENT"} /\ t[p].kind \notin {"INDENT", "DEDENT"}
  BY DEF Blocks
<1>2. IsSequence(s \o t)
  BY <1>1, Concatenated
<1>3. Nested(s \o t, Len(stack))
  BY <1>1, NestedPlain DEF Blocks
<1>4. Mirrored(s \o t, leads, stack)
  BY <1>1, MirroredPlain DEF Blocks
<1>5. Marked(s \o t, leads) /\ ~Begins(s \o t, Len(s \o t) + 1, leads)
  BY <1>1, MarkedPlain DEF Blocks
<1> QED
  BY <1>2, <1>3, <1>4, <1>5 DEF Blocks

\* The blocks that a line break leads out of are the innermost ones.
LEMMA InnermostIsLargest ==
    ASSUME NEW stack \in Seq(Nat \ {0}), Increasing(stack)
    PROVE  /\ InnermostOf(stack) \in Nat
           /\ \A k \in 1..Len(stack) : stack[k] \in Nat \ {0} /\ stack[k] <= InnermostOf(stack)
<1>1. CASE stack = <<>>
  BY <1>1 DEF InnermostOf
<1>2. CASE stack # <<>>
  <2>1. Len(stack) \in 1..Len(stack) /\ InnermostOf(stack) = stack[Len(stack)]
    BY <1>2 DEF InnermostOf
  <2>2. \A k \in 1..Len(stack) : stack[k] \in Nat \ {0}
    OBVIOUS
  <2>3. ASSUME NEW k \in 1..Len(stack) PROVE stack[k] <= stack[Len(stack)]
    <3>1. k = Len(stack) \/ k < Len(stack)
      OBVIOUS
    <3> QED
      BY <2>1, <2>2, <3>1 DEF Increasing
  <2> QED
    BY <2>1, <2>2, <2>3
<1> QED
  BY <1>1, <1>2

\* What a NEWLINE that leads out of all but the first of the blocks leaves for the others to be ended.
LEMMA BlocksNewline ==
    ASSUME NEW s, NEW leads, NEW stack, Blocks(s, leads, stack), NEW x, x.kind = "NEWLINE",
           leads[x.line] \in Nat, NEW open \in 0..Len(stack),
           \A k \in 1..Len(stack) : stack[k] <= leads[x.line] <=> k <= open
    PROVE  /\ IsSequence(s \o <<x>>)
           /\ SubSeq(stack, 1, open) \in Seq(Nat \ {0}) /\ Increasing(SubSeq(stack, 1, open))
           /\ Len(SubSeq(stack, 1, open)) = open
           /\ Nested(s \o <<x>>, Len(stack))
           /\ Mirrored(s \o <<x>>, leads, SubSeq(stack, 1, open))
           /\ Marked(s \o <<x>>, leads)
           /\ Begins(s \o <<x>>, Len(s \o <<x>>) + 1, leads) <=> leads[x.line] > InnermostOf(stack)
<1>1. IsSequence(s) /\ stack \in Seq(Nat \ {0}) /\ Len(stack) \in Nat /\ Increasing(stack)
  BY DEF Blocks
<1>2. /\ IsSequence(<<x>>) /\ IsSequence(s \o <<x>>)
      /\ \A p \in 1..Len(<<x>>) : <<x>>[p].kind \notin {"INDENT", "DEDENT"}
  BY <1>1, OneToken, Concatenated
<1>3. /\ SubSeq(stack, 1, open) \in Seq(Nat \ {0}) /\ Len(SubSeq(stack, 1, open)) = open
      /\ \A k \in 1..open : k \in 1..Len(stack) /\ SubSeq(stack, 1, open)[k] = stack[k]
  BY <1>1
<1>4. Increasing(SubSeq(stack, 1, open))
  BY <1>1, <1>3 DEF Increasing
<1>5. Nested(s \o <<x>>, Len(stack))
  BY <1>1, <1>2, NestedPlain DEF Blocks
<1>6. Mirrored(s \o <<x>>, leads, SubSeq(stack, 1, open))
  BY <1>1, MirroredNewline DEF Blocks
<1>7. /\ Marked(s \o <<x>>, leads)
      /\ Begins(s \o <<x>>, Len(s \o <<x>>) + 1, leads)
           <=> /\ leads[x.line] > 0
               /\ \A b \in Within(s, Len(s), leads) : leads[x.line] > leads[s[b].line]
  BY <1>1, MarkedNewline DEF Blocks
<1>8. (\A b \in Within(s, Len(s), leads) : leads[x.line] > leads[s[b].line])
        <=> \A k \in 1..Len(stack) : leads[x.line] > stack[k]
  <2>1. PICK starts \in [1..Len(stack) -> 1..Len(s)] :
            /\ Within(s, Len(s), leads) = {starts[k] : k \in 1..Len(stack)}
            /\ \A k \in 1..Len(stack) : leads[s[starts[k]].line] = stack[k]
    BY DEF Blocks, Mirrored
  <2> QED
    BY <2>1
<1>9. (leads[x.line] > 0 /\ \A k \in 1..Len(stack) : leads[x.line] > stack[k])
        <=> leads[x.line] > InnermostOf(stack)
  <2>1. CASE stack = <<>>
    BY <2>1 DEF InnermostOf
  <2>2. CASE stack # <<>>
    <3>1. Len(stack) \in 1..Len(stack) /\ InnermostOf(stack) = stack[Len(stack)]
      BY <1>1, <2>2 DEF InnermostOf
    <3>2. \A k \in 1..Len(stack) : stack[k] \in Nat \ {0} /\ stack[k] <= stack[Len(stack)]
      BY <1>1, <3>1, InnermostIsLargest
    <3> QED
      BY <3>1, <3>2
  <2> QED
    BY <2>1, <2>2
<1> QED
  BY <1>2, <1>3, <1>4, <1>5, <1>6, <1>7, <1>8, <1>9

\* To where the innermost block begins: it goes on.
LEMMA BlocksGoOn ==
    ASSUME NEW s, NEW leads, NEW stack, Blocks(s, leads, stack), NEW x, x.kind = "NEWLINE",
           leads[x.line] = InnermostOf(stack)
    PROVE  Blocks(s \o <<x>>, leads, stack)
<1> DEFINE n == Len(stack)
<1>1. stack \in Seq(Nat \ {0}) /\ n \in Nat /\ Increasing(stack)
  BY DEF Blocks
<1>2. leads[x.line] \in Nat /\ n \in 0..n /\ \A k \in 1..n : stack[k] <= leads[x.line] <=> k <= n
  BY <1>1, InnermostIsLargest
<1>3. SubSeq(stack, 1, n) = stack
  BY <1>1
<1>4. ~(leads[x.line] > InnermostOf(stack))
  BY <1>2
<1> HIDE DEF n
<1>5. /\ IsSequence(s \o <<x>>) /\ Nested(s \o <<x>>, n) /\ Mirrored(s \o <<x>>, leads, stack)
      /\ Marked(s \o <<x>>, leads) /\ ~Begins(s \o <<x>>, Len(s \o <<x>>) + 1, leads)
  BY <1>2, <1>3, <1>4, BlocksNewline DEF n
<1> QED
  BY <1>1, <1>5 DEF Blocks, n

\* Further right: a block begins.
LEMMA BlocksBegin ==
    ASSUME NEW s, NEW leads, NEW stack, Blocks(s, leads, stack), NEW x, x.kind = "NEWLINE",
           NEW y, y.kind = "INDENT", y.line = x.line,
           leads[x.line] \in Nat, leads[x.line] > InnermostOf(stack)
    PROVE  Blocks(s \o <<x, y>>, leads, Append(stack, leads[x.line]))
<1> DEFINE n == Len(stack)
           r == s \o <<x>>
           c == leads[x.line]
           more == Append(stack, c)
<1>1. stack \in Seq(Nat \ {0}) /\ n \in Nat /\ Increasing(stack) /\ IsSequence(s)
  BY DEF Blocks
<1>2. InnermostOf(stack) \in Nat /\ \A k \in 1..n : stack[k] \in Nat \ {0} /\ stack[k] <= InnermostOf(stack)
  BY <1>1, InnermostIsLargest
<1>3. c \in Nat \ {0} /\ n \in 0..n /\ \A k \in 1..n : stack[k] < c /\ (stack[k] <= c <=> k <= n)
  BY <1>1, <1>2
<1>4. SubSeq(stack, 1, n) = stack
  BY <1>1
<1> HIDE DEF n
<1>5. /\ IsSequence(r) /\ Nested(r, n) /\ Mirrored(r, leads, stack)
      /\ Marked(r, leads) /\ Begins(r, Len(r) + 1, leads)
  <2>1. n \in 0..Len(stack) /\ \A k \in 1..Len(stack) : stack[k] <= leads[x.line] <=> k <= n
    BY <1>3 DEF n
  <2>2. /\ IsSequence(r) /\ Nested(r, Len(stack)) /\ Mirrored(r, leads, SubSeq(stack, 1, n))
        /\ Marked(r, leads) /\ Begins(r, Len(r) + 1, leads) <=> leads[x.line] > InnermostOf(stack)
    BY <2>1, BlocksNewline
  <2> QED
    BY <1>4, <2>2 DEF n
<1>6. more \in Seq(Nat \ {0}) /\ Len(more) = n + 1 /\ more[n + 1] = c /\ \A k \in 1..n : more[k] = stack[k]
  BY <1>1, <1>3 DEF n
<1>7. Increasing(more)
  <2>1. ASSUME NEW j \in 1..(n + 1), NEW k \in 1..(n + 1), j < k PROVE more[j] < more[k]
    <3>1. j \in 1..n /\ (k = n + 1 \/ k \in 1..n)
      BY <1>1, <2>1
    <3> QED
      BY <1>1, <1>3, <1>6, <2>1, <3>1 DEF Increasing, n
  <2> QED
    BY <1>6, <2>1 DEF Increasing
<1>8. s \o <<x, y>> = r \o <<y>> /\ IsSequence(r \o <<y>>)
  <2>1. PICK S : s \in Seq(S)
    BY <1>1 DEF IsSequence
  <2>2. s \in Seq(S \cup {x, y}) /\ <<x>> \in Seq(S \cup {x, y}) /\ <<y>> \in Seq(S \cup {x, y})
    BY <2>1
  <2>3. <<x, y>> = <<x>> \o <<y>>
    OBVIOUS
  <2>4. s \o <<x, y>> = (s \o <<x>>) \o <<y>>
    BY <2>2, <2>3, ConcatAssociative
  <2> QED
    BY <1>5, <2>4, OneToken, Concatenated
<1>9. Nested(r \o <<y>>, n + 1)
  BY <1>1, <1>5, NestedBegin
<1>10. Mirrored(r \o <<y>>, leads, Append(stack, leads[y.line]))
  BY <1>1, <1>3, <1>5, MirroredIndent
<1>11. Marked(r \o <<y>>, leads) /\ ~Begins(r \o <<y>>, Len(r \o <<y>>) + 1, leads)
  BY <1>5, MarkedIndent
<1>12. Blocks(r \o <<y>>, leads, more)
  BY <1>6, <1>7, <1>8, <1>9, <1>10, <1>11 DEF Blocks
<1> QED
  BY <1>8, <1>12

\* Further left: the blocks that began further right end.
LEMMA BlocksEnd ==
    ASSUME NEW s, NEW leads, NEW stack, Blocks(s, leads, stack), NEW x, x.kind = "NEWLINE",
           leads[x.line] \in Nat, leads[x.line] < InnermostOf(stack), NEW open \in 0..Len(stack),
           \A k \in 1..Len(stack) : stack[k] <= leads[x.line] <=> k <= open,
           NEW t, IsSequence(t), Len(t) = Len(stack) - open, \A p \in 1..Len(t) : t[p].kind = "DEDENT"
    PROVE  Blocks((s \o <<x>>) \o t, leads, SubSeq(stack, 1, open))
<1> DEFINE n == Len(stack)
           r == s \o <<x>>
           rest == SubSeq(stack, 1, open)
<1>1. stack \in Seq(Nat \ {0}) /\ n \in Nat /\ Increasing(stack) /\ IsSequence(s)
  BY DEF Blocks
<1>2. InnermostOf(stack) \in Nat
  BY <1>1, InnermostIsLargest
<1>3. ~(leads[x.line] > InnermostOf(stack))
  BY <1>2
<1>4. /\ IsSequence(r) /\ rest \in Seq(Nat \ {0}) /\ Increasing(rest) /\ Len(rest) = open
      /\ Nested(r, n) /\ Mirrored(r, leads, rest)
      /\ Marked(r, leads) /\ ~Begins(r, Len(r) + 1, leads)
  BY <1>3, BlocksNewline
<1> HIDE DEF n, r, rest
<1>5. \A p \in 1..Len(t) : t[p].kind \notin {"NEWLINE", "INDENT"}
  OBVIOUS
<1>6. IsSequence(r \o t)
  BY <1>4, Concatenated
<1>7. Nested(r \o t, Len(rest))
  <2>1. Len(t) <= n /\ n - Len(t) = open
    BY <1>1 DEF n
  <2>2. Nested(r \o t, n - Len(t))
    BY <1>1, <1>4, <2>1, NestedEnd
  <2> QED
    BY <1>4, <2>1, <2>2
<1>8. Mirrored(r \o t, leads, rest)
  BY <1>4, <1>5, MirroredPlain
<1>9. Marked(r \o t, leads) /\ ~Begins(r \o t, Len(r \o t) + 1, leads)
  BY <1>4, <1>5, MarkedPlain
<1>10. Blocks(r \o t, leads, rest)
  BY <1>4, <1>6, <1>7, <1>8, <1>9 DEF Blocks
<1> QED
  BY <1>10 DEF r, rest
-----------------------------------------------------------------------------
(* The lexer                                                               *)

\* The columns that the lines lead to, and the invariant.
Leads == [i \in Nat |-> NextColumn(i)]
LexerInv == LexerTypeOK /\ Blocks(tokens, Leads, indents)

\* What a word stands for is no token that the starts of lines are made of.
LEMMA WordsAreNoLayout ==
    ASSUME NEW lexeme
    PROVE  KindOf(lexeme) \notin LayoutKinds
<1>1. Keywords \cap LayoutKinds = {}
  BY DEF Keywords, LayoutKinds
<1>2. "Identifier" \notin LayoutKinds
  BY DEF LayoutKinds
<1> QED
  BY <1>1, <1>2, LexiconAssumption DEF KindOf

LEMMA TokensOfALine ==
    ASSUME NEW i
    PROVE  /\ IsSequence(TokensOf(i))
           /\ \A p \in 1..Len(TokensOf(i)) :
                  /\ TokensOf(i)[p].kind \notin {"NEWLINE", "INDENT", "DEDENT"}
                  /\ TokensOf(i)[p].line = i
<1> DEFINE n == Len(Lexemes(i))
           t == [k \in 1..n |-> Token(KindOf(Lexemes(i)[k]), Lexemes(i)[k], i)]
<1>1. n \in Nat
  BY DEF Lexemes
<1>2. TokensOf(i) = t
  BY DEF TokensOf
<1>3. \A k \in 1..n : t[k].kind = KindOf(Lexemes(i)[k]) /\ t[k].line = i
  BY DEF Token
<1>4. t = [k \in 1..n |-> t[k]]
  OBVIOUS
<1> HIDE DEF n, t
<1>5. IsSequence(t) /\ Len(t) = n
  BY <1>1, <1>4, SequenceOf
<1>6. \A k \in 1..n : t[k].kind \notin LayoutKinds
  BY <1>3, WordsAreNoLayout
<1> QED
  BY <1>2, <1>3, <1>5, <1>6 DEF LayoutKinds

LEMMA DedentsOfALine ==
    ASSUME NEW n \in Nat, NEW i
    PROVE  /\ IsSequence(Dedents(n, i)) /\ Len(Dedents(n, i)) = n
           /\ \A p \in 1..n : Dedents(n, i)[p].kind = "DEDENT" /\ Dedents(n, i)[p].line = i
<1> DEFINE t == [k \in 1..n |-> Token("DEDENT", "", i)]
<1>1. Dedents(n, i) = t
  BY DEF Dedents
<1>2. \A k \in 1..n : t[k].kind = "DEDENT" /\ t[k].line = i
  BY DEF Token
<1>3. t = [k \in 1..n |-> t[k]]
  OBVIOUS
<1> HIDE DEF t
<1> QED
  BY <1>1, <1>2, <1>3, SequenceOf

\* The lines of the file, and where they lead to.
LEMMA LinesLead ==
    ASSUME LexerTypeOK
    PROVE  /\ Len(Lines) \in Nat /\ line \in Nat /\ line <= Len(Lines)
           /\ \A i \in Nat : Leads[i] = NextColumn(i) /\ Leads[i] \in Nat
<1>1. /\ Lines \in Seq([spaces : Seq(STRING), lexemes : Seq(STRING)])
      /\ \A i \in 1..Len(Lines) : Column(i) \in Nat
  BY LexerAssumption DEF LexerTypeOK, Lines, Column
<1>2. Len(Lines) \in Nat
  BY <1>1
<1>3. line \in Nat /\ line <= Len(Lines)
  BY <1>2 DEF LexerTypeOK
<1>4. ASSUME NEW i \in Nat PROVE NextColumn(i) \in Nat
  <2>1. i < Len(Lines) => i + 1 \in 1..Len(Lines)
    BY <1>2
  <2> QED
    BY <1>1, <2>1 DEF NextColumn
<1> QED
  BY <1>2, <1>3, <1>4 DEF Leads

\* What is inside of the blocks that are still open at a column, and what is not.
LEMMA StillOpenSplits ==
    ASSUME indents \in Seq(Nat \ {0}), Increasing(indents), NEW column \in Nat
    PROVE  /\ StillOpen(column) \in 0..Len(indents)
           /\ \A k \in 1..Len(indents) : indents[k] <= column <=> k <= StillOpen(column)
<1> DEFINE n == Len(indents)
           S == {k \in 0..n : \A j \in (k + 1)..n : indents[j] > column}
           P(k) == /\ k = 0 \/ indents[k] <= column
                   /\ \A j \in (k + 1)..n : indents[j] > column
           open == StillOpen(column)
<1>1. n \in Nat /\ \A k \in 1..n : indents[k] \in Nat
  OBVIOUS
<1>2. n \in S
  BY <1>1
<1>3. PICK x \in S : \A y \in S : x <= y
  <2>1. S \subseteq Nat /\ S # {}
    BY <1>1, <1>2
  <2> HIDE DEF S
  <2> QED
    BY <2>1, FirstPlace
<1>4. P(x)
  <2>1. SUFFICES ASSUME x # 0, ~(indents[x] <= column) PROVE FALSE
    BY <1>3
  <2>2. x \in 1..n /\ indents[x] > column /\ x - 1 \in 0..n /\ ~(x <= x - 1)
    BY <1>1, <1>3, <2>1
  <2>3. ASSUME NEW j \in (x - 1 + 1)..n PROVE indents[j] > column
    <3>1. j = x \/ j \in (x + 1)..n
      BY <1>1, <2>2
    <3> QED
      BY <1>3, <2>2, <3>1
  <2>4. x - 1 \in S
    BY <2>2, <2>3
  <2> QED
    BY <1>3, <2>2, <2>4
<1>5. open \in 0..n /\ P(open)
  <2>1. x \in 0..n
    BY <1>3
  <2>2. open = CHOOSE k \in 0..n : P(k)
    BY DEF StillOpen
  <2> HIDE DEF P, open, n
  <2> QED
    BY <1>4, <2>1, <2>2
<1>6. ASSUME NEW k \in 1..n PROVE indents[k] <= column <=> k <= open
  <2>1. CASE k > open
    <3>1. k \in (open + 1)..n
      BY <1>1, <1>5, <2>1
    <3> QED
      BY <1>1, <1>5, <2>1, <3>1
  <2>2. CASE k <= open
    <3>1. open \in 1..n /\ indents[open] <= column /\ (k = open \/ k < open)
      BY <1>1, <1>5, <2>2
    <3>2. indents[k] <= indents[open]
      BY <1>1, <3>1 DEF Increasing
    <3> QED
      BY <1>1, <2>2, <3>1, <3>2
  <2> QED
    BY <1>1, <1>5, <2>1, <2>2
<1> QED
  BY <1>5, <1>6

\* Every token is of one of the first lines.
FromLines(s, n) == \A p \in 1..Len(s) : s[p].line \in 1..n

LEMMA FromLinesInBoth ==
    ASSUME NEW s, NEW t, IsSequence(s), IsSequence(t), NEW n, FromLines(s, n), FromLines(t, n)
    PROVE  FromLines(s \o t, n)
<1>1. Len(s) \in Nat /\ Len(t) \in Nat /\ Len(s \o t) = Len(s) + Len(t)
  BY Concatenated
<1>2. ASSUME NEW p \in 1..Len(s \o t) PROVE (s \o t)[p].line \in 1..n
  <2>1. CASE p <= Len(s)
    <3>1. p \in 1..Len(s)
      BY <1>1, <2>1
    <3> QED
      BY <3>1, Concatenated DEF FromLines
  <2>2. CASE p > Len(s)
    <3>1. p - Len(s) \in 1..Len(t) /\ Len(s) + (p - Len(s)) = p
      BY <1>1, <2>2
    <3>2. (s \o t)[Len(s) + (p - Len(s))] = t[p - Len(s)]
      BY <3>1, Concatenated
    <3> QED
      BY <3>1, <3>2 DEF FromLines
  <2> QED
    BY <1>1, <2>1, <2>2
<1> QED
  BY <1>2 DEF FromLines

LEMMA OneLine ==
    ASSUME NEW x, NEW n, x.line \in 1..n
    PROVE  FromLines(<<x>>, n)
BY OneToken DEF FromLines

\* The tokens of the next line, behind those that are there.
LEMMA LineBehind ==
    ASSUME LexerInv, line < Len(Lines)
    PROVE  /\ Blocks(tokens \o TokensOf(line + 1), Leads, indents)
           /\ FromLines(tokens \o TokensOf(line + 1), line + 1)
           /\ IsSequence(tokens) /\ IsSequence(tokens \o TokensOf(line + 1))
<1> DEFINE t == TokensOf(line + 1)
<1>1. LexerTypeOK /\ Blocks(tokens, Leads, indents) /\ IsSequence(tokens)
  BY DEF LexerInv, Blocks
<1>2. line \in Nat /\ \A p \in 1..line : p \in 1..(line + 1)
  BY <1>1, LinesLead
<1>3. FromLines(tokens, line + 1)
  <2>1. DOMAIN tokens = 1..Len(tokens)
    BY <1>1, Concatenated
  <2> QED
    BY <1>1, <1>2, <2>1 DEF LexerTypeOK, FromLines
<1>4. /\ IsSequence(t)
      /\ \A p \in 1..Len(t) : t[p].kind \notin {"NEWLINE", "INDENT", "DEDENT"} /\ t[p].line = line + 1
  BY TokensOfALine
<1> HIDE DEF t
<1>5. FromLines(t, line + 1)
  BY <1>2, <1>4 DEF FromLines
<1>6. IsSequence(tokens \o t)
  BY <1>1, <1>4, Concatenated
<1> QED
  BY <1>1, <1>3, <1>4, <1>5, <1>6, BlocksPlain, FromLinesInBoth DEF t

\* Where the next line leads to.
LEMMA NextLineLeads ==
    ASSUME LexerInv
    PROVE  /\ line \in Nat /\ line + 1 \in 1..(line + 1)
           /\ Leads[line + 1] = NextColumn(line + 1) /\ Leads[line + 1] \in Nat
           /\ Innermost = InnermostOf(indents)
<1>1. LexerTypeOK
  BY DEF LexerInv
<1>2. line \in Nat /\ line + 1 \in Nat /\ line + 1 \in 1..(line + 1)
  BY <1>1, LinesLead
<1>3. Innermost = InnermostOf(indents)
  BY DEF Innermost, InnermostOf, Last
<1> QED
  BY <1>1, <1>2, <1>3, LinesLead

\* The end of a line that counts, for each of the three ways it may lead.
LEMMA LineGoesOn ==
    ASSUME LexerInv, line < Len(Lines), NextColumn(line + 1) = Innermost
    PROVE  LET r == (tokens \o TokensOf(line + 1)) \o <<Token("NEWLINE", "", line + 1)>>
           IN  Blocks(r, Leads, indents) /\ FromLines(r, line + 1)
<1> DEFINE s == tokens \o TokensOf(line + 1)
           x == Token("NEWLINE", "", line + 1)
<1>1. Blocks(s, Leads, indents) /\ FromLines(s, line + 1) /\ IsSequence(s)
  BY LineBehind
<1>2. /\ line + 1 \in 1..(line + 1) /\ Leads[line + 1] = NextColumn(line + 1) /\ Leads[line + 1] \in Nat
      /\ Innermost = InnermostOf(indents)
  BY NextLineLeads
<1>3. x.kind = "NEWLINE" /\ x.line = line + 1
  BY DEF Token
<1> HIDE DEF s, x
<1>4. Blocks(s \o <<x>>, Leads, indents)
  BY <1>1, <1>2, <1>3, BlocksGoOn
<1>5. FromLines(<<x>>, line + 1)
  BY <1>2, <1>3, OneLine
<1>6. FromLines(s \o <<x>>, line + 1)
  BY <1>1, <1>5, OneToken, FromLinesInBoth
<1> QED
  BY <1>4, <1>6 DEF s, x

LEMMA LineBegins ==
    ASSUME LexerInv, line < Len(Lines), NextColumn(line + 1) > Innermost
    PROVE  LET r == (tokens \o TokensOf(line + 1))
                        \o <<Token("NEWLINE", "", line + 1), Token("INDENT", "", line + 1)>>
           IN  Blocks(r, Leads, Append(indents, NextColumn(line + 1))) /\ FromLines(r, line + 1)
<1> DEFINE s == tokens \o TokensOf(line + 1)
           x == Token("NEWLINE", "", line + 1)
           y == Token("INDENT", "", line + 1)
<1>1. Blocks(s, Leads, indents) /\ FromLines(s, line + 1) /\ IsSequence(s)
  BY LineBehind
<1>2. /\ line + 1 \in 1..(line + 1) /\ Leads[line + 1] = NextColumn(line + 1) /\ Leads[line + 1] \in Nat
      /\ Innermost = InnermostOf(indents)
  BY NextLineLeads
<1>3. x.kind = "NEWLINE" /\ x.line = line + 1 /\ y.kind = "INDENT" /\ y.line = line + 1
  BY DEF Token
<1> HIDE DEF s, x, y
<1>4. Blocks(s \o <<x, y>>, Leads, Append(indents, Leads[line + 1]))
  BY <1>1, <1>2, <1>3, BlocksBegin
<1>5. IsSequence(<<x, y>>) /\ FromLines(<<x, y>>, line + 1)
  <2>1. <<x, y>> \in Seq({x, y}) /\ Len(<<x, y>>) = 2 /\ <<x, y>>[1] = x /\ <<x, y>>[2] = y
    OBVIOUS
  <2>2. \A p \in 1..2 : p = 1 \/ p = 2
    OBVIOUS
  <2>3. line + 1 \in 1..(line + 1)
    BY <1>2
  <2> QED
    BY <1>3, <2>1, <2>2, <2>3 DEF IsSequence, FromLines
<1>6. FromLines(s \o <<x, y>>, line + 1)
  BY <1>1, <1>5, FromLinesInBoth
<1> QED
  BY <1>2, <1>4, <1>6 DEF s, x, y

LEMMA LineEnds ==
    ASSUME LexerInv, line < Len(Lines), NextColumn(line + 1) < Innermost
    PROVE  LET open == StillOpen(NextColumn(line + 1))
               r == (tokens \o TokensOf(line + 1)) \o <<Token("NEWLINE", "", line + 1)>>
                        \o Dedents(Len(indents) - open, line + 1)
           IN  Blocks(r, Leads, SubSeq(indents, 1, open)) /\ FromLines(r, line + 1)
<1> DEFINE s == tokens \o TokensOf(line + 1)
           x == Token("NEWLINE", "", line + 1)
           open == StillOpen(NextColumn(line + 1))
           t == Dedents(Len(indents) - open, line + 1)
<1>1. Blocks(s, Leads, indents) /\ FromLines(s, line + 1) /\ IsSequence(s)
  BY LineBehind
<1>2. /\ line + 1 \in 1..(line + 1) /\ Leads[line + 1] = NextColumn(line + 1) /\ Leads[line + 1] \in Nat
      /\ Innermost = InnermostOf(indents)
  BY NextLineLeads
<1>3. x.kind = "NEWLINE" /\ x.line = line + 1
  BY DEF Token
<1>4. /\ open \in 0..Len(indents)
      /\ \A k \in 1..Len(indents) : indents[k] <= NextColumn(line + 1) <=> k <= open
  <2>1. indents \in Seq(Nat \ {0}) /\ Increasing(indents)
    BY DEF LexerInv, Blocks
  <2> QED
    BY <1>2, <2>1, StillOpenSplits
<1> HIDE DEF open
<1>5. Len(indents) - open \in Nat
  <2>1. indents \in Seq(Nat \ {0})
    BY DEF LexerInv, Blocks
  <2> QED
    BY <1>4, <2>1
<1>6. /\ IsSequence(t) /\ Len(t) = Len(indents) - open
      /\ \A p \in 1..Len(t) : t[p].kind = "DEDENT" /\ t[p].line = line + 1
  BY <1>5, DedentsOfALine
<1> HIDE DEF s, x, t
<1>7. Blocks((s \o <<x>>) \o t, Leads, SubSeq(indents, 1, open))
  BY <1>1, <1>2, <1>3, <1>4, <1>6, BlocksEnd
<1>8. FromLines(<<x>>, line + 1) /\ FromLines(t, line + 1)
  BY <1>2, <1>3, <1>6, OneLine DEF FromLines
<1>9. FromLines((s \o <<x>>) \o t, line + 1)
  BY <1>1, <1>6, <1>8, OneToken, Concatenated, FromLinesInBoth
<1> QED
  BY <1>7, <1>9 DEF s, x, t, open

\* What ReadLine does to the tokens and the columns that are kept.
LEMMA ReadLineBlocks ==
    ASSUME LexerInv, ReadLine
    PROVE  Blocks(tokens', Leads, indents') /\ FromLines(tokens', line + 1)
<1> DEFINE i == line + 1
           here == tokens \o TokensOf(i)
           open == StillOpen(NextColumn(i))
<1>1. line < Len(Lines)
  BY DEF ReadLine
<1>2. CASE ~(Broken(i) /\ ~Joined(i)) \/ NewlineSkipped(i)
  <2>1. tokens' = here /\ indents' = indents
    BY <1>2 DEF ReadLine, NEWLINE_action
  <2> QED
    BY <1>1, <2>1, LineBehind
<1>3. CASE Broken(i) /\ ~Joined(i) /\ ~NewlineSkipped(i)
  <2>1. NEWLINE_action(i)
    BY <1>3 DEF ReadLine
  <2>2. CASE NextColumn(i) = Innermost /\ tokens' = here \o <<Token("NEWLINE", "", i)>> /\ indents' = indents
    BY <1>1, <2>2, LineGoesOn
  <2>3. CASE /\ NextColumn(i) > Innermost
             /\ tokens' = here \o <<Token("NEWLINE", "", i), Token("INDENT", "", i)>>
             /\ indents' = Append(indents, NextColumn(i))
    BY <1>1, <2>3, LineBegins
  <2>4. CASE /\ NextColumn(i) < Innermost
             /\ tokens' = here \o <<Token("NEWLINE", "", i)>> \o Dedents(Len(indents) - open, i)
             /\ indents' = SubSeq(indents, 1, open)
    BY <1>1, <2>4, LineEnds
  <2> QED
    BY <1>3, <2>1, <2>2, <2>3, <2>4 DEF NEWLINE_action
<1> QED
  BY <1>2, <1>3

\* Before the first line there are no blocks.
LEMMA EmptyBlocks ==
    ASSUME NEW leads
    PROVE  Blocks(<<>>, leads, <<>>)
<1>1. IsSequence(<<>>) /\ Len(<<>>) = 0
  <2>1. <<>> \in Seq({})
    OBVIOUS
  <2> QED
    BY <2>1 DEF IsSequence
<1>2. \A j \in 0..Len(<<>>) : Depth(<<>>, j) = 0
  BY <1>1, PlainDepth
<1>3. Nested(<<>>, 0)
  BY <1>1, <1>2 DEF Nested
<1>4. Mirrored(<<>>, leads, <<>>)
  <2>1. Within(<<>>, 0, leads) = {}
    BY DEF Within, Places
  <2> DEFINE f == [k \in 1..0 |-> k]
  <2>2. 1..0 = {} /\ f \in [1..0 -> 1..0]
    OBVIOUS
  <2> HIDE DEF f
  <2>3. Within(<<>>, 0, leads) = {f[k] : k \in 1..0}
    BY <2>1, <2>2
  <2>4. \A k \in 1..0 : leads[<<>>[f[k]].line] = <<>>[k]
    BY <2>2
  <2>5. \E g \in [1..0 -> 1..0] : /\ Within(<<>>, 0, leads) = {g[k] : k \in 1..0}
                                 /\ \A k \in 1..0 : leads[<<>>[g[k]].line] = <<>>[k]
    BY <2>2, <2>3, <2>4
  <2> QED
    BY <1>1, <2>5 DEF Mirrored
<1>5. Marked(<<>>, leads) /\ ~Begins(<<>>, Len(<<>>) + 1, leads)
  BY <1>1 DEF Marked, Begins
<1>6. <<>> \in Seq(Nat \ {0}) /\ Increasing(<<>>)
  BY <1>1 DEF Increasing
<1> QED
  BY <1>1, <1>3, <1>4, <1>5, <1>6 DEF Blocks

\* A file is read from its start, the first one and every one behind it.
LEMMA FromTheStart ==
    ASSUME NEW f \in DOMAIN Sources
    PROVE  /\ Len(Sources[f].lines) \in Nat
           /\ Blocks(<<>>, Leads, <<>>)
<1>1. Sources[f].lines \in Seq([spaces : Seq(STRING), lexemes : Seq(STRING)])
  BY LexerAssumption
<1> QED
  BY <1>1, EmptyBlocks

LEMMA ReadLineTyping ==
    ASSUME LexerInv, ReadLine
    PROVE  LexerTypeOK'
<1>1. LexerTypeOK /\ reading' = reading /\ line' = line + 1 /\ opened' = OpenedAfter(line + 1)
  BY DEF LexerInv, ReadLine
<1>2. Lines' = Lines /\ line' \in 0..Len(Lines)
  <2>1. line < Len(Lines)
    BY DEF ReadLine
  <2>2. line + 1 \in 0..Len(Lines)
    BY <1>1, <2>1, LinesLead
  <2> QED
    BY <1>1, <2>2 DEF Lines
<1>3. opened' \in Int
  <2>1. Count(line + 1, {"(", "["}) \in Nat /\ Count(line + 1, {")", "]"}) \in Nat
    BY DEF Count
  <2>2. opened \in Int
    BY <1>1 DEF LexerTypeOK
  <2> QED
    BY <1>1, <2>1, <2>2 DEF OpenedAfter
<1>4. Blocks(tokens', Leads, indents') /\ FromLines(tokens', line + 1)
  BY ReadLineBlocks
<1>5. indents' \in Seq(Nat \ {0}) /\ Increasing(indents') /\ DOMAIN indents' = 1..Len(indents')
  BY <1>4 DEF Blocks
<1>6. \A j, k \in DOMAIN indents' : j < k => indents'[j] < indents'[k]
  BY <1>5 DEF Increasing
<1>7. \A k \in DOMAIN tokens' : tokens'[k].line \in 1..line'
  <2>1. IsSequence(tokens')
    BY <1>4 DEF Blocks
  <2>2. DOMAIN tokens' = 1..Len(tokens')
    BY <2>1, Concatenated
  <2> QED
    BY <1>1, <1>4, <2>2 DEF FromLines
<1>8. reading' \in DOMAIN Sources
  BY <1>1 DEF LexerTypeOK
<1> QED
  BY <1>2, <1>3, <1>5, <1>6, <1>7, <1>8 DEF LexerTypeOK

LEMMA InvariantAtStart == LexerInit => LexerInv
<1> SUFFICES ASSUME LexerInit PROVE LexerInv
  OBVIOUS
<1>1. /\ reading \in DOMAIN Sources /\ line = 0 /\ indents = <<>> /\ opened = 0 /\ tokens = <<>>
  BY DEF LexerInit
<1>2. Len(Lines) \in Nat /\ Blocks(<<>>, Leads, <<>>)
  BY <1>1, FromTheStart DEF Lines
<1>3. <<>> \in Seq(Nat \ {0}) /\ DOMAIN <<>> = {}
  OBVIOUS
<1>4. LexerTypeOK
  BY <1>1, <1>2, <1>3 DEF LexerTypeOK
<1> QED
  BY <1>1, <1>2, <1>4 DEF LexerInv

LEMMA InvariantKept == LexerInv /\ [LexerNext]_lexer => LexerInv'
<1> SUFFICES ASSUME LexerInv, [LexerNext]_lexer PROVE LexerInv'
  OBVIOUS
<1>1. CASE ReadLine
  <2>1. LexerTypeOK'
    BY <1>1, ReadLineTyping
  <2>2. Leads' = Leads
    BY <1>1 DEF ReadLine, Leads, NextColumn, Column, Lines
  <2>3. Blocks(tokens', Leads', indents')
    BY <1>1, <2>2, ReadLineBlocks
  <2> QED
    BY <2>1, <2>3 DEF LexerInv
<1>2. ASSUME NEW f \in DOMAIN Sources, StartReading(f) PROVE LexerInv'
  <2>1. reading' = f /\ line' = 0 /\ indents' = <<>> /\ opened' = 0 /\ tokens' = <<>>
    BY <1>2 DEF StartReading
  <2>2. Len(Sources[f].lines) \in Nat
    BY FromTheStart
  <2>3. Lines' = Sources[f].lines
    BY <2>1 DEF Lines
  <2>4. <<>> \in Seq(Nat \ {0}) /\ DOMAIN <<>> = {}
    OBVIOUS
  <2>5. LexerTypeOK'
    BY <2>1, <2>2, <2>3, <2>4 DEF LexerTypeOK
  <2>6. Blocks(tokens', Leads', indents')
    BY <2>1, EmptyBlocks
  <2> QED
    BY <2>5, <2>6 DEF LexerInv
<1>3. CASE UNCHANGED lexer
  BY <1>3 DEF lexer, LexerInv, LexerTypeOK, Leads, NextColumn, Column, Lines
<1> QED
  BY <1>1, <1>2, <1>3 DEF LexerNext

\* For every file there is, the columns that the lexer keeps are where the blocks around the last token
\* begin, and every token that begins a block is where one is to begin.
THEOREM LexerInvariant == LexerSpec => []LexerInv
<1> QED
  BY InvariantAtStart, InvariantKept, PTL DEF LexerSpec

\* Open blocks start ever further right, and every token is of a line that is read.
THEOREM LexerTyping == LexerSpec => []LexerTypeOK
<1>1. LexerInv => LexerTypeOK
  BY DEF LexerInv
<1> QED
  BY <1>1, LexerInvariant, PTL

\* Wherever a file ends, its blocks are closed, each once and behind its start.
THEOREM BlocksAreNested == LexerSpec => []BlocksNest
<1>1. ASSUME LexerInv PROVE BlocksNest
  <2> DEFINE d == Len(indents)
             x == Token("NEWLINE", "", line)
             e == Token("EOF", "", line)
             t == Dedents(d, line)
             all == AllTokens
  <2>1. IsSequence(tokens) /\ d \in Nat /\ Nested(tokens, d)
    BY <1>1 DEF LexerInv, Blocks
  <2>2. x.kind = "NEWLINE" /\ e.kind = "EOF"
    BY DEF Token
  <2>3. IsSequence(t) /\ Len(t) = d /\ \A p \in 1..d : t[p].kind = "DEDENT"
    BY <2>1, DedentsOfALine
  <2>4. all = IF indents = <<>> THEN tokens \o (<<>> \o <<e>>) ELSE tokens \o ((<<x>> \o t) \o <<e>>)
    BY DEF AllTokens, TokensAtEnd
  <2> HIDE DEF d, x, e, t, all
  <2>5. /\ IsSequence(<<x>>) /\ \A p \in 1..Len(<<x>>) : <<x>>[p].kind \notin {"INDENT", "DEDENT"}
        /\ IsSequence(<<e>>) /\ \A p \in 1..Len(<<e>>) : <<e>>[p].kind \notin {"INDENT", "DEDENT"}
    BY <2>2, OneToken
  <2>6. IsSequence(all) /\ Nested(all, 0)
    <3>1. CASE indents = <<>>
      <4>1. d = 0 /\ all = tokens \o <<e>>
        BY <2>4, <3>1 DEF d
      <4> QED
        BY <2>1, <2>5, <4>1, NestedPlain, Concatenated
    <3>2. CASE indents # <<>>
      <4>1. PICK S : tokens \in Seq(S)
        BY <2>1 DEF IsSequence
      <4>2. PICK T : t \in Seq(T)
        BY <2>3 DEF IsSequence
      <4> DEFINE U == S \cup T \cup {x, e}
      <4>3. tokens \in Seq(U) /\ t \in Seq(U) /\ <<x>> \in Seq(U) /\ <<e>> \in Seq(U)
        BY <4>1, <4>2
      <4> HIDE DEF U
      <4>4. <<x>> \o t \in Seq(U) /\ tokens \o <<x>> \in Seq(U)
        BY <4>3
      <4>5. tokens \o ((<<x>> \o t) \o <<e>>) = (tokens \o (<<x>> \o t)) \o <<e>>
        BY <4>3, <4>4, ConcatAssociative
      <4>6. tokens \o (<<x>> \o t) = (tokens \o <<x>>) \o t
        BY <4>3, ConcatAssociative
      <4>7. all = ((tokens \o <<x>>) \o t) \o <<e>>
        BY <2>4, <3>2, <4>5, <4>6
      <4>8. IsSequence(tokens \o <<x>>) /\ Nested(tokens \o <<x>>, d)
        BY <2>1, <2>5, NestedPlain, Concatenated
      <4>9. IsSequence((tokens \o <<x>>) \o t) /\ Nested((tokens \o <<x>>) \o t, d - d)
        BY <2>1, <2>3, <4>8, NestedEnd, Concatenated
      <4>10. d - d = 0 /\ 0 \in Nat
        BY <2>1
      <4>11. Nested((tokens \o <<x>>) \o t, 0)
        BY <4>9, <4>10
      <4> HIDE DEF all
      <4>12. IsSequence(((tokens \o <<x>>) \o t) \o <<e>>)
        BY <2>5, <4>9, Concatenated
      <4>13. Nested(((tokens \o <<x>>) \o t) \o <<e>>, 0)
        BY <2>5, <4>9, <4>10, <4>11, NestedPlain
      <4> QED
        BY <4>7, <4>12, <4>13
    <3> QED
      BY <3>1, <3>2
  <2>7. DOMAIN all = 1..Len(all) /\ Len(all) \in Nat
    BY <2>6, Concatenated
  <2>8. \A n \in DOMAIN all : Depth(all, n) \in Nat
    BY <2>6, <2>7 DEF Nested
  <2>9. Depth(all, Len(all)) = 0
    BY <2>6 DEF Nested
  <2> QED
    BY <2>8, <2>9 DEF BlocksNest, all
<1> QED
  BY <1>1, LexerInvariant, PTL

\* What BlocksByColumn says of the tokens is said here with the columns as a function.
LEMMA AroundIsWithin ==
    ASSUME LexerInv, NEW n \in Int, n <= Len(tokens)
    PROVE  /\ Around(tokens, n) = Within(tokens, n, Leads)
           /\ \A p \in 1..Len(tokens) : LeadsTo(tokens, p) = Leads[tokens[p].line]
           /\ Within(tokens, n, Leads) \subseteq 1..Len(tokens)
<1>1. LexerTypeOK /\ IsSequence(tokens)
  BY DEF LexerInv, Blocks
<1>2. DOMAIN tokens = 1..Len(tokens) /\ Len(tokens) \in Nat
  BY <1>1, Concatenated
<1>3. ASSUME NEW p \in 1..Len(tokens) PROVE LeadsTo(tokens, p) = Leads[tokens[p].line]
  <2>1. tokens[p].line \in Nat
    BY <1>1, <1>2, LinesLead DEF LexerTypeOK
  <2> QED
    BY <1>1, <2>1, LinesLead DEF LeadsTo
<1>4. Places(tokens, n, "INDENT") \subseteq 1..Len(tokens)
  BY <1>2 DEF Places
<1>5. \A p \in 1..Len(tokens) : \A q \in p..n : q \in 1..Len(tokens)
  BY <1>2
<1> QED
  BY <1>3, <1>4, <1>5 DEF Around, Within

\* A block begins where a line break leads further right than all blocks around it began, and ends with
\* the first one that leads further left.
THEOREM BlocksFromColumns == LexerSpec => []BlocksByColumn
<1>1. ASSUME LexerInv PROVE BlocksByColumn
  <2>1. /\ IsSequence(tokens) /\ indents \in Seq(Nat \ {0}) /\ Increasing(indents)
        /\ Nested(tokens, Len(indents)) /\ Mirrored(tokens, Leads, indents) /\ Marked(tokens, Leads)
    BY <1>1 DEF LexerInv, Blocks
  <2>2. Len(tokens) \in Nat
    BY <2>1, Concatenated
  <2>3. ASSUME NEW p \in 1..Len(tokens)
        PROVE  tokens[p].kind = "INDENT" <=>
                   /\ p > 1 /\ tokens[p - 1].kind = "NEWLINE"
                   /\ LeadsTo(tokens, p - 1) > 0
                   /\ \A b \in Around(tokens, p - 2) : LeadsTo(tokens, p - 1) > LeadsTo(tokens, b)
    <3>1. p - 2 \in Int /\ p - 2 <= Len(tokens) /\ (p > 1 => p - 1 \in 1..Len(tokens))
      BY <2>2
    <3>2. /\ Around(tokens, p - 2) = Within(tokens, p - 2, Leads)
          /\ \A q \in 1..Len(tokens) : LeadsTo(tokens, q) = Leads[tokens[q].line]
          /\ Within(tokens, p - 2, Leads) \subseteq 1..Len(tokens)
      BY <1>1, <3>1, AroundIsWithin
    <3>3. tokens[p].kind = "INDENT" <=> Begins(tokens, p, Leads)
      BY <2>1 DEF Marked
    <3> QED
      BY <3>1, <3>2, <3>3 DEF Begins
  <2>4. Depth(tokens, Len(tokens)) = Cardinality(Around(tokens, Len(tokens)))
    <3>1. Around(tokens, Len(tokens)) = Within(tokens, Len(tokens), Leads)
      BY <1>1, <2>2, AroundIsWithin
    <3>2. Cardinality(Within(tokens, Len(tokens), Leads)) = Len(indents)
      BY <2>1, MirroredCount
    <3> QED
      BY <2>1, <3>1, <3>2 DEF Nested
  <2> QED
    BY <2>3, <2>4 DEF BlocksByColumn
<1> QED
  BY <1>1, LexerInvariant, PTL
=============================================================================
