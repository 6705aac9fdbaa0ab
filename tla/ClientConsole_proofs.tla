------------------------ MODULE ClientConsole_proofs -------------------------
(***************************************************************************)
(* What holds of the client's dialogue whatever the user types, and        *)
(* however much of it.                                                     *)
(***************************************************************************)
EXTENDS ClientConsole, SequenceTheorems, WellFoundedInduction, TLAPS

LineRows == [nr : Nat, items : Seq(Item)]

(* The lines are numbered in the order in which they were typed, and those *)
(* that were refused come before all that can still be read.               *)
Numbered ==
  /\ input \in Seq(LineRows)
  /\ typed \in Nat
  /\ \A i \in 1..Len(input) : input[i].nr <= typed
  /\ \A i, j \in 1..Len(input) : i < j => input[i].nr < input[j].nr
  /\ \A r \in refused : r \in Nat /\ r <= typed
  /\ \A r \in refused : \A i \in 1..Len(input) : r < input[i].nr

(* Their numbers are numbers. *)
LEMMA RowNumbers ==
  ASSUME Numbered
  PROVE  \A i \in 1..Len(input) : input[i].nr \in Nat
<1>1. \A i \in 1..Len(input) : input[i] \in LineRows
  BY DEF Numbered
<1>2. QED
  BY <1>1 DEF LineRows

(* A step takes the first k lines, and perhaps items of the one after them. *)
Takes(k) ==
  /\ k \in 0..Len(input)
  /\ input' \in Seq(LineRows)
  /\ Len(input') = Len(input) - k
  /\ \A i \in 1..Len(input') : input'[i].nr = input[i + k].nr

(* A nonempty set of naturals has a least element. *)
LEMMA Least ==
  ASSUME NEW T, T \subseteq Nat, T # {}
  PROVE  \E x \in T : \A y \in T : x <= y
<1> DEFINE R == OpToRel(<, Nat)
<1>1. IsWellFoundedOn(R, Nat)
  BY NatLessThanWellFounded
<1>2. \A x, y \in Nat : <<y, x>> \in R <=> y < x
  BY DEF OpToRel
<1> HIDE DEF R
<1>3. \E x \in T : \A y \in T : ~(<<y, x>> \in R)
  BY <1>1, WFMin
<1>4. PICK x \in T : \A y \in T : ~(<<y, x>> \in R)
  BY <1>3
<1>5. ASSUME NEW y \in T PROVE x <= y
  <2>1. x \in Nat /\ y \in Nat
    BY <1>4
  <2>2. ~(y < x)
    BY <1>2, <1>4, <2>1
  <2>3. QED
    BY <2>1, <2>2
<1>6. QED
  BY <1>5

(* cin >> n finds the first line that is not empty. *)
LEMMA FirstLineIs ==
  ASSUME Numbered, ~Blank
  PROVE  /\ FirstLine \in 1..Len(input)
         /\ input[FirstLine].items # <<>>
<1> DEFINE T == {i \in 1..Len(input) : input[i].items # <<>>}
<1>1. DOMAIN input = 1..Len(input) /\ Len(input) \in Nat
  BY DEF Numbered
<1>2. T # {} /\ T \subseteq Nat
  BY <1>1 DEF Blank
<1>3. PICK x \in T : \A y \in T : x <= y
  BY <1>2, Least
<1>4. \E i \in DOMAIN input :
        input[i].items # <<>> /\ \A j \in 1..i - 1 : input[j].items = <<>>
  <2>1. \A j \in 1..x - 1 : input[j].items = <<>>
    BY <1>1, <1>3
  <2>2. QED
    BY <1>1, <1>3, <2>1
<1>5. QED
  BY <1>1, <1>4 DEF FirstLine

(* The lines from the first that is not empty. *)
LEMMA SkippedIs ==
  ASSUME Numbered, ~Blank
  PROVE  /\ FirstLine \in 1..Len(input)
         /\ Skipped \in Seq(LineRows) /\ Skipped # <<>>
         /\ Len(Skipped) = Len(input) - FirstLine + 1
         /\ Head(Skipped) = input[FirstLine] /\ Head(Skipped) \in LineRows
         /\ Head(Skipped).items # <<>>
         /\ Tail(Skipped) \in Seq(LineRows)
         /\ Len(Tail(Skipped)) = Len(input) - FirstLine
         /\ \A i \in 1..Len(Tail(Skipped)) : Tail(Skipped)[i] = input[i + FirstLine]
<1> DEFINE f == FirstLine
<1>1. f \in 1..Len(input) /\ input[f].items # <<>> /\ Len(input) \in Nat
      /\ input \in Seq(LineRows)
  BY FirstLineIs DEF Numbered
<1> HIDE DEF f
<1>2. \A i \in f..Len(input) : input[i] \in LineRows
  BY <1>1
<1> DEFINE s == SubSeq(input, f, Len(input))
<1>3. /\ s \in Seq(LineRows)
      /\ Len(s) = Len(input) - f + 1
      /\ \A i \in 1..Len(input) - f + 1 : s[i] = input[f + i - 1]
  BY <1>1, <1>2, SubSeqProperties
<1> HIDE DEF s
<1>4. s # <<>> /\ Head(s) = s[1] /\ s[1] = input[f]
  BY <1>1, <1>3
<1>5. /\ Tail(s) \in Seq(LineRows)
      /\ Len(Tail(s)) = Len(input) - f
      /\ \A i \in 1..Len(Tail(s)) : Tail(s)[i] = s[i + 1]
  BY <1>1, <1>3, <1>4, HeadTailProperties
<1>6. \A i \in 1..Len(Tail(s)) : Tail(s)[i] = input[i + f]
  BY <1>1, <1>3, <1>5
<1>7. input[f] \in LineRows
  BY <1>1
<1>8. s = Skipped
  BY DEF s, f, Skipped
<1>9. QED
  BY <1>1, <1>3, <1>4, <1>5, <1>6, <1>7, <1>8 DEF f

(* Behind a line that is the last there is nothing. *)
LEMMA OneLeft ==
  ASSUME Numbered, ~Blank, Len(Skipped) = 1
  PROVE  Tail(Skipped) = <<>>
<1> DEFINE t == Tail(Skipped)
<1>1. t \in Seq(LineRows) /\ Len(t) = Len(Skipped) - 1
  BY SkippedIs DEF Numbered
<1>2. Len(t) = 0
  BY <1>1
<1> HIDE DEF t
<1>3. t = <<>>
  BY <1>1, <1>2, EmptySeq
<1>4. QED
  BY <1>3 DEF t

(* What cin >> n leaves when it finds a number. *)
LEMMA NumberTaken ==
  ASSUME Numbered, TakeNumber
  PROVE  \E k : Takes(k)
<1> DEFINE line == Rest(Head(Skipped))
           f == FirstLine
<1>1. ~Blank
  BY DEF TakeNumber
<1>2. line \in LineRows /\ line.nr = input[f].nr
  <2>1. PICK row \in LineRows : row = Head(Skipped) /\ row = input[f] /\ row.items # <<>>
    BY <1>1, SkippedIs
  <2>2. Tail(row.items) \in Seq(Item)
    BY <2>1 DEF LineRows
  <2>3. QED
    BY <2>1, <2>2 DEF Rest, LineRows
<1> DEFINE t == Tail(Skipped)
<1>3. /\ f \in 1..Len(input) /\ Len(input) \in Nat
      /\ t \in Seq(LineRows) /\ Len(t) = Len(input) - f
      /\ \A i \in 1..Len(t) : t[i] = input[i + f]
  BY <1>1, SkippedIs DEF Numbered
<1>4. input' = <<>> \o t \/ input' = <<line>> \o t
  BY DEF TakeNumber
<1> HIDE DEF line, f, t
<1>5. CASE input' = <<>> \o t
  <2>1. input' = t
    BY <1>3, <1>5
  <2>2. Takes(f)
    BY <1>3, <2>1 DEF Takes
  <2>3. QED
    BY <2>2
<1>6. CASE input' = <<line>> \o t
  <2>1. <<line>> \in Seq(LineRows) /\ Len(<<line>>) = 1 /\ <<line>>[1] = line
    BY <1>2
  <2>2. /\ input' \in Seq(LineRows)
        /\ Len(input') = 1 + Len(t)
        /\ \A i \in 1..1 + Len(t) : input'[i] = IF i <= 1 THEN <<line>>[i] ELSE t[i - 1]
    BY <1>3, <1>6, <2>1, ConcatProperties, ZenonT(40)
  <2>3. \A i \in 1..1 + Len(t) : input'[i].nr = input[i + (f - 1)].nr
    <3>1. input'[1].nr = input[1 + (f - 1)].nr
      BY <1>2, <1>3, <2>1, <2>2
    <3>2. ASSUME NEW i \in 1..1 + Len(t), i # 1
          PROVE  input'[i].nr = input[i + (f - 1)].nr
      <4>1. i - 1 \in 1..Len(t) /\ (i - 1) + f = i + (f - 1) /\ ~(i <= 1)
        BY <1>3, <3>2
      <4>2. input'[i] = t[i - 1]
        BY <2>2, <4>1
      <4>3. QED
        BY <1>3, <4>1, <4>2
    <3>3. QED
      BY <3>1, <3>2
  <2>4. Takes(f - 1)
    BY <1>3, <2>2, <2>3 DEF Takes
  <2>5. QED
    BY <2>4
<1>7. QED
  BY <1>4, <1>5, <1>6

(* What getline, or cin.ignore(), leaves when it takes the first line. *)
LEMMA LineTaken ==
  ASSUME Numbered, input # <<>>, input' = Tail(input)
  PROVE  Takes(1)
<1>1. /\ Tail(input) \in Seq(LineRows) /\ Len(Tail(input)) = Len(input) - 1
      /\ \A i \in 1..Len(Tail(input)) : Tail(input)[i] = input[i + 1]
      /\ Len(input) \in Nat \ {0}
  BY HeadTailProperties DEF Numbered
<1>2. QED
  BY <1>1 DEF Takes

(* Nothing, or everything, is taken. *)
LEMMA NoneOrAllTaken ==
  ASSUME Numbered
  PROVE  /\ input' = input => Takes(0)
         /\ input' = <<>> => Takes(Len(input))
<1>1. input \in Seq(LineRows) /\ Len(input) \in Nat
  BY DEF Numbered
<1>2. input' = input => Takes(0)
  BY <1>1 DEF Takes
<1>3. ASSUME input' = <<>> PROVE Takes(Len(input))
  BY <1>1, <1>3 DEF Takes
<1>4. QED
  BY <1>2, <1>3

(* Taking lines keeps the order, and so does refusing one that was taken. *)
LEMMA TakesKeep ==
  ASSUME Numbered, NEW k, Takes(k), typed' = typed,
         refused' = refused \/ (k >= 1 /\ refused' = refused \cup {input[k].nr})
  PROVE  Numbered'
<1>1. /\ k \in Nat /\ k <= Len(input) /\ Len(input) \in Nat /\ Len(input') = Len(input) - k
      /\ \A i \in 1..Len(input') : i + k \in 1..Len(input) /\ input'[i].nr = input[i + k].nr
  BY DEF Takes, Numbered
<1>2. \A i \in 1..Len(input) : input[i].nr \in Nat
  BY RowNumbers
<1>3. input' \in Seq(LineRows) /\ typed' \in Nat
  BY DEF Takes, Numbered
<1>4. \A i \in 1..Len(input') : input'[i].nr <= typed'
  BY <1>1 DEF Numbered
<1>5. \A i, j \in 1..Len(input') : i < j => input'[i].nr < input'[j].nr
  <2>1. SUFFICES ASSUME NEW i \in 1..Len(input'), NEW j \in 1..Len(input'), i < j
                 PROVE  input'[i].nr < input'[j].nr
    OBVIOUS
  <2>2. i + k < j + k /\ i + k \in 1..Len(input) /\ j + k \in 1..Len(input)
    BY <1>1, <2>1
  <2>3. QED
    BY <1>1, <2>2 DEF Numbered
<1>6. ASSUME NEW r \in refused'
      PROVE  /\ r \in Nat /\ r <= typed'
             /\ \A i \in 1..Len(input') : r < input'[i].nr
  <2>1. CASE r \in refused
    BY <1>1, <2>1 DEF Numbered
  <2>2. CASE r \notin refused
    <3>1. k \in 1..Len(input) /\ r = input[k].nr
      BY <1>1, <1>6, <2>2
    <3>2. ASSUME NEW i \in 1..Len(input')
          PROVE  r < input'[i].nr
      <4>1. k < i + k /\ i + k \in 1..Len(input)
        BY <1>1
      <4>2. QED
        BY <1>1, <3>1, <4>1 DEF Numbered
    <3>3. QED
      BY <1>2, <3>1, <3>2 DEF Numbered
  <2>3. QED
    BY <2>1, <2>2
<1>7. QED
  BY <1>3, <1>4, <1>5, <1>6 DEF Numbered

(* A line that is refused is taken, with all before it. *)
LEMMA RefusedTaken ==
  ASSUME Numbered, RefuseLine
  PROVE  \E k : Takes(k) /\ k >= 1 /\ refused' = refused \cup {input[k].nr}
<1> DEFINE f == FirstLine
<1>1. ~Blank /\ input' = Tail(Skipped) /\ refused' = refused \cup {Head(Skipped).nr}
  BY DEF RefuseLine, Refuses
<1>2. Takes(f) /\ f >= 1
  BY <1>1, SkippedIs DEF Takes, Numbered
<1>3. Head(Skipped).nr = input[f].nr
  BY <1>1, SkippedIs
<1>4. QED
  BY <1>1, <1>2, <1>3

(* The numbers of the lines stay in order, whatever is typed and read. *)
LEMMA NumberedStep ==
  ASSUME Numbered, [Next]_vars
  PROVE  Numbered'
<1>1. CASE UNCHANGED vars
  BY <1>1 DEF Numbered, vars
<1>2. CASE ClientNext
  <2>1. typed' = typed
    BY <1>2 DEF ClientNext, userVars
  <2>2. CASE RefuseLine
    BY <2>1, <2>2, RefusedTaken, TakesKeep
  <2>3. CASE refused' = refused /\ \E k : Takes(k)
    BY <2>1, <2>3, TakesKeep
  <2>4. CASE refused' = refused /\ TakeNumber
    BY <2>3, <2>4, NumberTaken
  <2>5. CASE refused' = refused /\ (NoNumber \/ GetLine)
    <3>1. input' = <<>> \/ input' = input \/ (input # <<>> /\ input' = Tail(input))
      BY <2>5 DEF NoNumber, GetLine
    <3>2. QED
      BY <2>3, <2>5, <3>1, NoneOrAllTaken, LineTaken
  <2>6. CASE ReadCommand
    BY <2>2, <2>4, <2>5, <2>6 DEF ReadCommand
  <2>7. CASE read_int_cin
    BY <2>2, <2>4, <2>5, <2>7 DEF read_int_cin
  <2>8. CASE read_line_cin
    BY <2>5, <2>8 DEF read_line_cin
  <2>9. CASE ReadText
    BY <2>5, <2>9 DEF ReadText
  <2>10. CASE Ignore
    <3>1. input' = input \/ (input # <<>> /\ input' = Tail(input))
      BY <2>10 DEF Ignore
    <3>2. QED
      BY <2>3, <2>10, <3>1, NoneOrAllTaken, LineTaken DEF Ignore
  <2>11. CASE Exchange
    BY <2>3, <2>11, NoneOrAllTaken DEF Exchange
  <2>12. QED
    BY <1>2, <2>6, <2>7, <2>8, <2>9, <2>10, <2>11 DEF ClientNext
<1>3. CASE UserNext
  <2>1. refused' = refused
    BY <1>3 DEF UserNext
  <2>2. CASE input' = input /\ typed' = typed
    BY <2>1, <2>2 DEF Numbered
  <2>3. ASSUME NEW line \in Lines, Type(line)
        PROVE  Numbered'
    <3> DEFINE new == [nr |-> typed + 1, items |-> line]
    <3>1. input' = Append(input, new) /\ typed' = typed + 1
      BY <2>3 DEF Type
    <3>2. new \in LineRows /\ new.nr = typed + 1
      BY LinesAssumption DEF Numbered, LineRows
    <3>3. input \in Seq(LineRows) /\ Len(input) \in Nat
      BY DEF Numbered
    <3> HIDE DEF new
    <3>4. /\ input' \in Seq(LineRows) /\ Len(input') = Len(input) + 1
          /\ \A i \in 1..Len(input) : input'[i] = input[i]
          /\ input'[Len(input) + 1] = new
      BY <3>1, <3>2, <3>3, AppendProperties
    <3>5. ASSUME NEW i \in 1..Len(input')
          PROVE  (i \in 1..Len(input) /\ input'[i] = input[i]) \/ input'[i] = new
      <4>1. i \in 1..Len(input) \/ i = Len(input) + 1
        BY <3>3, <3>4
      <4>2. QED
        BY <3>4, <4>1
    <3>6. \A i \in 1..Len(input) : input[i].nr \in Nat
      BY RowNumbers
    <3>7. \A i \in 1..Len(input') : input'[i].nr <= typed'
      BY <3>1, <3>2, <3>5, <3>6 DEF Numbered
    <3>8. \A i, j \in 1..Len(input') : i < j => input'[i].nr < input'[j].nr
      <4>1. SUFFICES ASSUME NEW i \in 1..Len(input'), NEW j \in 1..Len(input'), i < j
                     PROVE  input'[i].nr < input'[j].nr
        OBVIOUS
      <4>2. i \in 1..Len(input) /\ input'[i] = input[i]
        BY <3>3, <3>4, <4>1
      <4>3. CASE j \in 1..Len(input)
        BY <3>4, <4>1, <4>2, <4>3 DEF Numbered
      <4>4. CASE j = Len(input) + 1
        <5>1. input[i].nr <= typed /\ input[i].nr \in Nat /\ typed \in Nat
          BY <3>6, <4>2 DEF Numbered
        <5>2. QED
          BY <3>2, <3>4, <4>2, <4>4, <5>1
      <4>5. QED
        BY <3>3, <3>4, <4>3, <4>4
    <3>9. ASSUME NEW r \in refused'
          PROVE  /\ r \in Nat /\ r <= typed'
                 /\ \A i \in 1..Len(input') : r < input'[i].nr
      BY <2>1, <3>1, <3>2, <3>5 DEF Numbered
    <3>10. QED
      BY <3>1, <3>4, <3>7, <3>8, <3>9 DEF Numbered
  <2>4. QED
    BY <1>3, <2>2, <2>3 DEF UserNext
<1>4. QED
  BY <1>1, <1>2, <1>3 DEF Next

(* Nothing is typed yet. *)
LEMMA NumberedInit == Init => Numbered
BY DEF Init, Numbered, LineRows

(* Whatever is typed ahead, nothing of a refused line is left to answer    *)
(* another prompt or to be taken for a command.                            *)
THEOREM RefusedLinesAreGone == Spec => []RefusedIsGone
<1>1. Numbered => RefusedIsGone
  <2>1. SUFFICES ASSUME Numbered, NEW i \in DOMAIN input, input[i].nr \in refused
                 PROVE  FALSE
    BY DEF RefusedIsGone
  <2>2. i \in 1..Len(input) /\ input[i].nr \in Nat
    BY <2>1 DEF Numbered, LineRows
  <2>3. input[i].nr < input[i].nr
    BY <2>1, <2>2 DEF Numbered
  <2>4. QED
    BY <2>2, <2>3
<1>2. QED
  BY <1>1, NumberedInit, NumberedStep, PTL DEF Spec

-----------------------------------------------------------------------------
(* TypeOK in three parts: the input, the dialogue, and the text.           *)
InputKnown ==
  /\ eof => closed /\ input = <<>>
  /\ cut => closed
  /\ Len(input) <= typed /\ typed \in 0..MaxLines
  /\ stage \in {"running", "exited", "aborted"}

DialogueKnown ==
  /\ command \in 0..Len(Prompts)
  /\ IF command = 0 THEN prompts = <<>>
     ELSE \E n \in 0..Len(Prompts[command]) :
            prompts = SubSeq(Prompts[command], n + 1, Len(Prompts[command]))

TextKnown == text # {} => command = 5 /\ (prompts = <<>> \/ At("text"))

(* Nothing has no length.                                                  *)
LEMMA LenOfNone == Len(<<>>) = 0
OBVIOUS

(* What a handler reads from cin. *)
Reads == {"int", "ignore", "line", "text"}

(* Where a text and a last line are asked for. *)
LEMMA PromptsAre ==
  /\ Len(Prompts) = 7 /\ DOMAIN Prompts = 1..7
  /\ \A c \in 1..7 : Prompts[c] \in Seq(Reads) /\ Len(Prompts[c]) \in Nat
  /\ \A c \in 1..7 : \A i \in 1..Len(Prompts[c]) :
       Prompts[c][i] = "text" => c = 5 /\ i = Len(Prompts[c])
  /\ \A c \in {2, 5} : Len(Prompts[c]) > 0 /\ Prompts[c][Len(Prompts[c])] \in {"line", "text"}
<1>1. Len(Prompts) = 7
  BY DEF Prompts
<1>2. /\ Prompts[1] = <<>>
      /\ Prompts[2] = <<"ignore", "line">>
      /\ Prompts[3] = <<"int">>
      /\ Prompts[4] = <<"int">>
      /\ Prompts[5] = <<"int", "ignore", "line", "line", "text">>
      /\ Prompts[6] = <<"int", "int">>
      /\ Prompts[7] = <<"int", "int">>
  BY DEF Prompts
<1>3. ASSUME NEW c \in 1..7
      PROVE  Prompts[c] \in Seq(Reads) /\ Len(Prompts[c]) \in Nat
  <2>1. /\ <<>> \in Seq(Reads) /\ Len(<<>>) \in Nat
        /\ <<"int">> \in Seq(Reads) /\ Len(<<"int">>) \in Nat
        /\ <<"int", "int">> \in Seq(Reads) /\ Len(<<"int", "int">>) \in Nat
    BY DEF Reads
  <2>2. <<"ignore", "line">> \in Seq(Reads) /\ Len(<<"ignore", "line">>) \in Nat
    BY DEF Reads
  <2>3. /\ <<"int", "ignore", "line", "line", "text">> \in Seq(Reads)
        /\ Len(<<"int", "ignore", "line", "line", "text">>) \in Nat
    BY DEF Reads
  <2>4. c = 1 \/ c = 2 \/ c = 3 \/ c = 4 \/ c = 5 \/ c = 6 \/ c = 7
    OBVIOUS
  <2>5. QED
    BY <1>2, <2>1, <2>2, <2>3, <2>4, Zenon
<1>4. ASSUME NEW c \in 1..7, NEW i \in 1..Len(Prompts[c]), Prompts[c][i] = "text"
      PROVE  c = 5 /\ i = Len(Prompts[c])
  <2>1. c = 1 \/ c = 2 \/ c = 3 \/ c = 4 \/ c = 5 \/ c = 6 \/ c = 7
    OBVIOUS
  <2>2. c = 5
    BY <1>2, <1>4, <2>1
  <2>3. Len(Prompts[5]) = 5
    BY <1>2
  <2>4. i = 1 \/ i = 2 \/ i = 3 \/ i = 4 \/ i = 5
    BY <2>2, <2>3
  <2>5. i = 5
    BY <1>2, <1>4, <2>2, <2>4
  <2>6. QED
    BY <2>2, <2>3, <2>5
<1>5. /\ Len(Prompts[2]) = 2 /\ Prompts[2][2] = "line"
      /\ Len(Prompts[5]) = 5 /\ Prompts[5][5] = "text"
  BY <1>2
<1>6. DOMAIN Prompts = 1..7
  BY DEF Prompts
<1>7. ASSUME NEW c \in {2, 5}
      PROVE  Len(Prompts[c]) > 0 /\ Prompts[c][Len(Prompts[c])] \in {"line", "text"}
  <2>1. CASE c = 2
    BY <1>5, <2>1
  <2>2. CASE c = 5
    BY <1>5, <2>2
  <2>3. QED
    BY <2>1, <2>2
<1>8. QED
  BY <1>1, <1>3, <1>4, <1>6, <1>7

(* The prompt that is answered, and those that come after it. *)
LEMMA PromptNext ==
  ASSUME DialogueKnown, prompts # <<>>
  PROVE  /\ command \in 1..7
         /\ \E n \in 1..Len(Prompts[command]) :
              /\ Head(prompts) = Prompts[command][n]
              /\ Tail(prompts) = SubSeq(Prompts[command], n + 1, Len(Prompts[command]))
              /\ Tail(prompts) = <<>> <=> n = Len(Prompts[command])
<1>1. command \in 1..7
  BY PromptsAre DEF DialogueKnown
<1> DEFINE p == Prompts[command]
<1>2. p \in Seq(Reads) /\ Len(p) \in Nat
  BY <1>1, PromptsAre
<1>3. PICK m \in 0..Len(p) : prompts = SubSeq(p, m + 1, Len(p))
  BY <1>1 DEF DialogueKnown
<1> HIDE DEF p
<1>4. m < Len(p)
  BY <1>2, <1>3, SubSeqEmpty
<1> DEFINE n == m + 1
<1>5. n \in 1..Len(p) /\ prompts = SubSeq(p, n, Len(p))
  BY <1>2, <1>3, <1>4
<1> HIDE DEF n
<1>6. Head(prompts) = p[n] /\ Tail(prompts) = SubSeq(p, n + 1, Len(p))
  BY <1>2, <1>5, HeadTailOfSubSeq
<1>7. \A i \in n + 1..Len(p) : p[i] \in Reads
  BY <1>2, <1>5
<1>8. Len(Tail(prompts)) = IF n + 1 <= Len(p) THEN Len(p) - n ELSE 0
  BY <1>2, <1>5, <1>6, <1>7, SubSeqProperties
<1>9. Tail(prompts) = <<>> <=> n = Len(p)
  <2>1. CASE n = Len(p)
    BY <1>2, <1>5, <1>6, <2>1, SubSeqEmpty
  <2>2. CASE n < Len(p)
    <3> DEFINE t == Tail(prompts)
    <3>1. Len(t) # 0
      BY <1>2, <1>5, <1>8, <2>2
    <3> HIDE DEF t
    <3>2. t # <<>>
      BY <3>1, LenOfNone
    <3>3. QED
      BY <1>2, <1>5, <2>2, <3>2 DEF t
  <2>3. QED
    BY <1>2, <1>5, <2>1, <2>2
<1>10. QED
  BY <1>1, <1>5, <1>6, <1>9 DEF p

(* A text is asked for last, for command 5 only; the last answer to        *)
(* commands 2 and 5 is a line or a text.                                   *)
LEMMA WhereTextAndLine ==
  ASSUME DialogueKnown, prompts # <<>>
  PROVE  /\ At("text") => command = 5 /\ Tail(prompts) = <<>>
         /\ command \in {2, 5} /\ Tail(prompts) = <<>> => At("line") \/ At("text")
BY PromptNext, PromptsAre DEF At

(* An answer leads to the next prompt of the same command. *)
LEMMA AnsweredKeeps ==
  ASSUME DialogueKnown, TextKnown, prompts # <<>>, Answered
  PROVE  DialogueKnown' /\ TextKnown'
<1>1. PICK n \in 1..Len(Prompts[command]) :
        /\ Tail(prompts) = SubSeq(Prompts[command], n + 1, Len(Prompts[command]))
  BY PromptNext
<1>2. command \in 1..7 /\ command' = command /\ prompts' = Tail(prompts) /\ text' = text
  BY PromptNext DEF Answered
<1>3. DialogueKnown'
  <2>1. Len(Prompts[command]) \in Nat
    BY <1>2, PromptsAre
  <2>2. n \in 0..Len(Prompts[command])
    BY <2>1
  <2>3. command \in 0..Len(Prompts) /\ command # 0
    BY <1>2, PromptsAre
  <2>4. QED
    BY <1>1, <1>2, <2>2, <2>3 DEF DialogueKnown
<1>4. TextKnown'
  <2>1. text # {} => command = 5 /\ Tail(prompts) = <<>>
    BY WhereTextAndLine DEF TextKnown
  <2>2. QED
    BY <1>2, <2>1 DEF TextKnown
<1>5. QED
  BY <1>3, <1>4

(* Back at the menu, nothing is kept. *)
LEMMA MenuKeeps ==
  ASSUME ToMenu
  PROVE  DialogueKnown' /\ TextKnown'
BY PromptsAre DEF ToMenu, DialogueKnown, TextKnown

(* Where nothing of the dialogue changes. *)
LEMMA SameKeeps ==
  ASSUME DialogueKnown, TextKnown, UNCHANGED dialogueVars
  PROVE  DialogueKnown' /\ TextKnown'
BY DEF dialogueVars, DialogueKnown, TextKnown, At

(* Every command is asked for by its own prompts, in their order, and a    *)
(* text exists only while it is read or about to be sent.                  *)
LEMMA DialogueStep ==
  ASSUME DialogueKnown, TextKnown, [Next]_vars
  PROVE  DialogueKnown' /\ TextKnown'
<1>1. CASE UNCHANGED dialogueVars
  BY <1>1, SameKeeps
<1>2. CASE ReadCommand
  <2>1. ASSUME NEW n \in DOMAIN Prompts, command = 0,
               command' = n /\ prompts' = Prompts[n] /\ UNCHANGED text
        PROVE  DialogueKnown' /\ TextKnown'
    <3>1. n \in 1..7 /\ Prompts[n] \in Seq(Reads)
      BY PromptsAre
    <3>2. prompts' = SubSeq(Prompts[n], 0 + 1, Len(Prompts[n]))
      BY <2>1, <3>1, SubSeqFull
    <3>3. 0 \in 0..Len(Prompts[n]) /\ command' \in 0..Len(Prompts) /\ command' # 0
      BY <2>1, <3>1, PromptsAre, SMTT(30)
    <3>4. DialogueKnown'
      BY <2>1, <3>2, <3>3 DEF DialogueKnown
    <3>5. text' = {}
      BY <2>1 DEF TextKnown
    <3>6. QED
      BY <3>4, <3>5 DEF TextKnown
  <2>2. CASE ToMenu
    BY <2>2, MenuKeeps
  <2>3. QED
    BY <1>1, <1>2, <2>1, <2>2 DEF ReadCommand, End
<1>3. ASSUME prompts # <<>>, Answered
      PROVE  DialogueKnown' /\ TextKnown'
  BY <1>3, AnsweredKeeps
<1>4. ASSUME NEW how, End(how)
      PROVE  DialogueKnown' /\ TextKnown'
  BY <1>4, MenuKeeps DEF End
<1>5. CASE At("int") /\ read_int_cin
  BY <1>1, <1>3, <1>4, <1>5 DEF read_int_cin, At
<1>6. CASE At("ignore") /\ Ignore
  BY <1>3, <1>6 DEF Ignore, At
<1>7. CASE At("line") /\ read_line_cin
  BY <1>1, <1>3, <1>4, <1>7 DEF read_line_cin, At
<1>8. CASE At("text") /\ ReadText
  <2>1. CASE TextEnds
    BY <1>3, <1>4, <1>8, <2>1 DEF TextEnds, At
  <2>2. CASE UNCHANGED <<command, prompts>>
    <3>1. command = 5
      BY <1>8, WhereTextAndLine DEF At
    <3>2. QED
      BY <1>8, <2>2, <3>1 DEF DialogueKnown, TextKnown, At
  <2>3. QED
    BY <1>8, <2>1, <2>2 DEF ReadText
<1>9. CASE Exchange
  BY <1>4, <1>9, MenuKeeps DEF Exchange
<1>10. CASE UserNext
  BY <1>1, <1>10 DEF UserNext
<1>11. QED
  BY <1>1, <1>2, <1>5, <1>6, <1>7, <1>8, <1>9, <1>10 DEF Next, ClientNext, vars, dialogueVars

(* cin.eof() is set only when all was read, and the user types no more     *)
(* once the input has ended.                                               *)
LEMMA InputStep ==
  ASSUME Numbered, InputKnown, [Next]_vars
  PROVE  InputKnown'
<1>0. Len(input) \in Nat /\ typed \in Nat
  BY DEF Numbered
<1>1. CASE UNCHANGED vars
  BY <1>1 DEF InputKnown, vars
<1>2. CASE ClientNext
  <2>1. UNCHANGED userVars
    BY <1>2 DEF ClientNext
  <2>2. stage' \in {"running", "exited", "aborted"}
    BY <1>2 DEF ClientNext, ReadCommand, read_int_cin, Ignore, read_line_cin, ReadText, TextEnds,
                Exchange, End, Answered, InputKnown
  <2>3. ASSUME NEW k, Takes(k), eof' => closed /\ input' = <<>>
        PROVE  InputKnown'
    <3>1. Len(input') \in Nat /\ Len(input') <= Len(input)
      BY <1>0, <2>3 DEF Takes
    <3>2. Len(input') <= typed'
      BY <1>0, <2>1, <3>1 DEF InputKnown, userVars
    <3>3. QED
      BY <2>1, <2>2, <2>3, <3>2 DEF InputKnown, userVars
  <2>4. CASE TakeNumber
    <3>1. PICK k : Takes(k)
      BY <2>4, NumberTaken
    <3>2. eof' => closed /\ input' = <<>>
      <4>1. SUFFICES ASSUME eof' PROVE closed /\ input' = <<>>
        OBVIOUS
      <4>2. cut /\ Len(Skipped) = 1 /\ input' = <<>> \o Tail(Skipped)
        BY <2>4, <4>1 DEF TakeNumber
      <4>3. ~Blank
        BY <2>4 DEF TakeNumber
      <4>4. Tail(Skipped) = <<>>
        BY <4>2, <4>3, OneLeft
      <4>5. QED
        BY <4>2, <4>4 DEF InputKnown
    <3>3. QED
      BY <2>3, <3>1, <3>2
  <2>5. CASE RefuseLine
    <3>1. PICK k : Takes(k)
      BY <2>5, RefusedTaken
    <3>2. eof' => closed /\ input' = <<>>
      <4>1. SUFFICES ASSUME eof' PROVE closed /\ input' = <<>>
        OBVIOUS
      <4>2. cut /\ Len(Skipped) = 1 /\ input' = Tail(Skipped) /\ ~Blank
        BY <2>5, <4>1 DEF RefuseLine, Refuses
      <4>3. Tail(Skipped) = <<>>
        BY <4>2, OneLeft
      <4>4. QED
        BY <4>2, <4>3 DEF InputKnown
    <3>3. QED
      BY <2>3, <3>1, <3>2
  <2>6. CASE NoNumber
    BY <2>3, <2>6, NoneOrAllTaken DEF NoNumber
  <2>7. CASE GetLine
    <3>1. CASE input = <<>> /\ closed /\ UNCHANGED input
      BY <2>3, <3>1, NoneOrAllTaken
    <3>2. CASE input # <<>> /\ input' = Tail(input) /\ eof' = (cut /\ Len(input) = 1)
      <4>1. Takes(1)
        BY <3>2, LineTaken
      <4>2. eof' => closed /\ input' = <<>>
        <5>1. SUFFICES ASSUME eof' PROVE closed /\ input' = <<>>
          OBVIOUS
        <5>2. cut /\ Len(input) = 1
          BY <3>2, <5>1
        <5>3. Tail(input) = <<>>
          BY <3>2, <5>2, HeadTailProperties DEF Numbered
        <5>4. QED
          BY <3>2, <5>2, <5>3 DEF InputKnown
      <4>3. QED
        BY <2>3, <4>1, <4>2
    <3>3. QED
      BY <2>7, <3>1, <3>2 DEF GetLine
  <2>8. CASE Ignore
    <3>1. CASE input' = input
      BY <2>3, <2>8, <3>1, NoneOrAllTaken DEF Ignore, InputKnown
    <3>2. CASE input # <<>> /\ input' = Tail(input)
      <4>1. ~eof'
        BY <2>8, <3>2 DEF Ignore, InputKnown
      <4>2. QED
        BY <2>3, <3>2, <4>1, LineTaken
    <3>3. QED
      BY <2>8, <3>1, <3>2 DEF Ignore
  <2>9. CASE Exchange
    BY <2>3, <2>9, NoneOrAllTaken DEF Exchange, InputKnown
  <2>10. QED
    BY <1>2, <2>4, <2>5, <2>6, <2>7, <2>8, <2>9
       DEF ClientNext, ReadCommand, read_int_cin, read_line_cin, ReadText
<1>3. CASE UserNext
  <2>1. ~closed /\ UNCHANGED <<eof, stage>> /\ ~eof /\ ~cut
    BY <1>3 DEF UserNext, InputKnown
  <2>2. CASE UNCHANGED <<input, typed, cut>>
    BY <2>1, <2>2 DEF InputKnown
  <2>3. ASSUME NEW line \in Lines, Type(line), cut' => closed'
        PROVE  InputKnown'
    <3> DEFINE new == [nr |-> typed + 1, items |-> line]
    <3>1. input' = Append(input, new) /\ typed' = typed + 1 /\ typed < MaxLines
      BY <2>3 DEF Type
    <3>2. Len(input') = Len(input) + 1
      BY <3>1, AppendProperties DEF Numbered
    <3>3. typed' \in 0..MaxLines /\ Len(input') <= typed'
      BY <1>0, <3>1, <3>2, LinesAssumption DEF InputKnown
    <3>4. QED
      BY <2>1, <2>3, <3>3 DEF InputKnown
  <2>4. QED
    BY <1>3, <2>1, <2>2, <2>3 DEF UserNext
<1>4. QED
  BY <1>1, <1>2, <1>3 DEF Next

(* Nothing is typed, and nothing asked for. *)
LEMMA KnownInit == Init => InputKnown /\ DialogueKnown /\ TextKnown
BY LinesAssumption, PromptsAre DEF Init, InputKnown, DialogueKnown, TextKnown

(* cin.eof() tells the truth, and the dialogue is that of a command of the *)
(* menu, whatever the user types and wherever the input ends.              *)
THEOREM TypeCorrect == Spec => []TypeOK
<1>1. InputKnown /\ DialogueKnown /\ TextKnown => TypeOK
  BY DEF InputKnown, DialogueKnown, TextKnown, TypeOK
<1>2. QED
  BY <1>1, NumberedInit, NumberedStep, KnownInit, InputStep, DialogueStep, PTL DEF Spec

(* Only a line or a text makes commands 2 and 5 complete, and only where   *)
(* the input has not ended.                                                *)
LEMMA CutOffStep ==
  ASSUME DialogueKnown, CutOffIsNotSent, [Next]_vars
  PROVE  CutOffIsNotSent'
<1>1. CASE UNCHANGED <<dialogueVars, eof>>
  BY <1>1 DEF CutOffIsNotSent, dialogueVars
<1>2. CASE ToMenu
  BY <1>2 DEF ToMenu, CutOffIsNotSent
<1>3. CASE ReadCommand
  <2>1. ASSUME NEW n \in DOMAIN Prompts, command' = n /\ prompts' = Prompts[n]
        PROVE  CutOffIsNotSent'
    <3>1. n \in {2, 5} => Prompts[n] # <<>>
      BY DEF Prompts
    <3>2. QED
      BY <2>1, <3>1 DEF CutOffIsNotSent
  <2>2. CASE command = 0 /\ UNCHANGED dialogueVars
    BY <2>2 DEF CutOffIsNotSent, dialogueVars
  <2>3. QED
    BY <1>2, <1>3, <2>1, <2>2 DEF ReadCommand, End
<1>4. ASSUME prompts # <<>>, UNCHANGED dialogueVars
      PROVE  CutOffIsNotSent'
  BY <1>4 DEF CutOffIsNotSent, dialogueVars
<1>5. ASSUME prompts # <<>>, Answered, ~eof' \/ At("int") \/ At("ignore")
      PROVE  CutOffIsNotSent'
  <2>1. ~eof' \/ (~At("line") /\ ~At("text"))
    BY <1>5 DEF At
  <2>2. QED
    BY <1>5, <2>1, WhereTextAndLine DEF Answered, CutOffIsNotSent
<1>6. CASE At("int") /\ read_int_cin
  BY <1>2, <1>4, <1>5, <1>6 DEF read_int_cin, At, End
<1>7. CASE At("ignore") /\ Ignore
  BY <1>5, <1>7 DEF Ignore, At
<1>8. CASE At("line") /\ read_line_cin
  BY <1>2, <1>4, <1>5, <1>8 DEF read_line_cin, At, End
<1>9. CASE At("text") /\ ReadText
  <2>1. CASE TextEnds
    BY <1>2, <1>5, <1>9, <2>1 DEF TextEnds, At, End
  <2>2. CASE prompts' = prompts
    BY <1>9, <2>2 DEF CutOffIsNotSent, At
  <2>3. QED
    BY <1>9, <2>1, <2>2 DEF ReadText
<1>10. CASE Exchange
  BY <1>2, <1>10 DEF Exchange, End
<1>11. CASE UserNext
  BY <1>1, <1>11 DEF UserNext
<1>12. QED
  BY <1>1, <1>3, <1>6, <1>7, <1>8, <1>9, <1>10, <1>11 DEF Next, ClientNext, vars, dialogueVars

(* A name, title, author or text that the end of the input cut off is      *)
(* never sent, however the lines before it were typed.                     *)
THEOREM NothingCutOffIsSent == Spec => []CutOffIsNotSent
<1>1. Init => CutOffIsNotSent
  BY DEF Init, CutOffIsNotSent
<1>2. QED
  BY <1>1, KnownInit, DialogueStep, CutOffStep, PTL DEF Spec

=============================================================================
