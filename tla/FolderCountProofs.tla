-------------------------- MODULE FolderCountProofs --------------------------
(***************************************************************************)
(* From the tree to the counts (FolderCounted), for every tree, any limit  *)
(* of descriptors, any texts and any number of files.  In three parts:     *)
(* what a reader computes of one text (ReaderInv); what the walks find,    *)
(* for which the calls under way are the directories above the innermost,  *)
(* and what is still to come is what lies ahead of them (WalkInv); and     *)
(* that the counts are the sum over the files passed (FolderInv).          *)
(***************************************************************************)
EXTENDS FolderCount, FiniteSums, FiniteSetTheorems, WellFoundedInduction, TLAPS

(***************************************************************************)
(* The reader.  It knows in the middle of a file whether the white space   *)
(* it has just passed is odd or even in number, and in the middle of a     *)
(* line where fgets cut it.                                                *)
(***************************************************************************)
\* White space of even length, or none, ends before position k.
EvenRun(k) ==
  \E j \in 2 .. k :
    /\ \A n \in j .. k - 1 : IsSpace(text, n)
    /\ j > 2 => ~IsSpace(text, j - 1)
    /\ (k - j) % 2 = 0

\* The letters l counted before position p.
Done(l, p) == {k \in DOMAIN text : k < p /\ text[k] = l /\ Counted(text, k)}

\* A file's reader: between characters the run behind it is even, after a white
\* space that stands apart it is odd.
FileInv ==
  /\ pc \in {"first", "loop", "after"} => unit = "file"
  /\ pc = "first" => pos = 1
  /\ pc = "loop" => pos >= 2 /\ EvenRun(pos)
  /\ pc = "after" => pos >= 2 /\ OddGap(text, pos)

\* A line's reader stands at or within a piece, which ends where fgets cut it.
LineInv ==
  /\ pc \in {"fgets", "scan"} => unit = "line"
  /\ pc = "fgets" => PieceStart(text, pos) \/ pos > Len(text)
  /\ pc = "scan" =>
       /\ from <= pos /\ pos <= upto /\ IsPieceEnd(from, upto) /\ PieceStart(text, from)

\* The counts are those of the characters passed so far.
TallyInv ==
  pc # "closed" => \A l \in Letter : alphaCount[l] = before[l] + Cardinality(Done(l, pos))

\* Nothing is left unread at the end.
DoneInv == pc = "done" => pos > Len(text)

\* The inductive invariant of the reader.
ReaderInv == CountTypeOK /\ FileInv /\ LineInv /\ TallyInv /\ DoneInv
-----------------------------------------------------------------------------
\* The letters counted so far are finitely many.
LEMMA DoneFinite ==
  ASSUME text \in Seq(Char), NEW l, NEW p \in Nat
  PROVE  IsFiniteSet(Done(l, p)) /\ Cardinality(Done(l, p)) \in Nat
<1>1. DOMAIN text = 1 .. Len(text) /\ Len(text) \in Nat  OBVIOUS
<1>2. IsFiniteSet(1 .. Len(text))  BY <1>1, FS_Interval
<1>3. Done(l, p) \subseteq 1 .. Len(text)  BY <1>1 DEF Done
<1> QED  BY <1>2, <1>3, FS_Subset, FS_CardinalityType

\* At a position that is not counted the tally stays.
LEMMA NotCounted ==
  ASSUME text \in Seq(Char), NEW l, NEW p \in Nat,
         ~(p \in DOMAIN text /\ text[p] = l /\ Counted(text, p))
  PROVE  Done(l, p + 1) = Done(l, p)
BY DEF Done

\* At a position that is counted it grows by one.
LEMMA IsCounted ==
  ASSUME text \in Seq(Char), NEW l, NEW p \in Nat, p \in DOMAIN text, text[p] = l, Counted(text, p)
  PROVE  Cardinality(Done(l, p + 1)) = Cardinality(Done(l, p)) + 1
<1>1. Done(l, p + 1) = Done(l, p) \cup {p}  BY DEF Done
<1>2. p \notin Done(l, p)  BY DEF Done
<1> QED  BY <1>1, <1>2, DoneFinite, FS_AddElement

\* The white space before a position is either odd or even in number: the run
\* is the same in both definitions.
LEMMA EvenNotOdd ==
  ASSUME NEW k \in Nat, EvenRun(k)  PROVE ~OddGap(text, k)
<1> SUFFICES ASSUME OddGap(text, k) PROVE FALSE  OBVIOUS
<1>1. PICK i \in 2 .. k : /\ \A n \in i .. k - 1 : IsSpace(text, n)
                          /\ i > 2 => ~IsSpace(text, i - 1)
                          /\ (k - i) % 2 = 0
  BY DEF EvenRun
<1>2. PICK j \in 2 .. k - 1 : Gap(text, j, k) /\ (k - j) % 2 = 1  BY DEF OddGap
<1>3. i = j
  <2>1. CASE i < j  BY <1>1, <1>2, <2>1 DEF Gap
  <2>2. CASE j < i  BY <1>1, <1>2, <2>2 DEF Gap
  <2> QED  BY <2>1, <2>2
<1> QED  BY <1>1, <1>2, <1>3

\* One more white space makes an even run odd.
LEMMA EvenThenOdd ==
  ASSUME NEW k \in Nat, EvenRun(k), IsSpace(text, k)  PROVE OddGap(text, k + 1)
<1>1. PICK i \in 2 .. k : /\ \A n \in i .. k - 1 : IsSpace(text, n)
                          /\ i > 2 => ~IsSpace(text, i - 1)
                          /\ (k - i) % 2 = 0
  BY DEF EvenRun
<1>2. Gap(text, i, k + 1)  BY <1>1 DEF Gap
<1>3. i \in 2 .. (k + 1) - 1 /\ (k + 1 - i) % 2 = 1  BY <1>1
<1> QED  BY <1>2, <1>3 DEF OddGap

\* And an odd run even.
LEMMA OddThenEven ==
  ASSUME NEW k \in Nat, OddGap(text, k), IsSpace(text, k)  PROVE EvenRun(k + 1)
<1>1. PICK j \in 2 .. k - 1 : Gap(text, j, k) /\ (k - j) % 2 = 1  BY DEF OddGap
<1>2. j \in 2 .. k + 1 /\ (k + 1 - j) % 2 = 0  BY <1>1
<1>3. /\ \A n \in j .. (k + 1) - 1 : IsSpace(text, n)
      /\ j > 2 => ~IsSpace(text, j - 1)
  BY <1>1 DEF Gap
<1> QED  BY <1>2, <1>3 DEF EvenRun

\* Behind anything else there is no run.
LEMMA NoRun ==
  ASSUME NEW k \in Nat, k >= 2, k = 2 \/ ~IsSpace(text, k - 1)  PROVE EvenRun(k)
BY DEF EvenRun
-----------------------------------------------------------------------------
\* A multiple of a number is not properly between nothing and that number.
LEMMA NoMultipleBetween ==
  ASSUME NEW m \in Int, NEW n \in Int, NEW c \in Nat \ {0}
  PROVE  ~(n * c < m * c /\ m * c < n * c + c)
<1> DEFINE d == m - n
<1>1. d \in Int /\ m * c = n * c + d * c  OBVIOUS
<1>2. CASE d <= 0
  <2>1. d * c <= 0  BY <1>1, <1>2
  <2> QED  BY <1>1, <2>1
<1>3. CASE d >= 1
  <2>1. d * c >= c  BY <1>1, <1>3
  <2> QED  BY <1>1, <2>1
<1> QED  BY <1>1, <1>2, <1>3

\* No piece begins within the piece that fgets returned: both would be of the
\* same line.
LEMMA NoPieceInside ==
  ASSUME CountTypeOK, NEW s \in Nat, NEW e \in Nat, NEW k \in s + 1 .. e,
         IsPieceEnd(s, e), PieceStart(text, s)
  PROVE  ~PieceStart(text, k)
<1> SUFFICES ASSUME PieceStart(text, k) PROVE FALSE  OBVIOUS
<1>0. LineSize - 1 \in Nat \ {0}  BY CharactersAssumption
<1>1. PICK i \in 1 .. s : /\ i = 1 \/ text[i - 1] = Newline
                          /\ \A n \in i .. s - 1 : text[n] # Newline
                          /\ \E m \in 0 .. s : s = i + m * (LineSize - 1)
  BY DEF PieceStart
<1>2. PICK j \in 1 .. k : /\ j = 1 \/ text[j - 1] = Newline
                          /\ \A n \in j .. k - 1 : text[n] # Newline
                          /\ \E m \in 0 .. k : k = j + m * (LineSize - 1)
  BY DEF PieceStart
<1>3. \A n \in i .. k - 1 : text[n] # Newline  BY <1>1 DEF IsPieceEnd
<1>4. i = j
  <2>1. CASE i < j
    <3>1. j - 1 \in i .. k - 1  BY <2>1
    <3> QED  BY <3>1, <2>1, <1>2, <1>3
  <2>2. CASE j < i
    <3>1. i - 1 \in j .. k - 1  BY <2>2
    <3> QED  BY <3>1, <2>2, <1>1, <1>2
  <2> QED  BY <2>1, <2>2
<1>5. PICK m0 \in 0 .. s : s = i + m0 * (LineSize - 1)  BY <1>1
<1>6. PICK m \in 0 .. k : k = j + m * (LineSize - 1)  BY <1>2
<1>7. s < k /\ k < s + (LineSize - 1)  BY <1>0 DEF IsPieceEnd
<1>8. m0 * (LineSize - 1) \in Int /\ m * (LineSize - 1) \in Int  BY <1>0
<1>9. /\ m0 * (LineSize - 1) < m * (LineSize - 1)
      /\ m * (LineSize - 1) < m0 * (LineSize - 1) + (LineSize - 1)
  BY <1>0, <1>4, <1>5, <1>6, <1>7, <1>8
<1> QED  BY <1>0, <1>9, NoMultipleBetween

\* Behind a piece another one begins, or the file ends.
LEMMA NextPiece ==
  ASSUME CountTypeOK, NEW s \in Nat, NEW e \in Nat, IsPieceEnd(s, e), PieceStart(text, s)
  PROVE  PieceStart(text, e + 1) \/ e + 1 > Len(text)
<1>0. /\ LineSize \in Nat /\ LineSize - 1 \in Nat \ {0}
      /\ e \in 1 .. Len(text) /\ s <= e
  BY CharactersAssumption DEF CountTypeOK, IsPieceEnd
<1>1. CASE text[e] = Newline
  <2>1. /\ e + 1 \in 1 .. e + 1 /\ text[(e + 1) - 1] = Newline
        /\ \A n \in e + 1 .. (e + 1) - 1 : text[n] # Newline
        /\ 0 \in 0 .. e + 1 /\ e + 1 = (e + 1) + 0 * (LineSize - 1)
    BY <1>0, <1>1
  <2> QED  BY <2>1 DEF PieceStart
<1>2. CASE e = Len(text)  BY <1>0, <1>2
<1>3. CASE text[e] # Newline /\ e - s = LineSize - 2
  <2>1. PICK i \in 1 .. s : /\ i = 1 \/ text[i - 1] = Newline
                            /\ \A n \in i .. s - 1 : text[n] # Newline
                            /\ \E m \in 0 .. s : s = i + m * (LineSize - 1)
    BY DEF PieceStart
  <2>2. \A n \in i .. (e + 1) - 1 : text[n] # Newline
    <3> SUFFICES ASSUME NEW n \in i .. e PROVE text[n] # Newline  BY <1>0
    <3>1. n \in i .. s - 1 \/ n \in s .. e - 1 \/ n = e  BY <1>0
    <3> QED  BY <1>3, <2>1, <3>1 DEF IsPieceEnd
  <2>3. PICK m \in 0 .. s : s = i + m * (LineSize - 1)  BY <2>1
  <2>4. m + 1 \in 0 .. e + 1 /\ i \in 1 .. e + 1  BY <1>0
  <2>5. (m + 1) * (LineSize - 1) = m * (LineSize - 1) + (LineSize - 1)  BY <1>0
  <2>6. m * (LineSize - 1) \in Int  BY <1>0
  <2>7. e + 1 = i + (m + 1) * (LineSize - 1)  BY <1>0, <1>3, <2>3, <2>5, <2>6
  <2> QED  BY <2>1, <2>2, <2>4, <2>7 DEF PieceStart
<1> QED  BY <1>1, <1>2, <1>3 DEF IsPieceEnd
-----------------------------------------------------------------------------
\* What is counted depends on the text alone.
LEMMA SameDone ==
  ASSUME UNCHANGED <<unit, text>>, NEW CONSTANT l
  PROVE  Done(l, pos)' = Done(l, pos')
BY DEF Done, Counted, OddGap, Gap, PieceStart, IsSpace, IsLetter

\* A step that counts the character at pos keeps the tally if it is to be counted.
LEMMA TallyCounts ==
  ASSUME CountTypeOK, TallyInv, pc # "closed", UNCHANGED <<unit, text, before>>,
         pos' = pos + 1, CountAtPos, Counted(text, pos)
  PROVE  TallyInv'
<1> SUFFICES ASSUME NEW l \in Letter
             PROVE  alphaCount'[l] = before'[l] + Cardinality(Done(l, pos)')
  BY DEF TallyInv
<1>1. Done(l, pos)' = Done(l, pos + 1)  BY SameDone
<1>2. /\ alphaCount[l] = before[l] + Cardinality(Done(l, pos))
      /\ text \in Seq(Char) /\ pos \in Nat
      /\ alphaCount[l] \in Nat /\ before[l] \in Nat
  BY DEF TallyInv, CountTypeOK
<1>3. CASE IsLetter(text, pos) /\ text[pos] = l
  <2>1. Cardinality(Done(l, pos + 1)) = Cardinality(Done(l, pos)) + 1
    BY <1>2, <1>3, IsCounted DEF IsLetter
  <2>2. alphaCount'[l] = alphaCount[l] + 1  BY <1>3 DEF CountAtPos
  <2>3. Cardinality(Done(l, pos)) \in Nat  BY <1>2, DoneFinite
  <2> QED  BY <1>1, <1>2, <2>1, <2>2, <2>3
<1>4. CASE ~(IsLetter(text, pos) /\ text[pos] = l)
  <2>1. ~(pos \in DOMAIN text /\ text[pos] = l)  BY <1>4 DEF IsLetter
  <2>2. Done(l, pos + 1) = Done(l, pos)  BY <1>2, <2>1, NotCounted
  <2>3. alphaCount'[l] = alphaCount[l]  BY <1>4 DEF CountAtPos
  <2> QED  BY <1>1, <1>2, <2>2, <2>3
<1> QED  BY <1>3, <1>4

\* A step past a character that is not to be counted keeps it as well.
LEMMA TallyPasses ==
  ASSUME CountTypeOK, TallyInv, pc # "closed",
         UNCHANGED <<unit, text, before, alphaCount>>,
         pos' = pos + 1, ~Counted(text, pos)
  PROVE  TallyInv'
<1> SUFFICES ASSUME NEW l \in Letter
             PROVE  alphaCount'[l] = before'[l] + Cardinality(Done(l, pos)')
  BY DEF TallyInv
<1>1. Done(l, pos)' = Done(l, pos + 1)  BY SameDone
<1>2. Done(l, pos + 1) = Done(l, pos)  BY NotCounted DEF CountTypeOK
<1> QED  BY <1>1, <1>2 DEF TallyInv

\* And one that stays where it is.
LEMMA TallyStays ==
  ASSUME TallyInv, pc # "closed", UNCHANGED <<unit, text, before, alphaCount, pos>>
  PROVE  TallyInv'
<1> SUFFICES ASSUME NEW l \in Letter
             PROVE  alphaCount'[l] = before'[l] + Cardinality(Done(l, pos)')
  BY DEF TallyInv
<1>1. Done(l, pos)' = Done(l, pos)  BY SameDone
<1> QED  BY <1>1 DEF TallyInv
-----------------------------------------------------------------------------
\* A reader begins with its file closed and nothing counted.
LEMMA ReaderInit == CountInit => ReaderInv
BY CharactersAssumption
   DEF CountInit, ReaderInv, CountTypeOK, FileInv, LineInv, TallyInv, DoneInv

\* Opening the next file takes the counts so far as its own beginning.
LEMMA OpenInv == ASSUME ReaderInv, NEW t \in Texts, Open(t)  PROVE ReaderInv'
<1> USE DEF Open
<1>1. CountTypeOK'  BY CharactersAssumption DEF ReaderInv, CountTypeOK, piece
<1>2. FileInv' /\ DoneInv'  BY DEF ReaderInv, CountTypeOK, FileInv, DoneInv
<1>3. PieceStart(text, 1)'
  <2>1. 1 \in 1 .. 1 /\ 0 \in 0 .. 1 /\ 1 = 1 + 0 * (LineSize - 1)
    BY CharactersAssumption
  <2>2. \A n \in 1 .. 1 - 1 : text'[n] # Newline  OBVIOUS
  <2> QED  BY <2>1, <2>2 DEF PieceStart
<1>4. LineInv'  BY <1>3 DEF ReaderInv, CountTypeOK, LineInv
<1>5. TallyInv'
  <2> SUFFICES ASSUME NEW l \in Letter
               PROVE  alphaCount'[l] = before'[l] + Cardinality(Done(l, pos)')
    BY DEF TallyInv
  <2>1. text' \in Seq(Char) /\ pos' = 1  BY <1>1 DEF CountTypeOK
  <2>2. Done(l, pos)' = {}  BY <2>1 DEF Done
  <2>3. alphaCount'[l] = before'[l] /\ alphaCount'[l] \in Nat
    BY DEF ReaderInv, CountTypeOK
  <2> QED  BY <2>2, <2>3, FS_EmptySet
<1> QED  BY <1>1, <1>2, <1>4, <1>5 DEF ReaderInv

\* CountAtPos leaves natural numbers.
LEMMA CountType ==
  ASSUME CountTypeOK, CountAtPos  PROVE alphaCount' \in [Letter -> Nat]
BY DEF CountTypeOK, CountAtPos

\* The gaps of the next state are those of this one.
LEMMA SameGaps ==
  ASSUME UNCHANGED <<unit, text>>, NEW CONSTANT k
  PROVE  /\ EvenRun(k)' = EvenRun(k) /\ OddGap(text, k)' = OddGap(text, k)
         /\ PieceStart(text, k)' = PieceStart(text, k)
BY DEF EvenRun, OddGap, Gap, PieceStart, IsSpace

\* What stands ahead of the reader decides the gap that ends there.
LEMMA GapsAhead ==
  ASSUME UNCHANGED <<unit, text>>, pos' = pos + 1
  PROVE  EvenRun(pos)' = EvenRun(pos + 1) /\ OddGap(text, pos)' = OddGap(text, pos + 1)
BY DEF EvenRun, OddGap, Gap, IsSpace

\* fscanf of the file's first character (phase2.c).
LEMMA ReadFirstInv == ASSUME ReaderInv, ReadFirst  PROVE ReaderInv'
<1> USE DEF ReadFirst
<1>1. pos = 1 /\ unit = "file" /\ CountTypeOK  BY DEF ReaderInv, FileInv
<1>2. CountTypeOK'  BY <1>1, CountType DEF CountTypeOK, piece
<1>3. FileInv'
  <2>1. EvenRun(2)' BY NoRun, SameGaps
  <2> QED  BY <1>1, <2>1 DEF FileInv
<1>4. TallyInv'  BY <1>1, TallyCounts DEF ReaderInv, Counted
<1> QED  BY <1>2, <1>3, <1>4 DEF ReaderInv, LineInv, DoneInv

\* One character of a file, from within the loop.
LEMMA ReadNextInv == ASSUME ReaderInv, ReadNext  PROVE ReaderInv'
<1> USE DEF ReadNext
<1>1. pos >= 2 /\ pos \in Nat /\ unit = "file" /\ EvenRun(pos) /\ CountTypeOK
  BY DEF ReaderInv, FileInv, CountTypeOK
<1>2. CountTypeOK'  BY <1>1 DEF CountTypeOK, piece
<1>3. FileInv'
  <2>1. CASE IsSpace(text, pos)
    <3>1. OddGap(text, pos)'  BY <1>1, <2>1, EvenThenOdd, GapsAhead
    <3> QED  BY <1>1, <2>1, <3>1 DEF FileInv
  <2>2. CASE ~IsSpace(text, pos)
    <3>1. ~IsSpace(text, (pos + 1) - 1)  BY <1>1, <2>2
    <3>2. EvenRun(pos)'  BY <1>1, <3>1, NoRun, GapsAhead
    <3> QED  BY <1>1, <2>2, <3>2 DEF FileInv
  <2> QED  BY <2>1, <2>2
<1>4. TallyInv'
  <2>1. ~Counted(text, pos)  BY <1>1, EvenNotOdd DEF Counted
  <2> QED  BY <1>1, <2>1, TallyPasses DEF ReaderInv
<1> QED  BY <1>1, <1>2, <1>3, <1>4 DEF ReaderInv, LineInv, DoneInv

\* One character behind a white space.
LEMMA ReadAfterInv == ASSUME ReaderInv, ReadAfter  PROVE ReaderInv'
<1> USE DEF ReadAfter, StepAfter
<1>1. pos >= 2 /\ pos \in Nat /\ unit = "file" /\ OddGap(text, pos) /\ CountTypeOK
  BY DEF ReaderInv, FileInv, CountTypeOK
<1>2. CountTypeOK'  BY <1>1, CountType DEF CountTypeOK, piece
<1>3. EvenRun(pos + 1)
  <2>1. CASE IsSpace(text, pos)  BY <1>1, <2>1, OddThenEven
  <2>2. CASE ~IsSpace(text, pos)
    <3>1. ~IsSpace(text, (pos + 1) - 1)  BY <1>1, <2>2
    <3> QED  BY <1>1, <3>1, NoRun
  <2> QED  BY <2>1, <2>2
<1>4. FileInv'
  <2>1. EvenRun(pos)'  BY <1>3, GapsAhead
  <2> QED  BY <1>1, <2>1 DEF FileInv
<1>5. TallyInv'  BY <1>1, TallyCounts DEF ReaderInv, Counted
<1> QED  BY <1>1, <1>2, <1>4, <1>5 DEF ReaderInv, LineInv, DoneInv

\* The file's end.
LEMMA EndOfFileInv == ASSUME ReaderInv, EndOfFile  PROVE ReaderInv'
<1> USE DEF EndOfFile
<1>1. CountTypeOK'  BY DEF ReaderInv, CountTypeOK, piece
<1>2. TallyInv'  BY TallyStays DEF ReaderInv
<1>3. DoneInv'  BY DEF ReaderInv, CountTypeOK, DoneInv, feof
<1> QED  BY <1>1, <1>2, <1>3 DEF ReaderInv, FileInv, LineInv
-----------------------------------------------------------------------------
\* fgets takes the next piece.
LEMMA FgetsInv == ASSUME ReaderInv, Fgets  PROVE ReaderInv'
<1>1. PICK e \in pos .. Len(text) : IsPieceEnd(pos, e) /\ upto' = e  BY DEF Fgets
<1>2. CountTypeOK'  BY <1>1 DEF ReaderInv, CountTypeOK, Fgets
<1>3. LineInv'
  <2>1. PieceStart(text, pos)  BY DEF ReaderInv, LineInv, CountTypeOK, Fgets
  <2>2. PieceStart(text, from)' /\ IsPieceEnd(from, upto)'
    BY <1>1, <2>1 DEF Fgets, PieceStart, IsPieceEnd
  <2> QED  BY <1>1, <2>2 DEF Fgets, ReaderInv, LineInv, CountTypeOK
<1>4. TallyInv'  BY TallyStays DEF ReaderInv, Fgets
<1> QED  BY <1>2, <1>3, <1>4 DEF ReaderInv, Fgets, FileInv, DoneInv

\* One character of the piece.
LEMMA ScanInv == ASSUME ReaderInv, Scan  PROVE ReaderInv'
<1> USE DEF Scan
<1>1. /\ pos \in from .. upto /\ pos \in Nat \ {0} /\ from \in Nat /\ upto \in Nat
      /\ unit = "line" /\ IsPieceEnd(from, upto) /\ PieceStart(text, from) /\ CountTypeOK
  BY DEF ReaderInv, LineInv, CountTypeOK
<1>2. CountTypeOK'  BY <1>1, CountType DEF CountTypeOK, piece
<1>3. LineInv'
  <2>1. CASE pos = upto
    <3>1. PieceStart(text, pos + 1) \/ pos + 1 > Len(text)  BY <1>1, <2>1, NextPiece
    <3>2. (PieceStart(text, pos) \/ pos > Len(text))'
      BY <3>1, SameGaps DEF PieceStart
    <3> QED  BY <1>1, <2>1, <3>2 DEF LineInv
  <2>2. CASE pos # upto
    <3>1. PieceStart(text, from)' /\ IsPieceEnd(from, upto)'
      BY <1>1 DEF PieceStart, IsPieceEnd, piece
    <3> QED  BY <1>1, <2>2, <3>1 DEF LineInv, piece
  <2> QED  BY <2>1, <2>2
<1>4. TallyInv'
  <2>1. CASE BehindNonLetter
    <3>1. Counted(text, pos)  BY <1>1, <2>1 DEF BehindNonLetter, Counted
    <3> QED  BY <1>1, <2>1, <3>1, TallyCounts DEF ReaderInv
  <2>2. CASE ~BehindNonLetter
    <3>1. pos \in from + 1 .. upto /\ IsLetter(text, pos - 1)
      BY <1>1, <2>2 DEF BehindNonLetter
    <3>2. ~Counted(text, pos)  BY <1>1, <3>1, NoPieceInside DEF Counted
    <3> QED  BY <1>1, <2>2, <3>2, TallyPasses DEF ReaderInv
  <2> QED  BY <2>1, <2>2
<1> QED  BY <1>1, <1>2, <1>3, <1>4 DEF ReaderInv, FileInv, DoneInv

\* No piece is left.
LEMMA LastPieceInv == ASSUME ReaderInv, LastPiece  PROVE ReaderInv'
<1> USE DEF LastPiece
<1>1. CountTypeOK'  BY DEF ReaderInv, CountTypeOK, piece
<1>2. TallyInv'  BY TallyStays DEF ReaderInv
<1> QED  BY <1>1, <1>2 DEF ReaderInv, FileInv, LineInv, DoneInv
-----------------------------------------------------------------------------
\* Every step of the reader keeps its invariant.
LEMMA ReaderStep == ReaderInv /\ [CountNext]_counting => ReaderInv'
<1> SUFFICES ASSUME ReaderInv, [CountNext]_counting PROVE ReaderInv'  OBVIOUS
<1>1. CASE \E t \in Texts : Open(t)  BY <1>1, OpenInv
<1>2. CASE CountStep
  BY <1>2, ReadFirstInv, ReadNextInv, ReadAfterInv, EndOfFileInv, FgetsInv,
     ScanInv, LastPieceInv DEF CountStep
<1>3. CASE UNCHANGED counting
  <2> USE <1>3 DEF counting, piece
  <2>1. CountTypeOK' /\ DoneInv'  BY DEF ReaderInv, CountTypeOK, DoneInv
  <2>2. FileInv'  BY DEF ReaderInv, FileInv, OddGap, Gap, EvenRun, IsSpace
  <2>3. LineInv'  BY DEF ReaderInv, LineInv, PieceStart, IsPieceEnd
  <2>4. TallyInv'
    <3>1. CASE pc = "closed"  BY <3>1 DEF TallyInv
    <3>2. CASE pc # "closed"  BY <3>2, TallyStays DEF ReaderInv
    <3> QED  BY <3>1, <3>2
  <2> QED  BY <2>1, <2>2, <2>3, <2>4 DEF ReaderInv
<1> QED  BY <1>1, <1>2, <1>3 DEF CountNext

\* The reader knows, wherever it stands in a text of any length, whether the
\* white space behind it is odd or even in number, or how far into its line it is.
THEOREM ReaderInvariance == CountSpec => []ReaderInv
BY ReaderInit, ReaderStep, PTL DEF CountSpec

\* At its end it has counted what Counted names.
LEMMA ReaderCounts == ReaderInv => CountExact
<1> SUFFICES ASSUME ReaderInv, pc = "done", NEW l \in Letter
             PROVE  alphaCount[l] = before[l] + WordsCounted(text, l)
    BY DEF CountExact
<1>1. pos > Len(text) /\ text \in Seq(Char) /\ pos \in Nat
    BY DEF ReaderInv, DoneInv, CountTypeOK
<1>2. Done(l, pos) = {k \in DOMAIN text : text[k] = l /\ Counted(text, k)}
    BY <1>1 DEF Done
<1> QED  BY <1>2 DEF ReaderInv, TallyInv, WordsCounted

\* What a file adds to the counts, for every text, every sequence of files and
\* every size given to fgets (phase2.c:10, producer.c:27): the letters that
\* Counted names, no other and each once.
THEOREM CountsAreExact == CountSpec => []CountExact
BY ReaderInvariance, ReaderCounts, PTL

-----------------------------------------------------------------------------
(***************************************************************************)
(* Trees.  All that lies in a tree is its directories and files; Up(x) is  *)
(* x and the directories above it.                                         *)
(***************************************************************************)
All == Directories \cup Files
Up(x) == {x} \cup PathTo[x]
IsEntry(x, d) == d \in Directories /\ \E i \in DOMAIN tree.entries[d] : tree.entries[d][i] = x

\* What IsTree says of the tree, one fact at a time.
LEMMA TreeIs ==
  ASSUME tree \in Trees
  PROVE  /\ IsFiniteSet(Directories) /\ tree.root \in Directories /\ tree.root \notin Files
         /\ Files \cap Directories = {}
         /\ \A d \in Directories : tree.entries[d] \in Seq(All \ {tree.root})
         /\ \A d, e \in Directories :
              \A i \in DOMAIN tree.entries[d], j \in DOMAIN tree.entries[e] :
                tree.entries[d][i] = tree.entries[e][j] => d = e /\ i = j
         /\ \A x \in All \ {tree.root} : IsEntry(x, Parent(x))
         /\ \A d : \A x : IsEntry(x, d) => x \in All \ {tree.root} /\ Parent(x) = d
         /\ \A f \in Files : tree.content[f] \in Texts
  <1> DEFINE all == {tree.root} \cup UNION {ToSet(tree.entries[d]) : d \in Directories}
  <1>1. IsTree(tree) BY WalkAssumption
  <1>2. /\ IsFiniteSet(Directories) /\ tree.root \in Directories /\ Directories \subseteq all
        /\ \A d \in Directories : tree.entries[d] \in Seq(all \ {tree.root})
        /\ \A d, e \in Directories :
             \A i \in DOMAIN tree.entries[d], j \in DOMAIN tree.entries[e] :
               tree.entries[d][i] = tree.entries[e][j] => d = e /\ i = j
    BY <1>1 DEF IsTree, Directories
  <1>3. all = All
    <2> DEFINE below == UNION {ToSet(tree.entries[d]) : d \in Directories}
    <2>1. Files = below \ Directories BY DEF Files, Entries
    <2>2. all = {tree.root} \cup below OBVIOUS
    <2> HIDE DEF below, all
    <2> QED BY <1>2, <2>1, <2>2 DEF All
  <1>4. \A d \in Directories : \A x : x \in Entries(d) <=> IsEntry(x, d)
    BY DEF IsEntry, Entries, ToSet
  <1>5. ASSUME NEW d, NEW x, IsEntry(x, d) PROVE x \in All \ {tree.root} /\ Parent(x) = d
    <2>1. d \in Directories BY <1>5 DEF IsEntry
    <2>2. PICK s \in Seq(all \ {tree.root}) : s = tree.entries[d] BY <1>2, <2>1
    <2>3. x \in all \ {tree.root} BY <1>5, <2>2 DEF IsEntry
    <2>4. \A e \in Directories : x \in Entries(e) => e = d
      BY <1>2, <1>4, <1>5 DEF IsEntry
    <2>5. x \in Entries(d) BY <1>4, <1>5, <2>1
    <2>6. Parent(x) = d BY <2>1, <2>4, <2>5 DEF Parent
    <2> QED BY <1>3, <2>3, <2>6
  <1>6. ASSUME NEW x \in All \ {tree.root} PROVE IsEntry(x, Parent(x))
    <2>1. PICK d \in Directories : x \in Entries(d) BY <1>3 DEF Entries
    <2>2. IsEntry(x, d) BY <1>4, <2>1
    <2>3. Parent(x) = d BY <1>5, <2>2
    <2> QED BY <2>2, <2>3
  <1>7. ASSUME NEW f \in Files PROVE tree.content[f] \in Texts
    <2>1. PICK d \in Directories : f \in Entries(d) BY DEF Files
    <2>2. f \notin Directories BY DEF Files
    <2> QED BY <2>1, <2>2, ContentAssumption DEF Entries, Directories
  <1>8. tree.root \notin Files /\ Files \cap Directories = {}
    BY <1>2, <1>4 DEF Files
  <1> HIDE DEF all
  <1> QED BY <1>2, <1>3, <1>5, <1>6, <1>7, <1>8

\* The path of an entry is that of its directory, and the entry if it is one.
LEMMA PathIs ==
  ASSUME tree \in Trees
  PROVE  /\ PathTo[tree.root] = {tree.root}
         /\ \A x \in All \ {tree.root} :
              PathTo[x] = PathTo[Parent(x)] \cup ({x} \cap Directories)
  <1> DEFINE Closed(S) == \A x \in S \ {tree.root} : Parent(x) \in S
             Above(e) == {d \in Directories : \A S \in SUBSET All : e \in S /\ Closed(S) => d \in S}
             above == [e \in Directories \cup Files |-> Above(e)]
             Solves(f) == f = [e \in Directories \cup Files |->
                                IF e = tree.root THEN {e}
                                ELSE f[Parent(e)] \cup ({e} \cap Directories)]
  <1>1. /\ tree.root \in Directories /\ Directories \subseteq All
        /\ \A x \in All \ {tree.root} : Parent(x) \in Directories
    BY TreeIs DEF All, IsEntry
  <1>2. Above(tree.root) = {tree.root}
    <2>1. {tree.root} \in SUBSET All /\ Closed({tree.root}) BY <1>1
    <2>2. \A d \in Above(tree.root) : d = tree.root BY <2>1
    <2>3. tree.root \in Above(tree.root) BY <1>1
    <2> QED BY <2>2, <2>3
  <1>3. ASSUME NEW e \in All \ {tree.root}
        PROVE  Above(e) = Above(Parent(e)) \cup ({e} \cap Directories)
    <2>1. ASSUME NEW d \in Above(Parent(e)) PROVE d \in Above(e)
      <3> SUFFICES ASSUME NEW S \in SUBSET All, e \in S, Closed(S) PROVE d \in S OBVIOUS
      <3>1. Parent(e) \in S OBVIOUS
      <3> QED BY <3>1
    <2>2. ASSUME NEW d \in {e} \cap Directories PROVE d \in Above(e) OBVIOUS
    <2>3. ASSUME NEW d \in Above(e), d # e PROVE d \in Above(Parent(e))
      <3> SUFFICES ASSUME NEW S \in SUBSET All, Parent(e) \in S, Closed(S) PROVE d \in S
        OBVIOUS
      <3>1. S \cup {e} \in SUBSET All /\ Closed(S \cup {e}) OBVIOUS
      <3>2. d \in S \cup {e} BY <3>1
      <3> QED BY <2>3, <3>2
    <2>4. Above(e) \subseteq Directories OBVIOUS
    <2> HIDE DEF Above
    <2> QED BY <2>1, <2>2, <2>3, <2>4
  <1>4. Solves(above)
    <2> SUFFICES ASSUME NEW e \in Directories \cup Files
                 PROVE  above[e] = IF e = tree.root THEN {e}
                                   ELSE above[Parent(e)] \cup ({e} \cap Directories)
      BY Zenon
    <2>1. e # tree.root => Parent(e) \in Directories \cup Files BY <1>1 DEF All
    <2>2. e \in All BY DEF All
    <2> HIDE DEF Above
    <2> QED BY <1>2, <1>3, <2>1, <2>2
  <1> HIDE DEF above
  <1>5. PathTo = CHOOSE f : Solves(f) BY DEF PathTo
  <1> HIDE DEF Solves
  <1>6. Solves(PathTo) BY <1>4, <1>5, Zenon
  <1> QED BY <1>1, <1>6 DEF Solves, All

\* A set of natural numbers with a member has a least one.
LEMMA Least ==
  ASSUME NEW S, S \subseteq Nat, S # {}
  PROVE  \E m \in S : \A k \in S : m <= k
  <1> DEFINE R == OpToRel(<, Nat)
  <1>1. IsWellFoundedOn(R, Nat) BY NatLessThanWellFounded, Zenon
  <1>2. \A x, y \in Nat : <<x, y>> \in R <=> x < y BY Zenon DEF OpToRel
  <1> HIDE DEF R
  <1>3. PICK m \in S : \A k \in S : <<k, m>> \notin R BY <1>1, WFMin
  <1>4. \A k \in S : k \in Nat /\ m \in Nat /\ ~(k < m) BY <1>2, <1>3
  <1> QED BY <1>4

\* Directories lie at depths: each one below its parent.
LEMMA DepthIs ==
  ASSUME tree \in Trees
  PROVE  \E depth : /\ \A d \in Directories : depth[d] \in Nat
                    /\ \A d \in Directories \ {tree.root} :
                         Parent(d) \in Directories /\ depth[d] = depth[Parent(d)] + 1
  <1>1. IsTree(tree) BY WalkAssumption
  <1>2. PICK depth \in [Directories -> 0 .. Cardinality(Directories)] :
          \A d \in Directories : \A e \in Directories \cap ToSet(tree.entries[d]) :
            depth[e] = depth[d] + 1
    BY <1>1 DEF IsTree, Directories
  <1>3. \A d \in Directories : depth[d] \in Nat BY <1>2
  <1>4. ASSUME NEW d \in Directories \ {tree.root}
        PROVE  Parent(d) \in Directories /\ depth[d] = depth[Parent(d)] + 1
    <2>1. IsEntry(d, Parent(d)) BY TreeIs DEF All
    <2>2. Parent(d) \in Directories /\ d \in ToSet(tree.entries[Parent(d)])
      BY <2>1 DEF IsEntry, ToSet
    <2> QED BY <1>2, <2>2
  <1> QED BY <1>3, <1>4

\* What holds of the root and of whatever has it above holds everywhere.
LEMMA FromTheRoot ==
  ASSUME tree \in Trees, NEW S, tree.root \in S,
         \A x \in All \ {tree.root} : Parent(x) \in S => x \in S
  PROVE  All \subseteq S
  <1>1. PICK depth : /\ \A d \in Directories : depth[d] \in Nat
                     /\ \A d \in Directories \ {tree.root} :
                          Parent(d) \in Directories /\ depth[d] = depth[Parent(d)] + 1
    BY DepthIs
  <1> DEFINE Bad == {depth[d] : d \in Directories \ S}
  <1>2. ASSUME Bad # {} PROVE FALSE
    <2>1. Bad \subseteq Nat BY <1>1
    <2>2. PICK m \in Bad : \A k \in Bad : m <= k
      <3> HIDE DEF Bad
      <3> QED BY <1>2, <2>1, Least
    <2>3. PICK d \in Directories \ S : m = depth[d] BY <2>2
    <2>4. Parent(d) \in Directories \ S /\ depth[d] = depth[Parent(d)] + 1
      BY <1>1, <2>3 DEF All
    <2>5. depth[Parent(d)] \in Bad /\ depth[Parent(d)] \in Nat BY <1>1, <2>4
    <2> QED BY <2>2, <2>3, <2>4, <2>5
  <1>3. Directories \subseteq S BY <1>2
  <1>4. \A x \in All \ {tree.root} : Parent(x) \in Directories BY TreeIs DEF IsEntry
  <1> QED BY <1>3, <1>4

\* Only directories are on a path, and each has its own parent on its path.
LEMMA PathIsDirectories ==
  ASSUME tree \in Trees
  PROVE  \A x \in All : /\ PathTo[x] \in SUBSET Directories /\ IsFiniteSet(PathTo[x])
                        /\ tree.root \in PathTo[x]
                        /\ x \in Directories => x \in PathTo[x]
  <1> DEFINE S == {x \in All : /\ PathTo[x] \in SUBSET Directories /\ tree.root \in PathTo[x]
                               /\ x \in Directories => x \in PathTo[x]}
  <1>1. tree.root \in S BY TreeIs, PathIs DEF All
  <1>2. ASSUME NEW x \in All \ {tree.root}, Parent(x) \in S PROVE x \in S
    <2>1. PathTo[x] = PathTo[Parent(x)] \cup ({x} \cap Directories) BY PathIs
    <2> QED BY <1>2, <2>1
  <1>3. All \subseteq S
    <2> HIDE DEF S
    <2> QED BY <1>1, <1>2, FromTheRoot
  <1>4. \A x \in All : IsFiniteSet(PathTo[x]) BY <1>3, TreeIs, FS_Subset
  <1> QED BY <1>3, <1>4

\* Paths grow towards the leaves, and lead up over parents.
LEMMA PathsNest ==
  ASSUME tree \in Trees, NEW x \in All
  PROVE  /\ \A y \in PathTo[x] : PathTo[y] \subseteq PathTo[x]
         /\ \A y \in Up(x) \ {tree.root} : Parent(y) \in PathTo[x]
         /\ \A d \in PathTo[x] : d # x => \E y \in Up(x) : IsEntry(y, d)
  <1> DEFINE S == {e \in All :
                    /\ \A y \in PathTo[e] : PathTo[y] \subseteq PathTo[e]
                    /\ \A y \in Up(e) \ {tree.root} : Parent(y) \in PathTo[e]
                    /\ \A d \in PathTo[e] : d # e => \E y \in Up(e) : IsEntry(y, d)}
  <1>1. tree.root \in S BY TreeIs, PathIs DEF All, Up
  <1>2. ASSUME NEW e \in All \ {tree.root}, Parent(e) \in S PROVE e \in S
    <2>1. PICK p \in S : p = Parent(e) BY <1>2
    <2>2. PathTo[e] = PathTo[p] \cup ({e} \cap Directories) BY <2>1, PathIs
    <2>3. IsEntry(e, p) /\ p \in Directories /\ p \in All BY <2>1, TreeIs DEF IsEntry, All
    <2>4. p \in PathTo[p] BY <2>3, PathIsDirectories
    <2>5. Up(p) = PathTo[p] /\ Up(e) = PathTo[p] \cup {e} BY <2>2, <2>4 DEF Up
    <2>6. \A y \in PathTo[e] : PathTo[y] \subseteq PathTo[e] BY <2>1, <2>2
    <2>7. \A y \in Up(e) \ {tree.root} : Parent(y) \in PathTo[e]
      BY <2>1, <2>2, <2>4, <2>5
    <2>8. \A d \in PathTo[e] : d # e => \E y \in Up(e) : IsEntry(y, d)
      <3> SUFFICES ASSUME NEW d \in PathTo[e], d # e PROVE \E y \in Up(e) : IsEntry(y, d)
        OBVIOUS
      <3>1. d \in PathTo[p] BY <2>2
      <3>2. CASE d = p BY <2>3, <3>2 DEF Up
      <3>3. CASE d # p
        <4>1. PICK y \in Up(p) : IsEntry(y, d) BY <2>1, <3>1, <3>3
        <4> QED BY <2>5, <4>1
      <3> QED BY <3>2, <3>3
    <2> QED BY <2>6, <2>7, <2>8
  <1>3. All \subseteq S
    <2> HIDE DEF S
    <2> QED BY <1>1, <1>2, FromTheRoot
  <1> QED BY <1>3

\* No directory is above its parent, so a path is one longer than the parent's.
LEMMA PathLonger ==
  ASSUME tree \in Trees, NEW x \in Directories \ {tree.root}
  PROVE  /\ x \notin PathTo[Parent(x)]
         /\ Cardinality(PathTo[x]) = Cardinality(PathTo[Parent(x)]) + 1
  <1>1. PICK depth : /\ \A d \in Directories : depth[d] \in Nat
                     /\ \A d \in Directories \ {tree.root} :
                          Parent(d) \in Directories /\ depth[d] = depth[Parent(d)] + 1
    BY DepthIs
  <1> DEFINE S == {e \in All : e \in Directories => \A y \in PathTo[e] : depth[y] <= depth[e]}
  <1>2. tree.root \in S
    <2>1. tree.root \in Directories /\ PathTo[tree.root] = {tree.root} BY TreeIs, PathIs
    <2>2. depth[tree.root] \in Nat BY <1>1, <2>1
    <2> QED BY <2>1, <2>2 DEF All
  <1>3. ASSUME NEW e \in All \ {tree.root}, Parent(e) \in S PROVE e \in S
    <2>1. SUFFICES ASSUME e \in Directories, NEW y \in PathTo[e] PROVE depth[y] <= depth[e]
      OBVIOUS
    <2>2. PathTo[e] = PathTo[Parent(e)] \cup ({e} \cap Directories) BY PathIs
    <2>3. Parent(e) \in Directories /\ depth[e] = depth[Parent(e)] + 1 BY <1>1, <2>1
    <2>4. depth[e] \in Nat /\ depth[Parent(e)] \in Nat BY <1>1, <2>1, <2>3
    <2>5. y \in Directories BY <2>1, PathIsDirectories
    <2>6. depth[y] \in Nat BY <1>1, <2>5
    <2>7. CASE y = e BY <2>4, <2>7
    <2>8. CASE y # e
      <3>1. y \in PathTo[Parent(e)] BY <2>1, <2>2, <2>8
      <3>2. depth[y] <= depth[Parent(e)] BY <1>3, <2>3, <3>1
      <3> QED BY <2>3, <2>4, <2>6, <3>2
    <2> QED BY <2>7, <2>8
  <1>4. All \subseteq S
    <2> HIDE DEF S
    <2> QED BY <1>2, <1>3, FromTheRoot
  <1>5. PICK p \in Directories : p = Parent(x) /\ depth[x] = depth[p] + 1 BY <1>1
  <1>6. p \in All /\ x \in All BY DEF All
  <1>7. x \notin PathTo[p]
    <2>1. \A y \in PathTo[p] : depth[y] <= depth[p] BY <1>4, <1>6
    <2>2. depth[p] \in Nat /\ ~(depth[x] <= depth[p]) BY <1>1, <1>5
    <2> QED BY <2>1, <2>2
  <1>8. PathTo[x] = PathTo[p] \cup {x} BY <1>5, <1>6, PathIs
  <1>9. IsFiniteSet(PathTo[p]) BY <1>6, PathIsDirectories
  <1> QED BY <1>5, <1>7, <1>8, <1>9, FS_AddElement

-----------------------------------------------------------------------------
(***************************************************************************)
(* The calls under way: the innermost is for a directory whose path has    *)
(* exactly the directories of the calls.  An entry is pending if it, or    *)
(* a directory above it, comes at or behind the next entry of a call.      *)
(***************************************************************************)
Frame == [dir : Directories, at : Nat \ {0}, pathSet : BOOLEAN]

\* Call k works in the directory that call k + 1 has just passed.
Under(s, k) ==
  /\ s[k + 1].at - 1 \in DOMAIN tree.entries[s[k + 1].dir]
  /\ s[k].dir = tree.entries[s[k + 1].dir][s[k + 1].at - 1]

\* What a stack of calls is.
StackOk(s) ==
  /\ s \in Seq(Frame)
  /\ \A k \in 1 .. Len(s) :
       /\ IF k = Len(s) THEN s[k].dir = tree.root ELSE Under(s, k)
       /\ PathTo[s[k].dir] = {s[j].dir : j \in k .. Len(s)}
       /\ Cardinality(PathTo[s[k].dir]) = Len(s) - k + 1

\* e, or a directory above it, is still to come in some call.
Pending(s, e) ==
  \E k \in 1 .. Len(s) : \E i \in DOMAIN tree.entries[s[k].dir] :
    i >= s[k].at /\ tree.entries[s[k].dir][i] \in Up(e)

\* x is the next entry of s, and t is s when it is passed.
At(s, x) ==
  /\ s # <<>> /\ s[1].at \in DOMAIN tree.entries[s[1].dir]
  /\ x = tree.entries[s[1].dir][s[1].at]

Passes(s, x, t) ==
  /\ At(s, x)
  /\ \E f \in Frame : /\ f.dir = s[1].dir /\ f.at = s[1].at + 1
                       /\ t = <<f>> \o Tail(s)

\* No directory is on the stack twice.
LEMMA FramesDiffer ==
  ASSUME NEW s, StackOk(s), NEW j \in 1 .. Len(s), NEW k \in 1 .. Len(s), s[j].dir = s[k].dir
  PROVE  j = k
  <1>1. Len(s) - j + 1 = Len(s) - k + 1 BY DEF StackOk
  <1>2. PICK n \in Nat : n = Len(s) BY DEF StackOk
  <1> QED BY <1>1, <1>2

\* An entry of a directory on the stack that is passed is no longer pending.
LEMMA PassEntry ==
  ASSUME tree \in Trees, NEW s, StackOk(s), NEW x, NEW t, Passes(s, x, t)
  PROVE  /\ StackOk(t) /\ Len(t) = Len(s)
         /\ \A k \in 1 .. Len(s) : t[k].dir = s[k].dir
         /\ t[1].at = s[1].at + 1
         /\ \A e : Pending(t, e) => Pending(s, e)
         /\ \A e : Pending(s, e) /\ x \notin Up(e) => Pending(t, e)
         /\ IsEntry(x, s[1].dir) /\ Pending(s, x) /\ ~Pending(t, x)
  <1> USE DEF At
  <1>1. s \in Seq(Frame) BY DEF StackOk
  <1>2. PICK n \in Nat \ {0} : n = Len(s) BY <1>1 DEF Passes
  <1>18. PICK f \in Frame : f.dir = s[1].dir /\ f.at = s[1].at + 1 /\ t = <<f>> \o Tail(s)
    BY DEF Passes
  <1>19. /\ s # <<>> /\ s[1].at \in DOMAIN tree.entries[s[1].dir]
         /\ x = tree.entries[s[1].dir][s[1].at]
    BY DEF Passes
  <1> HIDE DEF At
  <1>0. \A m \in 1 .. n : s[m] \in Frame BY <1>1, <1>2
  <1>15. \A m \in 1 .. n : s[m].dir \in Directories /\ s[m].at \in Nat \ {0}
    BY <1>0 DEF Frame
  <1>16. ASSUME NEW m \in 1 .. n, NEW i \in DOMAIN tree.entries[s[m].dir] PROVE i \in Nat
    <2>1. tree.entries[s[m].dir] \in Seq(All \ {tree.root}) BY <1>15, TreeIs
    <2> QED BY <2>1
  <1>17. \A d, e \in Directories :
           \A i \in DOMAIN tree.entries[d], j \in DOMAIN tree.entries[e] :
             tree.entries[d][i] = tree.entries[e][j] => d = e /\ i = j
    BY TreeIs
  <1>3. s[1] \in Frame BY <1>0, <1>2
  <1>4. Tail(s) \in Seq(Frame) /\ Len(Tail(s)) = n - 1
        /\ \A k \in 1 .. n - 1 : Tail(s)[k] = s[k + 1]
    BY <1>1, <1>2
  <1>6. t \in Seq(Frame) /\ Len(t) = n /\ t[1] = f /\ \A k \in 2 .. n : t[k] = s[k]
    <2>1. t = <<f>> \o Tail(s) BY <1>18
    <2> QED BY <1>2, <1>4, <2>1
  <1>7. \A k \in 1 .. n : t[k].dir = s[k].dir /\ (k # 1 => t[k].at = s[k].at)
    BY <1>6, <1>18
  <1>8. t[1].at = s[1].at + 1 /\ s[1].at \in Nat BY <1>3, <1>6, <1>18 DEF Frame
  <1>9. StackOk(t)
    <2> SUFFICES ASSUME NEW k \in 1 .. n
                 PROVE  /\ IF k = n THEN t[k].dir = tree.root ELSE Under(t, k)
                        /\ PathTo[t[k].dir] = {t[j].dir : j \in k .. n}
                        /\ Cardinality(PathTo[t[k].dir]) = n - k + 1
      BY <1>6 DEF StackOk
    <2>1. /\ IF k = n THEN s[k].dir = tree.root ELSE Under(s, k)
          /\ PathTo[s[k].dir] = {s[j].dir : j \in k .. n}
          /\ Cardinality(PathTo[s[k].dir]) = n - k + 1
      BY <1>2 DEF StackOk
    <2>2. {t[j].dir : j \in k .. n} = {s[j].dir : j \in k .. n}
      <3>0. \A j \in k .. n : j \in 1 .. n OBVIOUS
      <3>1. \A j \in k .. n : t[j].dir = s[j].dir BY <1>7, <3>0
      <3> QED BY <3>1
    <2>3. k # n => t[k + 1] = s[k + 1] BY <1>6
    <2>4. t[k].dir = s[k].dir BY <1>7
    <2> QED BY <2>1, <2>2, <2>3, <2>4 DEF Under
  <1>10. ASSUME NEW e, Pending(t, e) PROVE Pending(s, e)
    <2>1. PICK k \in 1 .. n : \E i \in DOMAIN tree.entries[t[k].dir] :
            i >= t[k].at /\ tree.entries[t[k].dir][i] \in Up(e)
      BY <1>6, <1>10 DEF Pending
    <2>2. PICK i \in DOMAIN tree.entries[s[k].dir] :
            i >= t[k].at /\ tree.entries[s[k].dir][i] \in Up(e)
      BY <1>7, <2>1
    <2>3. i >= s[k].at
      <3>2. i \in Nat BY <1>16
      <3>3. CASE k = 1 BY <1>8, <2>2, <3>2, <3>3
      <3>4. CASE k # 1 BY <1>7, <2>2, <3>4
      <3> QED BY <3>3, <3>4
    <2> QED BY <1>2, <2>2, <2>3 DEF Pending
  <1>11. ASSUME NEW e, Pending(s, e), x \notin Up(e) PROVE Pending(t, e)
    <2>0. PICK k \in 1 .. n : \E i \in DOMAIN tree.entries[s[k].dir] :
            i >= s[k].at /\ tree.entries[s[k].dir][i] \in Up(e)
      BY <1>2, <1>11 DEF Pending
    <2>1. PICK i \in DOMAIN tree.entries[s[k].dir] :
            i >= s[k].at /\ tree.entries[s[k].dir][i] \in Up(e)
      BY <2>0
    <2>2. i >= t[k].at
      <3>2. i \in Nat BY <1>16
      <3>3. CASE k = 1
        <4>1. i # s[1].at BY <1>11, <1>19, <2>1, <3>3
        <4> QED BY <1>8, <2>1, <3>2, <3>3, <4>1
      <3>4. CASE k # 1 BY <1>7, <2>1, <3>4
      <3> QED BY <3>3, <3>4
    <2> QED BY <1>6, <1>7, <2>1, <2>2 DEF Pending
  <1>12. IsEntry(x, s[1].dir) BY <1>3, <1>19 DEF IsEntry, Frame
  <1>13. Pending(s, x)
    <2>1. x \in Up(x) /\ s[1].at >= s[1].at BY <1>8 DEF Up
    <2>2. 1 \in 1 .. n BY <1>2
    <2> QED BY <1>2, <1>19, <2>1, <2>2 DEF Pending
  <1>14. ~Pending(t, x)
    <2> SUFFICES ASSUME NEW k \in 1 .. n, NEW i \in DOMAIN tree.entries[s[k].dir],
                        i >= t[k].at, tree.entries[s[k].dir][i] \in Up(x)
                 PROVE  FALSE
      BY <1>6, <1>7 DEF Pending
    <2>1. PICK y : y = tree.entries[s[k].dir][i] OBVIOUS
    <2>0. 1 \in 1 .. n /\ i \in Nat BY <1>2, <1>16
    <2>3. CASE y = x
      <3>1. s[k].dir = s[1].dir /\ i = s[1].at
        <4>1. s[k].dir \in Directories /\ s[1].dir \in Directories BY <1>15, <2>0
        <4>2. tree.entries[s[k].dir][i] = tree.entries[s[1].dir][s[1].at]
          BY <1>19, <2>1, <2>3
        <4> QED BY <1>17, <1>19, <4>1, <4>2
      <3>2. k = 1
        <4>1. k \in 1 .. Len(s) /\ 1 \in 1 .. Len(s) BY <1>2, <2>0
        <4> QED BY <3>1, <4>1, FramesDiffer, Zenon
      <3> QED BY <1>8, <3>1, <3>2
    <2>4. CASE y # x
      <3>1. x \in All \ {tree.root} /\ Parent(x) = s[1].dir BY <1>12, TreeIs
      <3>2. y \in PathTo[s[1].dir]
        <4>1. PathTo[x] = PathTo[s[1].dir] \cup ({x} \cap Directories) BY <3>1, PathIs
        <4> QED BY <2>1, <2>4, <4>1 DEF Up
      <3>3. PICK m \in 1 .. n : y = s[m].dir BY <1>2, <3>2 DEF StackOk
      <3>4. IsEntry(y, s[k].dir) BY <1>15, <2>1 DEF IsEntry
      <3>5. m # n BY <1>2, <3>3, <3>4, TreeIs DEF StackOk
      <3>6. Under(s, m) BY <1>2, <3>5 DEF StackOk
      <3>7. m + 1 \in 1 .. n BY <3>5
      <3>8. s[k].dir = s[m + 1].dir /\ i = s[m + 1].at - 1
        <4>1. s[k].dir \in Directories /\ s[m + 1].dir \in Directories BY <1>15, <3>7
        <4>2. /\ s[m + 1].at - 1 \in DOMAIN tree.entries[s[m + 1].dir]
              /\ tree.entries[s[k].dir][i] = tree.entries[s[m + 1].dir][s[m + 1].at - 1]
          BY <2>1, <3>3, <3>6 DEF Under
        <4> QED BY <1>17, <4>1, <4>2
      <3>9. k = m + 1
        <4>1. k \in 1 .. Len(s) /\ m + 1 \in 1 .. Len(s) BY <1>2, <3>7
        <4> QED BY <3>8, <4>1, FramesDiffer, Zenon
      <3>10. k # 1 /\ t[k].at = s[k].at /\ s[k].at \in Nat
        <4>1. k # 1 BY <3>9
        <4> QED BY <1>7, <1>15, <4>1
      <3>11. i = s[k].at - 1 BY <3>8, <3>9
      <3>12. PICK a \in Nat : a = s[k].at BY <3>10
      <3>13. i >= a /\ i = a - 1 BY <3>10, <3>11, <3>12
      <3> QED BY <3>12, <3>13
    <2> QED BY <2>3, <2>4
  <1> QED BY <1>2, <1>6, <1>7, <1>8, <1>9, <1>10, <1>11, <1>12, <1>13, <1>14

\* t is s when directory x is entered: the root, or the entry passed last.
Pushes(s, x, t) == t = <<[dir |-> x, at |-> 1, pathSet |-> FALSE]>> \o s
Opens(s, x, t) ==
  /\ IF s = <<>> THEN x = tree.root
     ELSE /\ s[1].at - 1 \in DOMAIN tree.entries[s[1].dir]
          /\ x = tree.entries[s[1].dir][s[1].at - 1]
  /\ Pushes(s, x, t)

\* All that lies below a directory becomes pending when it is entered.
LEMMA EnterDirectory ==
  ASSUME tree \in Trees, NEW s, StackOk(s), NEW x \in Directories, NEW t, Opens(s, x, t)
  PROVE  /\ StackOk(t) /\ Len(t) = Len(s) + 1 /\ t[1].dir = x
         /\ \A k \in 1 .. Len(s) : t[k + 1].dir = s[k].dir
         /\ \A e : Pending(s, e) => Pending(t, e)
         /\ \A e \in All : Pending(t, e) => Pending(s, e) \/ x \in Up(e)
         /\ \A e \in All : x \in Up(e) /\ e # x => Pending(t, e)
  <1>1. PICK n \in Nat : n = Len(s) /\ s \in Seq(Frame) BY DEF StackOk
  <1>12. /\ IF s = <<>> THEN x = tree.root
            ELSE /\ s[1].at - 1 \in DOMAIN tree.entries[s[1].dir]
                 /\ x = tree.entries[s[1].dir][s[1].at - 1]
         /\ t = <<[dir |-> x, at |-> 1, pathSet |-> FALSE]>> \o s
    BY DEF Opens, Pushes
  <1>2. PICK f \in Frame : f = [dir |-> x, at |-> 1, pathSet |-> FALSE]
    <2>1. \A b \in BOOLEAN : [dir |-> x, at |-> 1, pathSet |-> b] \in Frame BY DEF Frame
    <2> QED BY <2>1
  <1>3. f.dir = x /\ f.at = 1 BY <1>2
  <1>4. t \in Seq(Frame) /\ Len(t) = n + 1 /\ t[1] = f /\ \A k \in 1 .. n : t[k + 1] = s[k]
    <2>1. t = <<f>> \o s BY <1>2, <1>12
    <2>2. \A q \in Seq(Frame) : \A a \in Frame :
            /\ <<a>> \o q \in Seq(Frame) /\ Len(<<a>> \o q) = Len(q) + 1
            /\ (<<a>> \o q)[1] = a
            /\ \A k \in 1 .. Len(q) : (<<a>> \o q)[k + 1] = q[k]
      OBVIOUS
    <2>3. s \in Seq(Frame) BY <1>1
    <2>4. /\ <<f>> \o s \in Seq(Frame) /\ Len(<<f>> \o s) = Len(s) + 1
          /\ (<<f>> \o s)[1] = f
          /\ \A k \in 1 .. Len(s) : (<<f>> \o s)[k + 1] = s[k]
      BY <2>2, <2>3, Zenon
    <2> QED BY <1>1, <2>1, <2>4, Zenon
  <1>11. n = 0 <=> s = <<>> BY <1>1
  <1>5. \A m \in 2 .. n + 1 : m - 1 \in 1 .. n /\ t[m] = s[m - 1]
    <2>1. \A m \in 2 .. n + 1 : m - 1 \in 1 .. n /\ (m - 1) + 1 = m BY <1>1
    <2> QED BY <1>4, <2>1
  <1>6. PathTo[x] = {t[j].dir : j \in 1 .. n + 1} /\ Cardinality(PathTo[x]) = n + 1
    <2>1. CASE s = <<>>
      <3>1. n = 0 /\ 1 .. n + 1 = {1} BY <1>1, <2>1
      <3>2. PathTo[x] = {x} BY <1>12, <2>1, PathIs
      <3>3. {t[j].dir : j \in {1}} = {t[1].dir} OBVIOUS
      <3>4. Cardinality({x}) = 1 BY FS_Singleton
      <3> QED BY <1>3, <1>4, <3>1, <3>2, <3>3, <3>4
    <2>2. CASE s # <<>>
      <3>1. 1 \in 1 .. n /\ n # 0 BY <1>1, <2>2
      <3>2. s[1].dir \in Directories
        <4>1. s[1] \in Frame BY <1>1, <3>1
        <4> QED BY <4>1 DEF Frame
      <3>3. IsEntry(x, s[1].dir) BY <1>12, <2>2, <3>2 DEF IsEntry
      <3>4. x \in All \ {tree.root} /\ Parent(x) = s[1].dir BY <3>3, TreeIs
      <3>5. PathTo[x] = PathTo[s[1].dir] \cup {x} BY <3>4, PathIs
      <3>6. Cardinality(PathTo[x]) = Cardinality(PathTo[s[1].dir]) + 1 BY <3>4, PathLonger
      <3>7. PathTo[s[1].dir] = {s[j].dir : j \in 1 .. n}
            /\ Cardinality(PathTo[s[1].dir]) = n - 1 + 1
        BY <1>1, <3>1 DEF StackOk
      <3>8. {t[j].dir : j \in 1 .. n + 1} = {s[j].dir : j \in 1 .. n} \cup {x}
        <4>1. ASSUME NEW j \in 1 .. n + 1 PROVE t[j].dir \in {s[m].dir : m \in 1 .. n} \cup {x}
          <5>1. CASE j = 1 BY <1>3, <1>4, <5>1
          <5>2. CASE j # 1
            <6>1. j \in 2 .. n + 1 BY <5>2
            <6> QED BY <1>5, <6>1
          <5> QED BY <5>1, <5>2
        <4>2. ASSUME NEW m \in 1 .. n PROVE s[m].dir \in {t[j].dir : j \in 1 .. n + 1}
          <5>1. m + 1 \in 1 .. n + 1 /\ t[m + 1] = s[m] BY <1>4
          <5> QED BY <5>1
        <4>3. x \in {t[j].dir : j \in 1 .. n + 1}
          <5>1. 1 \in 1 .. n + 1 /\ t[1].dir = x BY <1>3, <1>4
          <5> QED BY <5>1
        <4> QED BY <4>1, <4>2, <4>3
      <3>9. PathTo[x] = {t[j].dir : j \in 1 .. n + 1} BY <3>5, <3>7, <3>8
      <3>10. Cardinality(PathTo[x]) = n + 1 BY <3>6, <3>7
      <3> QED BY <3>9, <3>10
    <2> QED BY <2>1, <2>2
  <1>7. StackOk(t)
    <2> SUFFICES ASSUME NEW k \in 1 .. n + 1
                 PROVE  /\ IF k = n + 1 THEN t[k].dir = tree.root ELSE Under(t, k)
                        /\ PathTo[t[k].dir] = {t[j].dir : j \in k .. n + 1}
                        /\ Cardinality(PathTo[t[k].dir]) = (n + 1) - k + 1
      BY <1>4 DEF StackOk
    <2>1. CASE k = 1
      <3>1. IF k = n + 1 THEN t[k].dir = tree.root ELSE Under(t, k)
        <4>1. CASE n = 0
          <5>1. s = <<>> BY <1>11, <4>1
          <5> QED BY <1>3, <1>4, <1>12, <2>1, <4>1, <5>1
        <4>2. CASE n # 0
          <5>1. s # <<>> /\ 1 \in 1 .. n BY <1>1, <4>2
          <5>2. t[k + 1] = s[1] /\ t[k].dir = x BY <1>3, <1>4, <2>1, <5>1
          <5> QED BY <1>12, <2>1, <4>2, <5>1, <5>2 DEF Under
        <4> QED BY <4>1, <4>2
      <3>2. t[k].dir = x BY <1>3, <1>4, <2>1
      <3>3. n + 1 = (n + 1) - k + 1 BY <2>1
      <3> QED BY <1>6, <2>1, <3>1, <3>2, <3>3
    <2>2. CASE k # 1
      <3>1. PICK m \in 1 .. n : m = k - 1 /\ k = m + 1 /\ t[k] = s[m]
        <4>1. k \in 2 .. n + 1 /\ k = (k - 1) + 1 BY <2>2
        <4> QED BY <1>5, <4>1
      <3>2. /\ IF m = n THEN s[m].dir = tree.root ELSE Under(s, m)
            /\ PathTo[s[m].dir] = {s[j].dir : j \in m .. n}
            /\ Cardinality(PathTo[s[m].dir]) = n - m + 1
        BY <1>1 DEF StackOk
      <3>3. IF k = n + 1 THEN t[k].dir = tree.root ELSE Under(t, k)
        <4>1. CASE m = n BY <3>1, <3>2, <4>1
        <4>2. CASE m # n
          <5>1. m + 1 \in 1 .. n BY <4>2
          <5>2. t[k + 1] = s[m + 1] BY <1>4, <3>1, <5>1
          <5>3. Under(s, m) /\ k # n + 1 BY <3>1, <3>2, <4>2
          <5> QED BY <3>1, <5>2, <5>3 DEF Under
        <4> QED BY <4>1, <4>2
      <3>4. {t[j].dir : j \in k .. n + 1} = {s[j].dir : j \in m .. n}
        <4>1. ASSUME NEW j \in k .. n + 1 PROVE t[j].dir \in {s[i].dir : i \in m .. n}
          <5>1. j \in 2 .. n + 1 /\ j - 1 \in m .. n BY <3>1
          <5> QED BY <1>5, <5>1
        <4>2. ASSUME NEW i \in m .. n PROVE s[i].dir \in {t[j].dir : j \in k .. n + 1}
          <5>1. i \in 1 .. n /\ i + 1 \in k .. n + 1 BY <3>1
          <5> QED BY <1>4, <5>1
        <4> QED BY <4>1, <4>2
      <3>5. n - m + 1 = (n + 1) - k + 1 BY <3>1
      <3> QED BY <3>1, <3>2, <3>3, <3>4, <3>5
    <2> QED BY <2>1, <2>2
  <1>8. ASSUME NEW e, Pending(s, e) PROVE Pending(t, e)
    <2>1. PICK k \in 1 .. n : \E i \in DOMAIN tree.entries[s[k].dir] :
            i >= s[k].at /\ tree.entries[s[k].dir][i] \in Up(e)
      BY <1>1, <1>8 DEF Pending
    <2>2. k + 1 \in 1 .. n + 1 /\ t[k + 1] = s[k] BY <1>4
    <2> QED BY <1>4, <2>1, <2>2 DEF Pending
  <1>9. ASSUME NEW e \in All, Pending(t, e), ~Pending(s, e) PROVE x \in Up(e)
    <2>1. PICK k \in 1 .. n + 1 : \E i \in DOMAIN tree.entries[t[k].dir] :
            i >= t[k].at /\ tree.entries[t[k].dir][i] \in Up(e)
      BY <1>4, <1>9 DEF Pending
    <2>2. CASE k # 1
      <3>1. k - 1 \in 1 .. n /\ t[k] = s[k - 1]
        <4>1. k \in 2 .. n + 1 BY <2>2
        <4> QED BY <1>5, <4>1
      <3> QED BY <1>1, <1>9, <2>1, <3>1 DEF Pending
    <2>3. CASE k = 1
      <3>1. PICK i \in DOMAIN tree.entries[x] : tree.entries[x][i] \in Up(e)
        BY <1>3, <1>4, <2>1, <2>3
      <3>2. IsEntry(tree.entries[x][i], x) BY DEF IsEntry
      <3>3. tree.entries[x][i] # tree.root /\ Parent(tree.entries[x][i]) = x BY <3>2, TreeIs
      <3>4. x \in PathTo[e] BY <3>1, <3>3, PathsNest
      <3> QED BY <3>4 DEF Up
    <2> QED BY <2>2, <2>3
  <1>10. ASSUME NEW e \in All, x \in Up(e), e # x PROVE Pending(t, e)
    <2>1. x \in PathTo[e] BY <1>10 DEF Up
    <2>2. PICK y \in Up(e) : IsEntry(y, x) BY <1>10, <2>1, PathsNest
    <2>3. PICK i \in DOMAIN tree.entries[x] : tree.entries[x][i] = y BY <2>2 DEF IsEntry
    <2>4. i >= 1
      <3>1. tree.entries[x] \in Seq(All \ {tree.root}) BY TreeIs
      <3> QED BY <3>1
    <2>5. 1 \in 1 .. n + 1 /\ t[1].dir = x /\ t[1].at = 1 BY <1>3, <1>4
    <2> QED BY <1>4, <2>3, <2>4, <2>5 DEF Pending
  <1> QED BY <1>1, <1>3, <1>4, <1>7, <1>8, <1>9, <1>10

\* t is s when its innermost directory has been read to the end.
Leaves(s, t) == s # <<>> /\ s[1].at > Len(tree.entries[s[1].dir]) /\ t = Tail(s)

\* Leaving a directory that has been read to its end leaves the same pending.
LEMMA LeaveCall ==
  ASSUME tree \in Trees, NEW s, StackOk(s), NEW t, Leaves(s, t)
  PROVE  /\ StackOk(t) /\ Len(t) = Len(s) - 1
         /\ \A k \in 1 .. Len(t) : t[k].dir = s[k + 1].dir
         /\ \A e : Pending(t, e) => Pending(s, e)
         /\ \A e : Pending(s, e) => Pending(t, e)
  <1>0. s # <<>> /\ s[1].at > Len(tree.entries[s[1].dir]) /\ t = Tail(s) BY DEF Leaves
  <1>1. PICK n \in Nat \ {0} : n = Len(s) /\ s \in Seq(Frame) BY <1>0 DEF StackOk
  <1>2. t \in Seq(Frame) /\ Len(t) = n - 1 /\ \A k \in 1 .. n - 1 : t[k] = s[k + 1]
    BY <1>0, <1>1
  <1>3. StackOk(t)
    <2> SUFFICES ASSUME NEW k \in 1 .. n - 1
                 PROVE  /\ IF k = n - 1 THEN t[k].dir = tree.root ELSE Under(t, k)
                        /\ PathTo[t[k].dir] = {t[j].dir : j \in k .. n - 1}
                        /\ Cardinality(PathTo[t[k].dir]) = (n - 1) - k + 1
      BY <1>2 DEF StackOk
    <2>1. PICK m \in 1 .. n : m = k + 1 /\ t[k] = s[m] BY <1>2
    <2>2. /\ IF m = n THEN s[m].dir = tree.root ELSE Under(s, m)
          /\ PathTo[s[m].dir] = {s[j].dir : j \in m .. n}
          /\ Cardinality(PathTo[s[m].dir]) = n - m + 1
      BY <1>1 DEF StackOk
    <2>3. IF k = n - 1 THEN t[k].dir = tree.root ELSE Under(t, k)
      <3>1. CASE m = n
        <4>1. k = n - 1 BY <2>1, <3>1
        <4> QED BY <2>1, <2>2, <3>1, <4>1
      <3>2. CASE m # n
        <4>1. k + 1 \in 1 .. n - 1 BY <2>1, <3>2
        <4>2. t[k + 1] = s[m + 1] BY <1>2, <2>1, <4>1
        <4>3. Under(s, m) /\ k # n - 1 BY <2>1, <2>2, <3>2
        <4> QED BY <2>1, <4>2, <4>3 DEF Under
      <3> QED BY <3>1, <3>2
    <2>4. {t[j].dir : j \in k .. n - 1} = {s[j].dir : j \in m .. n}
      <3>1. ASSUME NEW j \in k .. n - 1 PROVE t[j].dir \in {s[i].dir : i \in m .. n}
        <4>1. j \in 1 .. n - 1 /\ j + 1 \in m .. n BY <2>1
        <4> QED BY <1>2, <4>1
      <3>2. ASSUME NEW i \in m .. n PROVE s[i].dir \in {t[j].dir : j \in k .. n - 1}
        <4>1. i - 1 \in 1 .. n - 1 /\ i - 1 \in k .. n - 1 /\ (i - 1) + 1 = i BY <2>1
        <4>2. t[i - 1] = s[i] BY <1>2, <4>1
        <4> QED BY <4>1, <4>2
      <3> QED BY <3>1, <3>2
    <2>5. n - m + 1 = (n - 1) - k + 1 BY <2>1
    <2> QED BY <2>1, <2>2, <2>3, <2>4, <2>5
  <1>4. ASSUME NEW e, Pending(t, e) PROVE Pending(s, e)
    <2>1. PICK k \in 1 .. n - 1 : \E i \in DOMAIN tree.entries[t[k].dir] :
            i >= t[k].at /\ tree.entries[t[k].dir][i] \in Up(e)
      BY <1>2, <1>4 DEF Pending
    <2>2. k + 1 \in 1 .. n /\ t[k] = s[k + 1] BY <1>2
    <2> QED BY <1>1, <2>1, <2>2 DEF Pending
  <1>5. ASSUME NEW e, Pending(s, e) PROVE Pending(t, e)
    <2>1. PICK k \in 1 .. n : \E i \in DOMAIN tree.entries[s[k].dir] :
            i >= s[k].at /\ tree.entries[s[k].dir][i] \in Up(e)
      BY <1>1, <1>5 DEF Pending
    <2>2. k # 1
      <3>1. s[1].dir \in Directories /\ s[1].at \in Nat
        <4>1. s[1] \in Frame BY <1>1
        <4> QED BY <4>1 DEF Frame
      <3>2. tree.entries[s[1].dir] \in Seq(All \ {tree.root}) BY <3>1, TreeIs
      <3>3. \A i \in DOMAIN tree.entries[s[1].dir] : ~(i >= s[1].at) BY <1>0, <3>1, <3>2
      <3> QED BY <2>1, <3>3
    <2>3. k - 1 \in 1 .. n - 1 /\ t[k - 1] = s[k]
      <3>1. k - 1 \in 1 .. n - 1 /\ (k - 1) + 1 = k BY <2>2
      <3> QED BY <1>2, <3>1
    <2> QED BY <1>2, <2>1, <2>3 DEF Pending
  <1> QED BY <1>1, <1>2, <1>3, <1>4, <1>5

-----------------------------------------------------------------------------
(***************************************************************************)
(* The walk's invariant, of a stack s, a list l, the entries k passed over *)
(* for what path held, a status st and op descriptors: what is listed was  *)
(* looked for and is not to come again, and what is looked for is listed   *)
(* or still to come.                                                       *)
(***************************************************************************)
Wanted(e, k) ==
  /\ e \in Files
  /\ program = "mapreduce" =>
       /\ e \in tree.txt /\ PathTo[e] \cap tree.closed = {}
       /\ (PathTo[e] \ {tree.root}) \cap tree.dotted = {}
       /\ Cardinality(PathTo[e]) + 1 <= MaxOpen
  /\ program = "client" => e \notin tree.links /\ Up(e) \cap k = {}

\* The directories that a program calls itself for.
MayEnter(d, k) ==
  /\ d \notin k
  /\ program = "mapreduce" => d \notin tree.closed /\ (d # tree.root => d \notin tree.dotted)

\* What is wanted is listed or pending.
Found(s, l, k) == \A e : Wanted(e, k) => e \in ToSet(l) \/ Pending(s, e)

\* What is listed, and what was passed over, is behind the walk.
Listing(s, l, k) ==
  /\ StackOk(s) /\ l \in Seq(Files) /\ IsInjective(l) /\ k \in SUBSET All
  /\ \A e \in ToSet(l) \cup k : ~Pending(s, e)
  /\ \A i \in 1 .. Len(s) : MayEnter(s[i].dir, k)
  /\ \A e \in ToSet(l) : Wanted(e, k)

\* Both, and what the status says of the stack and the descriptors.
WalkOk(s, l, k, st, op) ==
  /\ Listing(s, l, k) /\ op \in Nat
  /\ st \in {"start", "call"} => s = <<>> /\ k = {} /\ (program # "wcs" => l = <<>>)
  /\ st = "start" => op = 0
  /\ s = <<>> \/ st \in {"walk", "exited", "undefined"}
  /\ st \in {"walk", "listed"} /\ program # "wcs" => Found(s, l, k)
  /\ st \in {"call", "walk"} /\ program = "mapreduce" => op = 1 + Len(s) /\ op <= MaxOpen

\* The files of a directory on the stack are those the calls lead to.
LEMMA EntryIs ==
  ASSUME tree \in Trees, NEW s, StackOk(s), NEW x, At(s, x)
  PROVE  /\ s[1].dir \in Directories /\ x \in All \ {tree.root}
         /\ PathTo[x] = {s[i].dir : i \in 1 .. Len(s)} \cup ({x} \cap Directories)
         /\ IF x \in Directories THEN Cardinality(PathTo[x]) = Len(s) + 1
            ELSE x \in Files /\ Cardinality(PathTo[x]) = Len(s)
  <1>1. PICK n \in Nat \ {0} : n = Len(s) /\ s \in Seq(Frame) BY DEF StackOk, At
  <1>2. s[1].dir \in Directories
    <2>1. s[1] \in Frame BY <1>1
    <2> QED BY <2>1 DEF Frame
  <1>3. IsEntry(x, s[1].dir) BY <1>2 DEF IsEntry, At
  <1>4. x \in All \ {tree.root} /\ Parent(x) = s[1].dir BY <1>3, TreeIs
  <1>5. PathTo[x] = PathTo[s[1].dir] \cup ({x} \cap Directories) BY <1>4, PathIs
  <1>6. PathTo[s[1].dir] = {s[i].dir : i \in 1 .. n} /\ Cardinality(PathTo[s[1].dir]) = n
    <2>1. 1 \in 1 .. n /\ n - 1 + 1 = n BY <1>1
    <2> QED BY <1>1, <2>1 DEF StackOk
  <1>7. x \notin Directories => PathTo[x] = PathTo[s[1].dir] BY <1>5
  <1>8. x \notin Directories => x \in Files BY <1>4 DEF All
  <1>9. x \notin Directories => Cardinality(PathTo[x]) = n BY <1>6, <1>7
  <1>10. x \in Directories => Cardinality(PathTo[x]) = Cardinality(PathTo[s[1].dir]) + 1
    BY <1>4, PathLonger
  <1>11. x \in Directories => Cardinality(PathTo[x]) = n + 1 BY <1>6, <1>10
  <1> QED BY <1>1, <1>2, <1>4, <1>5, <1>6, <1>8, <1>9, <1>11

\* A file is above nothing, and below it is only itself.
LEMMA OnlyItself ==
  ASSUME tree \in Trees, NEW x \in All \ Directories, NEW e \in All, x \in Up(e)
  PROVE  e = x
  <1>1. PathTo[e] \subseteq Directories BY PathIsDirectories
  <1> QED BY <1>1 DEF Up

\* An entry that is not wanted, with all below it, may be passed.
LEMMA PassWithout ==
  ASSUME tree \in Trees, NEW s, NEW l, NEW k, NEW op, WalkOk(s, l, k, "walk", op),
         NEW x, NEW t, Passes(s, x, t),
         NEW st \in {"walk", "exited", "undefined"},
         st = "walk" => \A e : x \in Up(e) => ~Wanted(e, k)
  PROVE  WalkOk(t, l, k, st, op)
  <1>1. Listing(s, l, k) BY DEF WalkOk
  <1>2. /\ StackOk(t) /\ Len(t) = Len(s)
        /\ \A i \in 1 .. Len(s) : t[i].dir = s[i].dir
        /\ \A e : Pending(t, e) => Pending(s, e)
        /\ \A e : Pending(s, e) /\ x \notin Up(e) => Pending(t, e)
    <2>1. StackOk(s) BY <1>1 DEF Listing
    <2> QED BY <2>1, PassEntry
  <1>3. Listing(t, l, k) BY <1>1, <1>2 DEF Listing
  <1>4. ASSUME st = "walk", program # "wcs" PROVE Found(t, l, k)
    <2>1. Found(s, l, k) BY <1>4 DEF WalkOk
    <2> QED BY <1>2, <1>4, <2>1 DEF Found
  <1>5. op \in Nat /\ (program = "mapreduce" => op = 1 + Len(s) /\ op <= MaxOpen)
    BY DEF WalkOk
  <1> QED BY <1>2, <1>3, <1>4, <1>5 DEF WalkOk

\* So may one that is taken for a link: it is noted.
LEMMA PassSkipping ==
  ASSUME tree \in Trees, NEW s, NEW l, NEW k, NEW op, WalkOk(s, l, k, "walk", op),
         NEW x, NEW t, Passes(s, x, t),
         program = "client"
  PROVE  WalkOk(t, l, k \cup {x}, "walk", op)
  <1>1. Listing(s, l, k) BY DEF WalkOk
  <1>2. /\ StackOk(t) /\ Len(t) = Len(s)
        /\ \A i \in 1 .. Len(s) : t[i].dir = s[i].dir
        /\ \A e : Pending(t, e) => Pending(s, e)
        /\ \A e : Pending(s, e) /\ x \notin Up(e) => Pending(t, e)
        /\ IsEntry(x, s[1].dir) /\ Pending(s, x) /\ ~Pending(t, x)
    <2>1. StackOk(s) BY <1>1 DEF Listing
    <2> QED BY <2>1, PassEntry
  <1>3. x \in All \ {tree.root}
    <2>1. StackOk(s) /\ At(s, x) BY <1>1 DEF Listing, Passes
    <2> QED BY <2>1, EntryIs
  <1>4. ASSUME NEW i \in 1 .. Len(s) PROVE s[i].dir # x
    <2>1. SUFFICES ASSUME s[i].dir = x PROVE FALSE OBVIOUS
    <2>2. StackOk(s) /\ s \in Seq(Frame) BY <1>1 DEF Listing, StackOk
    <2>3. PICK n \in Nat \ {0} : n = Len(s) BY <2>2
    <2>4. s[1].dir \in Directories /\ s[i].dir \in Directories
      <3>1. s[1] \in Frame /\ s[i] \in Frame BY <2>2, <2>3
      <3> QED BY <3>1 DEF Frame
    <2>5. Parent(x) = s[1].dir BY <1>2, TreeIs
    <2>6. x \notin PathTo[s[1].dir] BY <1>3, <2>1, <2>4, <2>5, PathLonger
    <2>7. PathTo[s[1].dir] = {s[j].dir : j \in 1 .. Len(s)}
      <3>1. 1 \in 1 .. Len(s) BY <2>3
      <3> QED BY <2>2, <3>1 DEF StackOk
    <2> QED BY <2>1, <2>6, <2>7
  <1>5. Listing(t, l, k \cup {x})
    <2>1. \A e \in ToSet(l) \cup (k \cup {x}) : ~Pending(t, e) BY <1>1, <1>2 DEF Listing
    <2>2. \A i \in 1 .. Len(t) : MayEnter(t[i].dir, k \cup {x})
      BY <1>1, <1>2, <1>4 DEF Listing, MayEnter
    <2>3. ASSUME NEW e \in ToSet(l) PROVE Wanted(e, k \cup {x})
      <3>1. Wanted(e, k) /\ ~Pending(s, e) BY <1>1 DEF Listing
      <3>2. x \notin Up(e)
        <4>1. At(s, x) BY DEF Passes
        <4>0. s \in Seq(Frame) /\ s # <<>> BY <1>1, <4>1 DEF Listing, StackOk, At
        <4>2. s[1].at >= s[1].at
          <5>1. s[1] \in Frame BY <4>0
          <5> QED BY <5>1 DEF Frame
        <4>3. 1 \in 1 .. Len(s) BY <4>0
        <4> QED BY <3>1, <4>1, <4>2, <4>3 DEF Pending, At
      <3> QED BY <3>1, <3>2 DEF Wanted
    <2>4. k \cup {x} \in SUBSET All BY <1>1, <1>3 DEF Listing
    <2> QED BY <1>1, <1>2, <2>1, <2>2, <2>3, <2>4 DEF Listing
  <1>6. Found(t, l, k \cup {x})
    <2>1. Found(s, l, k) BY DEF WalkOk
    <2>2. \A e : Wanted(e, k \cup {x}) => Wanted(e, k) /\ x \notin Up(e) BY DEF Wanted
    <2> QED BY <1>2, <2>1, <2>2 DEF Found
  <1>7. op \in Nat BY DEF WalkOk
  <1> QED BY <1>5, <1>6, <1>7 DEF WalkOk

\* A list without repetition stays one when something new is appended.
LEMMA AppendNew ==
  ASSUME NEW S, NEW l \in Seq(S), NEW x \in S, x \notin ToSet(l), IsInjective(l)
  PROVE  /\ Append(l, x) \in Seq(S) /\ IsInjective(Append(l, x))
         /\ ToSet(Append(l, x)) = ToSet(l) \cup {x}
  <1>1. PICK n \in Nat : n = Len(l) OBVIOUS
  <1>2. PICK m \in Seq(S) : m = Append(l, x)
    <2>1. Append(l, x) \in Seq(S) OBVIOUS
    <2> QED BY <2>1, Zenon
  <1>3. Len(m) = n + 1 /\ m[n + 1] = x /\ \A i \in 1 .. n : m[i] = l[i] BY <1>1, <1>2
  <1>4. DOMAIN l = 1 .. n /\ DOMAIN m = 1 .. n + 1 BY <1>1, <1>3
  <1>5. \A i \in 1 .. n + 1 : i = n + 1 \/ i \in 1 .. n OBVIOUS
  <1>6. \A i \in 1 .. n : l[i] # x /\ i # n + 1 BY <1>4 DEF ToSet
  <1>7. \A i, j \in 1 .. n : l[i] = l[j] => i = j BY <1>4 DEF IsInjective
  <1>8. \A i, j \in 1 .. n + 1 : m[i] = m[j] => i = j BY <1>3, <1>5, <1>6, <1>7
  <1>9. ToSet(m) = ToSet(l) \cup {x}
    <2>1. ASSUME NEW y \in ToSet(m) PROVE y \in ToSet(l) \cup {x}
      <3>1. PICK i \in 1 .. n + 1 : m[i] = y BY <1>4 DEF ToSet
      <3> QED BY <1>3, <1>4, <1>5, <3>1 DEF ToSet
    <2>2. ASSUME NEW y \in ToSet(l) \cup {x} PROVE y \in ToSet(m)
      <3>1. CASE y = x
        <4>1. n + 1 \in 1 .. n + 1 OBVIOUS
        <4> QED BY <1>3, <1>4, <3>1, <4>1 DEF ToSet
      <3>2. CASE y \in ToSet(l)
        <4>1. PICK i \in 1 .. n : l[i] = y BY <1>4, <3>2 DEF ToSet
        <4>2. i \in 1 .. n + 1 /\ m[i] = y BY <1>3, <4>1
        <4> QED BY <1>4, <4>2 DEF ToSet
      <3> QED BY <2>2, <3>1, <3>2
    <2> QED BY <2>1, <2>2
  <1> QED BY <1>2, <1>4, <1>8, <1>9 DEF IsInjective

\* All that lies at or below the next entry is pending.
LEMMA NextIsPending ==
  ASSUME NEW s, StackOk(s), NEW x, At(s, x), NEW e, x \in Up(e)
  PROVE  Pending(s, e)
  <1>1. s \in Seq(Frame) /\ s # <<>> BY DEF StackOk, At
  <1>2. s[1] \in Frame /\ 1 \in 1 .. Len(s) BY <1>1
  <1>3. s[1].at >= s[1].at BY <1>2 DEF Frame
  <1> QED BY <1>2, <1>3 DEF Pending, At

\* A wanted file may be passed and listed.
LEMMA PassListing ==
  ASSUME tree \in Trees, NEW s, NEW l, NEW k, NEW op, WalkOk(s, l, k, "walk", op),
         NEW x, NEW t, Passes(s, x, t), x \notin Directories, Wanted(x, k)
  PROVE  WalkOk(t, Append(l, x), k, "walk", op)
  <1>1. Listing(s, l, k) /\ StackOk(s) /\ At(s, x) BY DEF WalkOk, Listing, Passes
  <1>2. /\ StackOk(t) /\ Len(t) = Len(s)
        /\ \A i \in 1 .. Len(s) : t[i].dir = s[i].dir
        /\ \A e : Pending(t, e) => Pending(s, e)
        /\ \A e : Pending(s, e) /\ x \notin Up(e) => Pending(t, e)
        /\ Pending(s, x) /\ ~Pending(t, x)
    BY <1>1, PassEntry
  <1>3. x \in Files /\ x \in All BY DEF Wanted, All
  <1>4. x \notin ToSet(l) BY <1>1, <1>2 DEF Listing
  <1>5. PICK m \in Seq(Files) : m = Append(l, x) /\ IsInjective(m) /\ ToSet(m) = ToSet(l) \cup {x}
    <2>1. l \in Seq(Files) /\ IsInjective(l) BY <1>1 DEF Listing
    <2>2. /\ Append(l, x) \in Seq(Files) /\ IsInjective(Append(l, x))
          /\ ToSet(Append(l, x)) = ToSet(l) \cup {x}
      BY <1>3, <1>4, <2>1, AppendNew
    <2> QED BY <2>2, Zenon
  <1>6. Listing(t, m, k) BY <1>1, <1>2, <1>5 DEF Listing
  <1>7. ASSUME program # "wcs" PROVE Found(t, m, k)
    <2>1. Found(s, l, k) BY <1>7 DEF WalkOk
    <2> SUFFICES ASSUME NEW e, Wanted(e, k) PROVE e \in ToSet(m) \/ Pending(t, e) BY DEF Found
    <2>2. e \in All BY DEF Wanted, All
    <2>3. CASE x \in Up(e) BY <1>3, <1>5, <2>2, <2>3, OnlyItself
    <2>4. CASE x \notin Up(e) BY <1>2, <1>5, <2>1, <2>4 DEF Found
    <2> QED BY <2>3, <2>4
  <1>8. op \in Nat /\ (program = "mapreduce" => op = 1 + Len(s) /\ op <= MaxOpen)
    BY DEF WalkOk
  <1> QED BY <1>2, <1>5, <1>6, <1>7, <1>8 DEF WalkOk

\* A directory may be passed and entered.
LEMMA PassEntering ==
  ASSUME tree \in Trees, NEW s, NEW l, NEW k, NEW op, WalkOk(s, l, k, "walk", op),
         NEW x, NEW t, Passes(s, x, t), x \in Directories, MayEnter(x, k),
         program = "mapreduce" => op < MaxOpen,
         NEW u, Pushes(t, x, u)
  PROVE  WalkOk(u, l, k, "walk", op + 1)
  <1>1. Listing(s, l, k) /\ StackOk(s) /\ At(s, x) BY DEF WalkOk, Listing, Passes
  <1>2. PICK n \in Nat \ {0} : n = Len(s) /\ s[1].at \in Nat
    <2>1. s \in Seq(Frame) /\ s # <<>> BY <1>1 DEF StackOk, At
    <2>2. s[1] \in Frame /\ Len(s) \in Nat \ {0} BY <2>1
    <2> QED BY <2>2 DEF Frame
  <1>3. /\ StackOk(t) /\ Len(t) = n
        /\ \A i \in 1 .. n : t[i].dir = s[i].dir
        /\ t[1].at = s[1].at + 1
        /\ \A e : Pending(t, e) => Pending(s, e)
        /\ \A e : Pending(s, e) /\ x \notin Up(e) => Pending(t, e)
    BY <1>1, <1>2, PassEntry
  <1>4. /\ t # <<>> /\ t[1].at - 1 \in DOMAIN tree.entries[t[1].dir]
        /\ x = tree.entries[t[1].dir][t[1].at - 1]
    <2>1. t # <<>> BY <1>2, <1>3 DEF StackOk
    <2>2. t[1].at - 1 = s[1].at /\ t[1].dir = s[1].dir BY <1>2, <1>3
    <2> QED BY <1>1, <2>1, <2>2 DEF At
  <1>5. /\ StackOk(u) /\ Len(u) = n + 1 /\ u[1].dir = x
        /\ \A i \in 1 .. n : u[i + 1].dir = t[i].dir
        /\ \A e : Pending(t, e) => Pending(u, e)
        /\ \A e \in All : Pending(u, e) => Pending(t, e) \/ x \in Up(e)
        /\ \A e \in All : x \in Up(e) /\ e # x => Pending(u, e)
    <2>1. Opens(t, x, u) BY <1>4 DEF Opens
    <2>2. /\ StackOk(u) /\ Len(u) = Len(t) + 1 /\ u[1].dir = x
          /\ \A i \in 1 .. Len(t) : u[i + 1].dir = t[i].dir
          /\ \A e : Pending(t, e) => Pending(u, e)
          /\ \A e \in All : Pending(u, e) => Pending(t, e) \/ x \in Up(e)
          /\ \A e \in All : x \in Up(e) /\ e # x => Pending(u, e)
      BY <1>3, <2>1, EnterDirectory
    <2> QED BY <1>3, <2>2
  <1>6. Listing(u, l, k)
    <2>1. ASSUME NEW e \in ToSet(l) \cup k PROVE ~Pending(u, e)
      <3>1. e \in All
        <4>1. l \in Seq(Files) /\ k \in SUBSET All BY <1>1 DEF Listing
        <4>2. ToSet(l) \subseteq Files BY <4>1 DEF ToSet
        <4> QED BY <4>1, <4>2 DEF All
      <3>2. ~Pending(s, e) BY <1>1 DEF Listing
      <3>3. x \notin Up(e) BY <1>1, <3>2, NextIsPending
      <3> QED BY <1>3, <1>5, <3>1, <3>2, <3>3
    <2>2. ASSUME NEW i \in 1 .. n + 1 PROVE MayEnter(u[i].dir, k)
      <3>1. CASE i = 1 BY <1>5, <3>1
      <3>2. CASE i # 1
        <4>1. i - 1 \in 1 .. n /\ (i - 1) + 1 = i BY <3>2
        <4>2. u[i].dir = s[i - 1].dir BY <1>3, <1>5, <4>1
        <4> QED BY <1>1, <1>2, <4>1, <4>2 DEF Listing
      <3> QED BY <3>1, <3>2
    <2> QED BY <1>1, <1>5, <2>1, <2>2 DEF Listing
  <1>7. ASSUME program # "wcs" PROVE Found(u, l, k)
    <2>1. Found(s, l, k) BY <1>7 DEF WalkOk
    <2> SUFFICES ASSUME NEW e, Wanted(e, k) PROVE e \in ToSet(l) \/ Pending(u, e) BY DEF Found
    <2>2. e \in All /\ e # x BY TreeIs DEF Wanted, All
    <2>3. CASE x \in Up(e) BY <1>5, <2>2, <2>3
    <2>4. CASE x \notin Up(e) BY <1>3, <1>5, <2>1, <2>4 DEF Found
    <2> QED BY <2>3, <2>4
  <1>8. op \in Nat /\ (program = "mapreduce" => op = 1 + n /\ op <= MaxOpen)
    BY <1>2 DEF WalkOk
  <1>9. op + 1 \in Nat
        /\ (program = "mapreduce" => op + 1 = 1 + Len(u) /\ op + 1 <= MaxOpen)
    BY <1>2, <1>5, <1>8, WalkAssumption
  <1> QED BY <1>6, <1>7, <1>9 DEF WalkOk

\* The walk begins: below the root lies everything.
LEMMA EnterRoot ==
  ASSUME tree \in Trees, NEW l, NEW k, NEW op, WalkOk(<<>>, l, k, "call", op),
         program # "wcs", tree.root \notin tree.closed, op < MaxOpen,
         NEW u, Pushes(<<>>, tree.root, u)
  PROVE  WalkOk(u, l, k, "walk", op + 1)
  <1>1. Listing(<<>>, l, k) /\ k = {} /\ l = <<>> BY DEF WalkOk
  <1>2. PICK s \in Seq(Frame) : s = <<>> BY <1>1 DEF Listing, StackOk
  <1>3. StackOk(s) /\ Len(s) = 0 /\ (\A e : ~Pending(s, e)) /\ tree.root \in Directories
    BY <1>1, <1>2, TreeIs DEF Listing, Pending
  <1>4. PICK x \in Directories : x = tree.root BY <1>3
  <1>5. /\ StackOk(u) /\ Len(u) = Len(s) + 1 /\ u[1].dir = x
        /\ \A e \in All : x \in Up(e) /\ e # x => Pending(u, e)
    <2>1. Opens(s, x, u) BY <1>2, <1>4 DEF Opens
    <2>2. StackOk(s) BY <1>3
    <2>3. /\ StackOk(u) /\ Len(u) = Len(s) + 1 /\ u[1].dir = x
          /\ \A i \in 1 .. Len(s) : u[i + 1].dir = s[i].dir
          /\ \A e : Pending(s, e) => Pending(u, e)
          /\ \A e \in All : Pending(u, e) => Pending(s, e) \/ x \in Up(e)
          /\ \A e \in All : x \in Up(e) /\ e # x => Pending(u, e)
      BY <2>1, <2>2, EnterDirectory
    <2> QED BY <2>3
  <1>6. Len(u) = 1 BY <1>3, <1>5
  <1>7. Listing(u, l, k)
    <2>1. l \in Seq(Files) /\ IsInjective(l) /\ k \in SUBSET All BY <1>1 DEF Listing
    <2>2. ToSet(l) = {} BY <1>1 DEF ToSet
    <2>3. \A i \in 1 .. Len(u) : MayEnter(u[i].dir, k)
      <3>1. \A i \in 1 .. Len(u) : i = 1 BY <1>6
      <3>2. MayEnter(x, k) BY <1>1, <1>4 DEF MayEnter
      <3> QED BY <1>5, <3>1, <3>2
    <2> QED BY <1>1, <1>5, <2>1, <2>2, <2>3 DEF Listing
  <1>8. Found(u, l, k)
    <2> SUFFICES ASSUME NEW e, Wanted(e, k) PROVE Pending(u, e) BY DEF Found
    <2>1. e \in Files BY DEF Wanted
    <2>2. e \in All /\ e # x BY <1>4, <2>1, TreeIs DEF All
    <2>3. x \in Up(e) BY <1>4, <2>2, PathIsDirectories DEF Up
    <2> QED BY <1>5, <2>2, <2>3
  <1>9. op \in Nat /\ (program = "mapreduce" => op = 1) BY DEF WalkOk
  <1>10. op + 1 \in Nat
         /\ (program = "mapreduce" => op + 1 = 1 + Len(u) /\ op + 1 <= MaxOpen)
    BY <1>6, <1>9, WalkAssumption
  <1> QED BY <1>7, <1>8, <1>10 DEF WalkOk

\* mapreduce finds nothing when it cannot open the root.
LEMMA RootStaysClosed ==
  ASSUME tree \in Trees, NEW l, NEW k, NEW op, WalkOk(<<>>, l, k, "call", op),
         program = "mapreduce", tree.root \in tree.closed \/ ~(op < MaxOpen)
  PROVE  WalkOk(<<>>, l, k, "walk", op)
  <1>1. Listing(<<>>, l, k) /\ op \in Nat /\ op = 1 + Len(<<>>) /\ op <= MaxOpen BY DEF WalkOk
  <1>2. Found(<<>>, l, k)
    <2> SUFFICES ASSUME NEW e, Wanted(e, k) PROVE FALSE BY DEF Found
    <2>1. e \in All BY DEF Wanted, All
    <2>2. tree.root \in PathTo[e] /\ IsFiniteSet(PathTo[e]) BY <2>1, PathIsDirectories
    <2>3. PathTo[e] \cap tree.closed = {} /\ Cardinality(PathTo[e]) + 1 <= MaxOpen
      BY DEF Wanted
    <2>4. MaxOpen = 1 BY <1>1, <2>2, <2>3, WalkAssumption
    <2>5. Cardinality(PathTo[e]) = 0 BY <2>2, <2>3, <2>4, FS_CardinalityType
    <2> QED BY <2>2, <2>5, FS_EmptySet
  <1> QED BY <1>1, <1>2 DEF WalkOk

\* A directory that has been read may be left.
LEMMA PassLeaving ==
  ASSUME tree \in Trees, NEW s, NEW l, NEW k, NEW op,
         WalkOk(s, l, k, "walk", op), NEW t, Leaves(s, t),
         NEW o, o = IF program = "mapreduce" THEN op - 1 ELSE op
  PROVE  WalkOk(t, l, k, "walk", o)
  <1>1. Listing(s, l, k) /\ StackOk(s) BY DEF WalkOk, Listing
  <1>2. PICK n \in Nat \ {0} : n = Len(s) BY <1>1 DEF StackOk, Leaves
  <1>3. /\ StackOk(t) /\ Len(t) = n - 1
        /\ \A i \in 1 .. n - 1 : t[i].dir = s[i + 1].dir
        /\ \A e : Pending(t, e) <=> Pending(s, e)
    <2>1. /\ StackOk(t) /\ Len(t) = Len(s) - 1
          /\ \A i \in 1 .. Len(t) : t[i].dir = s[i + 1].dir
          /\ \A e : Pending(t, e) => Pending(s, e)
          /\ \A e : Pending(s, e) => Pending(t, e)
      BY <1>1, LeaveCall
    <2> QED BY <1>2, <2>1
  <1>4. Listing(t, l, k)
    <2>1. ASSUME NEW i \in 1 .. n - 1 PROVE MayEnter(t[i].dir, k)
      <3>1. i + 1 \in 1 .. n BY <1>2
      <3> QED BY <1>1, <1>2, <1>3, <3>1 DEF Listing
    <2> QED BY <1>1, <1>3, <2>1 DEF Listing
  <1>5. program # "wcs" => Found(t, l, k) BY <1>3 DEF WalkOk, Found
  <1>6. op \in Nat /\ (program = "mapreduce" => op = 1 + n /\ op <= MaxOpen)
    BY <1>2 DEF WalkOk
  <1>7. o \in Nat /\ (program = "mapreduce" => o = 1 + Len(t) /\ o <= MaxOpen)
    BY <1>3, <1>6, WalkAssumption
  <1> QED BY <1>4, <1>5, <1>7 DEF WalkOk

-----------------------------------------------------------------------------
(***************************************************************************)
(* The actions of the walk.                                                *)
(***************************************************************************)
WalkInv ==
  /\ tree \in Trees /\ program \in {"mapreduce", "client", "wcs"}
  /\ WalkOk(stack, listed, skipped, status, opened)

\* No step changes the tree or the program.
LEMMA TreeStays ==
  ASSUME tree' = tree
  PROVE  /\ Directories' = Directories /\ Files' = Files /\ All' = All /\ PathTo' = PathTo
         /\ Frame' = Frame
  <1>1. Directories' = Directories /\ Files' = Files /\ PathTo' = PathTo
    BY DEF PathTo, Parent, Directories, Files, Entries
  <1> QED BY <1>1 DEF All, Frame

\* The invariant holds of the next state if it holds of its stack, list...
LEMMA WalkInvNext ==
  ASSUME tree \in Trees, program \in {"mapreduce", "client", "wcs"},
         tree' = tree, program' = program,
         NEW s, NEW l, NEW k, NEW st, NEW op, WalkOk(s, l, k, st, op),
         s = stack', l = listed', k = skipped', st = status', op = opened'
  PROVE  WalkInv'
  <1>1. /\ Directories' = Directories /\ Files' = Files /\ All' = All /\ PathTo' = PathTo
        /\ Frame' = Frame
    BY TreeStays
  <1>2. StackOk(stack)' <=> StackOk(s)
    BY <1>1 DEF StackOk, Under
  <1>3. \A e : Pending(stack, e)' <=> Pending(s, e) BY <1>1 DEF Pending, Up
  <1>4. \A e : Wanted(e, skipped)' <=> Wanted(e, k) BY <1>1 DEF Wanted, Up
  <1>5. \A d : MayEnter(d, skipped)' <=> MayEnter(d, k) BY DEF MayEnter
  <1>6. Listing(stack, listed, skipped)' <=> Listing(s, l, k)
    BY <1>1, <1>2, <1>3, <1>4, <1>5 DEF Listing, ToSet, IsInjective
  <1>7. Found(stack, listed, skipped)' <=> Found(s, l, k)
    BY <1>3, <1>4 DEF Found, ToSet
  <1>8. WalkOk(stack, listed, skipped, status, opened)' BY <1>6, <1>7 DEF WalkOk
  <1> QED BY <1>8 DEF WalkInv

\* What ReadEntry and its like do to the stack.
LEMMA EntryPasses ==
  ASSUME WalkInv, MoreEntries
  PROVE  /\ Passes(stack, Entry, Passed) /\ Passes(stack, Entry, Traversed(Entry))
         /\ Pending(stack, Entry) /\ Entry \notin skipped
  <1>1. /\ tree \in Trees /\ StackOk(stack) /\ stack # <<>>
        /\ Top.at <= Len(tree.entries[Top.dir])
        /\ \A e \in skipped : ~Pending(stack, e)
    BY DEF WalkInv, WalkOk, Listing, MoreEntries
  <1>2. stack \in Seq(Frame) BY <1>1 DEF StackOk
  <1>3. PICK f \in Frame : f = stack[1] /\ f = Top BY <1>1, <1>2 DEF Top
  <1>4. f.dir \in Directories /\ f.at \in Nat \ {0} /\ f.pathSet \in BOOLEAN BY DEF Frame
  <1>5. f.at \in DOMAIN tree.entries[f.dir]
    <2>1. tree.entries[f.dir] \in Seq(All \ {tree.root}) BY <1>1, <1>4, TreeIs
    <2>2. f.at <= Len(tree.entries[f.dir]) BY <1>1, <1>3
    <2> QED BY <1>4, <2>1, <2>2
  <1>6. At(stack, Entry) BY <1>1, <1>3, <1>5 DEF At, Entry
  <1>7. PICK g \in Frame : g = [f EXCEPT !.at = @ + 1] /\ g.dir = f.dir /\ g.at = f.at + 1
    <2>1. /\ [f EXCEPT !.at = @ + 1] \in Frame
          /\ [f EXCEPT !.at = @ + 1].dir = f.dir /\ [f EXCEPT !.at = @ + 1].at = f.at + 1
      BY DEF Frame
    <2> QED BY <2>1
  <1>8. PICK h \in Frame : /\ h = [f EXCEPT !.at = @ + 1, !.pathSet = TRUE]
                          /\ h.dir = f.dir /\ h.at = f.at + 1
    <2>1. [g EXCEPT !.pathSet = TRUE] = [f EXCEPT !.at = @ + 1, !.pathSet = TRUE] BY <1>7
    <2>2. /\ [g EXCEPT !.pathSet = TRUE] \in Frame
          /\ [g EXCEPT !.pathSet = TRUE].dir = g.dir /\ [g EXCEPT !.pathSet = TRUE].at = g.at
      BY DEF Frame
    <2> QED BY <1>7, <2>1, <2>2
  <1>9. Passed = <<g>> \o Tail(stack) /\ Traversed(Entry) = <<h>> \o Tail(stack)
    BY <1>3, <1>7, <1>8 DEF Passed, Traversed
  <1>10. Passes(stack, Entry, Passed) BY <1>3, <1>6, <1>7, <1>9 DEF Passes
  <1>11. Passes(stack, Entry, Traversed(Entry)) BY <1>3, <1>6, <1>8, <1>9 DEF Passes
  <1>12. Pending(stack, Entry) BY <1>1, <1>6, NextIsPending DEF Up
  <1> QED BY <1>1, <1>10, <1>11, <1>12

\* Nothing below a directory that mapreduce does not enter is wanted.
LEMMA NothingBelow ==
  ASSUME tree \in Trees, program = "mapreduce", NEW d \in Directories, NEW k, NEW e,
         d \in Up(e), Wanted(e, k),
         d \in tree.closed \/ (d # tree.root /\ d \in tree.dotted)
           \/ ~(Cardinality(PathTo[d]) + 1 <= MaxOpen)
  PROVE  FALSE
  <1>1. e \in Files /\ e \in All BY DEF Wanted, All
  <1>2. d \in PathTo[e]
    <2>1. e # d BY <1>1, TreeIs
    <2> QED BY <2>1 DEF Up
  <1>3. PathTo[d] \subseteq PathTo[e] /\ IsFiniteSet(PathTo[e])
    BY <1>1, <1>2, PathsNest, PathIsDirectories
  <1>4. Cardinality(PathTo[d]) <= Cardinality(PathTo[e])
        /\ Cardinality(PathTo[d]) \in Nat /\ Cardinality(PathTo[e]) \in Nat
    BY <1>3, FS_Subset, FS_CardinalityType
  <1>5. /\ PathTo[e] \cap tree.closed = {} /\ (PathTo[e] \ {tree.root}) \cap tree.dotted = {}
        /\ Cardinality(PathTo[e]) + 1 <= MaxOpen
    BY DEF Wanted
  <1>6. Cardinality(PathTo[d]) + 1 <= MaxOpen BY <1>4, <1>5, WalkAssumption
  <1> QED BY <1>2, <1>5, <1>6

\* main looks at its argument.
LEMMA CheckArgumentOk == ASSUME WalkInv, program # "wcs", CheckArgument PROVE WalkInv'
  <1>1. /\ tree \in Trees /\ program \in {"mapreduce", "client", "wcs"}
        /\ WalkOk(stack, listed, skipped, "start", opened) /\ status = "start"
        /\ UNCHANGED <<program, tree, stack, listed, skipped>>
        /\ \/ status' = "call" /\ program = "client" /\ opened' = opened
           \/ status' = "call" /\ opened < MaxOpen /\ opened' = opened + 1
           \/ status' = "refused" /\ opened' = opened
    BY DEF WalkInv, CheckArgument, CanOpen
  <1>2. /\ Listing(stack, listed, skipped) /\ stack = <<>> /\ skipped = {} /\ listed = <<>>
        /\ opened = 0
    BY <1>1 DEF WalkOk
  <1>3. Len(stack) = 0 BY <1>2
  <1>4. PICK o \in Nat : o = opened' BY <1>1, <1>2
  <1>5. WalkOk(stack, listed, skipped, status', o)
    BY <1>1, <1>2, <1>3, <1>4, WalkAssumption DEF WalkOk
  <1> QED BY <1>1, <1>4, <1>5, WalkInvNext

\* The first call, for the root.
LEMMA CallRootOk == ASSUME WalkInv, program # "wcs", CallRoot PROVE WalkInv'
  <1>1. /\ tree \in Trees /\ program \in {"mapreduce", "client", "wcs"}
        /\ WalkOk(stack, listed, skipped, "call", opened) /\ status = "call"
        /\ UNCHANGED <<program, tree, listed, skipped>> /\ Call(tree.root, <<>>)
    BY DEF WalkInv, CallRoot
  <1>2. /\ Listing(stack, listed, skipped) /\ stack = <<>> /\ skipped = {} /\ listed = <<>>
        /\ opened \in Nat
    BY <1>1 DEF WalkOk
  <1>3. WalkOk(<<>>, listed, skipped, "call", opened) BY <1>1, <1>2
  <1>4. CASE CanOpen(tree.root)
    <2>1. /\ Pushes(<<>>, tree.root, stack') /\ opened' = opened + 1 /\ status' = "walk"
          /\ tree.root \notin tree.closed /\ opened < MaxOpen
      BY <1>1, <1>4 DEF Call, CanOpen, Pushes
    <2>2. PICK u : u = stack' OBVIOUS
    <2>3. WalkOk(u, listed, skipped, "walk", opened + 1) BY <1>1, <1>3, <2>1, <2>2, EnterRoot
    <2> QED BY <1>1, <2>1, <2>2, <2>3, WalkInvNext
  <1>5. CASE ~CanOpen(tree.root)
    <2>1. /\ stack' = <<>> /\ opened' = opened
          /\ status' = IF program = "client" THEN "exited" ELSE "walk"
          /\ tree.root \in tree.closed \/ ~(opened < MaxOpen)
      BY <1>1, <1>5 DEF Call, CanOpen
    <2>2. CASE program = "client"
      <3>1. WalkOk(<<>>, listed, skipped, "exited", opened) BY <1>2 DEF WalkOk
      <3> QED BY <1>1, <2>1, <2>2, <3>1, WalkInvNext
    <2>3. CASE program = "mapreduce"
      <3>1. WalkOk(<<>>, listed, skipped, "walk", opened)
        BY <1>1, <1>3, <2>1, <2>3, RootStaysClosed
      <3> QED BY <1>1, <2>1, <2>3, <3>1, WalkInvNext
    <2> QED BY <1>1, <2>2, <2>3
  <1> QED BY <1>4, <1>5

\* An entry is passed and nothing is made of it.
LEMMA OnlyPassed ==
  ASSUME WalkInv, MoreEntries, Passes(stack, Entry, stack'),
         status' \in {"walk", "exited", "undefined"},
         UNCHANGED <<program, tree, listed, skipped, opened>>,
         status' = "walk" => \A e : Entry \in Up(e) => ~Wanted(e, skipped)
  PROVE  WalkInv'
  <1>1. /\ tree \in Trees /\ program \in {"mapreduce", "client", "wcs"}
        /\ WalkOk(stack, listed, skipped, "walk", opened)
    BY DEF WalkInv, MoreEntries
  <1>2. PICK t, x, st : t = stack' /\ x = Entry /\ st = status' OBVIOUS
  <1>3. /\ Passes(stack, x, t) /\ st \in {"walk", "exited", "undefined"}
        /\ st = "walk" => \A e : x \in Up(e) => ~Wanted(e, skipped)
    BY <1>2
  <1>4. WalkOk(t, listed, skipped, st, opened) BY <1>1, <1>3, PassWithout
  <1> QED BY <1>1, <1>2, <1>4, WalkInvNext

\* An entry is passed and listed.
LEMMA PassedAndListed ==
  ASSUME WalkInv, MoreEntries, Passes(stack, Entry, stack'),
         status' = status,
         UNCHANGED <<program, tree, skipped, opened>>,
         Entry \notin Directories, Wanted(Entry, skipped), listed' = Append(listed, Entry)
  PROVE  WalkInv'
  <1>1. /\ tree \in Trees /\ program \in {"mapreduce", "client", "wcs"} /\ status = "walk"
        /\ WalkOk(stack, listed, skipped, "walk", opened)
    BY DEF WalkInv, MoreEntries
  <1>2. PICK t, x : t = stack' /\ x = Entry OBVIOUS
  <1>3. Passes(stack, x, t) /\ x \notin Directories /\ Wanted(x, skipped) BY <1>2
  <1>4. WalkOk(t, Append(listed, x), skipped, "walk", opened) BY <1>1, <1>3, PassListing
  <1> QED BY <1>1, <1>2, <1>4, WalkInvNext

\* A directory is entered from the call that passed it.
LEMMA PassedAndEntered ==
  ASSUME WalkInv, MoreEntries, UNCHANGED <<program, tree, listed, skipped>>,
         NEW c, Passes(stack, Entry, c), Call(Entry, c), CanOpen(Entry), IsDir(Entry),
         program = "mapreduce" => Entry \notin tree.dotted
  PROVE  WalkInv'
  <1>1. /\ tree \in Trees /\ program \in {"mapreduce", "client", "wcs"}
        /\ WalkOk(stack, listed, skipped, "walk", opened)
    BY DEF WalkInv, MoreEntries
  <1>2. PICK u, x : u = stack' /\ x = Entry OBVIOUS
  <1>3. /\ Pushes(c, x, u) /\ opened' = opened + 1 /\ status' = "walk"
        /\ x \notin tree.closed /\ opened < MaxOpen /\ x \in Directories
    BY <1>2 DEF Call, CanOpen, Pushes, IsDir, Directories
  <1>4. MayEnter(x, skipped)
    <2>1. Entry \notin skipped BY EntryPasses
    <2> QED BY <1>2, <1>3, <2>1 DEF MayEnter
  <1>5. Passes(stack, x, c) BY <1>2
  <1>6. WalkOk(u, listed, skipped, "walk", opened + 1)
    BY <1>1, <1>3, <1>4, <1>5, PassEntering
  <1> QED BY <1>1, <1>2, <1>3, <1>6, WalkInvNext

\* A directory of the stack is one that the program may be in.
LEMMA EntryPath ==
  ASSUME WalkInv, MoreEntries
  PROVE  /\ Entry \in All \ {tree.root} /\ At(stack, Entry)
         /\ PathTo[Entry] = {stack[i].dir : i \in 1 .. Len(stack)} \cup ({Entry} \cap Directories)
         /\ \A i \in 1 .. Len(stack) : MayEnter(stack[i].dir, skipped)
         /\ IF Entry \in Directories THEN Cardinality(PathTo[Entry]) = Len(stack) + 1
            ELSE Entry \in Files /\ Cardinality(PathTo[Entry]) = Len(stack)
         /\ program = "mapreduce" => opened = 1 + Len(stack) /\ opened <= MaxOpen
         /\ Len(stack) \in Nat
  <1>1. /\ tree \in Trees /\ StackOk(stack) /\ stack \in Seq(Frame)
        /\ program = "mapreduce" => opened = 1 + Len(stack) /\ opened <= MaxOpen
        /\ \A i \in 1 .. Len(stack) : MayEnter(stack[i].dir, skipped)
    BY DEF WalkInv, WalkOk, Listing, MoreEntries, StackOk
  <1>2. At(stack, Entry) BY EntryPasses DEF Passes
  <1>3. PICK x : x = Entry OBVIOUS
  <1>4. At(stack, x) BY <1>2, <1>3
  <1>5. /\ x \in All \ {tree.root}
        /\ PathTo[x] = {stack[i].dir : i \in 1 .. Len(stack)} \cup ({x} \cap Directories)
        /\ IF x \in Directories THEN Cardinality(PathTo[x]) = Len(stack) + 1
           ELSE x \in Files /\ Cardinality(PathTo[x]) = Len(stack)
    BY <1>1, <1>4, EntryIs
  <1> QED BY <1>1, <1>2, <1>3, <1>5

\* One readdir of mapreduce's recursion (phase1.c).
LEMMA ReadEntryOk == ASSUME WalkInv, ReadEntry PROVE WalkInv'
  <1>1. /\ MoreEntries /\ program = "mapreduce" /\ tree \in Trees /\ status = "walk"
        /\ UNCHANGED <<program, tree, skipped>>
    BY DEF WalkInv, ReadEntry, MoreEntries
  <1>2. PICK x : x = Entry OBVIOUS
  <1>3. /\ x \in All \ {tree.root}
        /\ PathTo[x] = {stack[i].dir : i \in 1 .. Len(stack)} \cup ({x} \cap Directories)
        /\ \A i \in 1 .. Len(stack) : MayEnter(stack[i].dir, skipped)
        /\ IF x \in Directories THEN Cardinality(PathTo[x]) = Len(stack) + 1
           ELSE x \in Files /\ Cardinality(PathTo[x]) = Len(stack)
        /\ opened = 1 + Len(stack) /\ opened <= MaxOpen /\ Len(stack) \in Nat
    BY <1>1, <1>2, EntryPath
  <1>4. Passes(stack, Entry, Passed) BY <1>1, EntryPasses
  <1>5. ASSUME Enters(Entry), Call(Entry, Passed), listed' = listed PROVE WalkInv'
    <2>1. IsDir(Entry) /\ Entry \notin tree.dotted BY <1>5 DEF Enters
    <2>2. CASE CanOpen(Entry) BY <1>1, <1>4, <1>5, <2>1, <2>2, PassedAndEntered
    <2>3. CASE ~CanOpen(Entry)
      <3>1. stack' = Passed /\ opened' = opened /\ status' = "walk" BY <1>1, <1>5, <2>3 DEF Call
      <3>2. ASSUME NEW e, x \in Up(e), Wanted(e, skipped) PROVE FALSE
        <4>1. x \in Directories BY <1>2, <2>1 DEF IsDir, Directories
        <4>2. x \in tree.closed \/ ~(opened < MaxOpen) BY <1>2, <2>3 DEF CanOpen
        <4>3. x \in tree.closed \/ ~(Cardinality(PathTo[x]) + 1 <= MaxOpen)
          BY <1>3, <4>1, <4>2, WalkAssumption
        <4> QED BY <1>1, <3>2, <4>1, <4>3, NothingBelow
      <3>3. \A e : Entry \in Up(e) => ~Wanted(e, skipped) BY <1>2, <3>2
      <3> QED BY <1>1, <1>4, <1>5, <3>1, <3>3, OnlyPassed
    <2> QED BY <2>2, <2>3
  <1>6. ASSUME Lists(Entry), stack' = Passed, opened' = opened,
               IF Len(listed) < MaxLines THEN listed' = Append(listed, Entry) /\ UNCHANGED status
               ELSE status' = "undefined" /\ UNCHANGED listed
        PROVE  WalkInv'
    <2>1. x \notin Directories /\ x \in tree.txt BY <1>2, <1>6 DEF Lists, IsDir, Directories
    <2>2. CASE Len(listed) < MaxLines
      <3>1. PathTo[x] = {stack[i].dir : i \in 1 .. Len(stack)} BY <1>3, <2>1
      <3>2. ASSUME NEW d \in PathTo[x]
            PROVE  d \notin tree.closed /\ (d # tree.root => d \notin tree.dotted)
        BY <1>1, <1>3, <3>1 DEF MayEnter
      <3>5. Cardinality(PathTo[x]) = Len(stack) BY <1>3, <2>1
      <3>3. Cardinality(PathTo[x]) + 1 <= MaxOpen
        <4>1. PICK n \in Nat : n = Len(stack) /\ opened = 1 + n /\ opened <= MaxOpen BY <1>3
        <4>2. n + 1 <= MaxOpen BY <4>1, WalkAssumption
        <4> QED BY <3>5, <4>1, <4>2
      <3>4. Wanted(x, skipped) BY <1>1, <1>3, <2>1, <3>2, <3>3 DEF Wanted
      <3> QED BY <1>1, <1>2, <1>4, <1>6, <2>1, <2>2, <3>4, PassedAndListed
    <2>3. CASE ~(Len(listed) < MaxLines)
      <3>1. status' = "undefined" /\ listed' = listed BY <1>6, <2>3
      <3> QED BY <1>1, <1>4, <1>6, <3>1, OnlyPassed
    <2> QED BY <2>2, <2>3
  <1>7. ASSUME ~Enters(Entry), ~Lists(Entry), stack' = Passed,
               UNCHANGED <<status, opened, listed>>
        PROVE  WalkInv'
    <2>1. ASSUME NEW e, x \in Up(e), Wanted(e, skipped) PROVE FALSE
      <3>1. CASE x \in Directories
        <4>1. x \in tree.dotted BY <1>2, <1>7, <3>1 DEF Enters, IsDir, Directories
        <4> QED BY <1>1, <1>3, <2>1, <3>1, <4>1, NothingBelow
      <3>2. CASE x \notin Directories
        <4>1. e \in All /\ e \in tree.txt BY <1>1, <2>1 DEF Wanted, All
        <4>2. e = x BY <1>1, <1>3, <2>1, <3>2, <4>1, OnlyItself
        <4> QED BY <1>2, <1>7, <3>2, <4>1, <4>2 DEF Lists, IsDir, Directories
      <3> QED BY <3>1, <3>2
    <2>2. \A e : Entry \in Up(e) => ~Wanted(e, skipped) BY <1>2, <2>1
    <2> QED BY <1>1, <1>4, <1>7, <2>2, OnlyPassed
  <1> QED BY <1>5, <1>6, <1>7 DEF ReadEntry

\* lstat before path is set may take the entry for a link.
LEMMA TakenForLinkOk == ASSUME WalkInv, TakenForLink PROVE WalkInv'
  <1>1. /\ MoreEntries /\ program = "client" /\ tree \in Trees /\ status = "walk"
        /\ UNCHANGED <<program, tree, status, opened, listed>>
        /\ stack' = Passed /\ skipped' = skipped \cup {Entry}
        /\ WalkOk(stack, listed, skipped, "walk", opened)
    BY DEF WalkInv, TakenForLink, MoreEntries
  <1>2. Passes(stack, Entry, Passed) BY <1>1, EntryPasses
  <1>3. PICK t, x : t = stack' /\ x = Entry OBVIOUS
  <1>4. Passes(stack, x, t) BY <1>1, <1>2, <1>3
  <1>5. WalkOk(t, listed, skipped \cup {x}, "walk", opened) BY <1>1, <1>4, PassSkipping
  <1> QED BY <1>1, <1>3, <1>5, WalkInvNext

\* One readdir of the client's traversal (PA4_Client/src/phase1.c).
LEMMA TraverseEntryOk == ASSUME WalkInv, TraverseEntry PROVE WalkInv'
  <1>1. /\ MoreEntries /\ program = "client" /\ tree \in Trees /\ status = "walk"
        /\ UNCHANGED <<program, tree, skipped>>
    BY DEF WalkInv, TraverseEntry, MoreEntries
  <1>2. PICK x : x = Entry OBVIOUS
  <1>3. /\ x \in All \ {tree.root}
        /\ PathTo[x] = {stack[i].dir : i \in 1 .. Len(stack)} \cup ({x} \cap Directories)
        /\ \A i \in 1 .. Len(stack) : MayEnter(stack[i].dir, skipped)
        /\ x \in Directories \/ x \in Files
    BY <1>1, <1>2, EntryPath
  <1>4. Passes(stack, Entry, Passed) /\ Passes(stack, Entry, Traversed(Entry)) /\ x \notin skipped
    BY <1>1, <1>2, EntryPasses
  <1>5. ASSUME IsDir(Entry), Call(Entry, Traversed(Entry)), listed' = listed PROVE WalkInv'
    <2>1. CASE CanOpen(Entry) BY <1>1, <1>4, <1>5, <2>1, PassedAndEntered
    <2>2. CASE ~CanOpen(Entry)
      <3>1. stack' = Traversed(Entry) /\ opened' = opened /\ status' = "exited"
        BY <1>1, <1>5, <2>2 DEF Call
      <3> QED BY <1>1, <1>4, <1>5, <3>1, OnlyPassed
    <2> QED BY <2>1, <2>2
  <1>6. ASSUME ~IsDir(Entry), stack' = Passed, UNCHANGED <<status, opened>>,
               listed' = IF Entry \in tree.links THEN listed ELSE Append(listed, Entry)
        PROVE  WalkInv'
    <2>1. x \notin Directories BY <1>2, <1>6 DEF IsDir, Directories
    <2>2. CASE x \in tree.links
      <3>1. ASSUME NEW e, x \in Up(e), Wanted(e, skipped) PROVE FALSE
        <4>1. e \in All /\ e \notin tree.links BY <1>1, <3>1 DEF Wanted, All
        <4>2. e = x BY <1>1, <1>3, <2>1, <3>1, <4>1, OnlyItself
        <4> QED BY <2>2, <4>1, <4>2
      <3>2. \A e : Entry \in Up(e) => ~Wanted(e, skipped) BY <1>2, <3>1
      <3> QED BY <1>1, <1>2, <1>4, <1>6, <2>2, <3>2, OnlyPassed
    <2>3. CASE x \notin tree.links
      <3>1. Up(x) \cap skipped = {} BY <1>3, <1>4, <2>1 DEF Up, MayEnter
      <3>2. Wanted(x, skipped) BY <1>1, <1>3, <2>1, <2>3, <3>1 DEF Wanted
      <3> QED BY <1>1, <1>2, <1>4, <1>6, <2>1, <2>3, <3>2, PassedAndListed
    <2> QED BY <2>2, <2>3
  <1> QED BY <1>5, <1>6 DEF TraverseEntry

\* A call returns.
LEMMA LeaveDirectoryOk == ASSUME WalkInv, LeaveDirectory, program # "wcs" PROVE WalkInv'
  <1>1. /\ program \in {"mapreduce", "client", "wcs"} /\ tree \in Trees /\ status = "walk"
        /\ UNCHANGED <<program, tree, status, listed, skipped>>
        /\ stack' = Tail(stack) /\ stack # <<>> /\ ~(Top.at <= Len(tree.entries[Top.dir]))
        /\ opened' = IF program = "mapreduce" THEN opened - 1 ELSE opened
        /\ StackOk(stack) /\ WalkOk(stack, listed, skipped, "walk", opened)
    BY DEF WalkInv, LeaveDirectory, MoreEntries, StillOpenAfter, WalkOk, Listing
  <1>2. stack \in Seq(Frame) BY <1>1 DEF StackOk
  <1>3. PICK f \in Frame : f = stack[1] /\ f = Top BY <1>1, <1>2 DEF Top
  <1>4. f.at > Len(tree.entries[f.dir])
    <2>1. f.dir \in Directories /\ f.at \in Nat BY DEF Frame
    <2>2. tree.entries[f.dir] \in Seq(All \ {tree.root}) BY <1>1, <2>1, TreeIs
    <2> QED BY <1>1, <1>3, <2>1, <2>2
  <1>5. PICK t : t = stack' OBVIOUS
  <1>6. Leaves(stack, t) BY <1>1, <1>3, <1>4, <1>5 DEF Leaves
  <1>7. PICK o : o = IF program = "mapreduce" THEN opened - 1 ELSE opened OBVIOUS
  <1>8. WalkOk(t, listed, skipped, "walk", o) BY <1>1, <1>6, <1>7, PassLeaving
  <1> QED BY <1>1, <1>5, <1>7, <1>8, WalkInvNext

\* The first call returns.
LEMMA WalkEndsOk == ASSUME WalkInv, WalkEnds PROVE WalkInv'
  <1>1. /\ program \in {"mapreduce", "client", "wcs"} /\ tree \in Trees /\ stack = <<>>
        /\ UNCHANGED <<program, tree, stack, opened, listed, skipped>>
        /\ WalkOk(stack, listed, skipped, "walk", opened)
    BY DEF WalkInv, WalkEnds
  <1>2. PICK st \in {"empty", "listed"} : st = status' BY DEF WalkEnds
  <1>3. WalkOk(stack, listed, skipped, st, opened) BY <1>1, <1>2 DEF WalkOk
  <1> QED BY <1>1, <1>2, <1>3, WalkInvNext

\* Every step of the walk keeps its invariant.
LEMMA WalkStepOk == ASSUME WalkInv, WalkNext, program # "wcs" PROVE WalkInv'
  BY CheckArgumentOk, CallRootOk, ReadEntryOk, TakenForLinkOk, TraverseEntryOk,
     LeaveDirectoryOk, WalkEndsOk DEF WalkNext

-----------------------------------------------------------------------------
(***************************************************************************)
(* The counting.                                                           *)
(***************************************************************************)
First(n) == {listed[i] : i \in 1 .. n}
Words(l) == [f \in Files |-> WordsCounted(tree.content[f], l)]
Tally(l, n) == SumFunctionOnSet(Words(l), CountedFiles \cap First(n))

\* mapreduce's descriptors: main's directory, and one for each file it could open.
OpenedOk ==
  LET r == Cardinality(First(next - 1) \ tree.closed)
  IN  1 <= MaxOpen /\ opened = IF r < MaxOpen - 1 THEN 1 + r ELSE MaxOpen

\* The counts are those of the files passed; before, of those before the current.
TalliesOk ==
  IF pc \in {"closed", "done"}
  THEN \A l \in Letter : alphaCount[l] = Tally(l, next - 1)
  ELSE /\ next - 1 \in DOMAIN listed /\ listed[next - 1] \in CountedFiles
       /\ text = tree.content[listed[next - 1]]
       /\ \A l \in Letter : before[l] = Tally(l, next - 2)

\* The inductive invariant, from the tree to the counts.
FolderInv ==
  /\ WalkInv /\ ReaderInv /\ next \in Nat \ {0} /\ next <= Len(listed) + 1
  /\ IF status = "listed"
     THEN TalliesOk /\ (program = "mapreduce" => OpenedOk)
     ELSE next = 1 /\ pc = "closed" /\ \A l \in Letter : alphaCount[l] = 0

\* What is listed are files, finitely many.
LEMMA ListedFiles ==
  ASSUME WalkInv
  PROVE  /\ tree \in Trees /\ listed \in Seq(Files) /\ IsInjective(listed)
         /\ CountedFiles \in SUBSET ToSet(listed) /\ \A f \in CountedFiles : f \notin tree.closed
         /\ \A n \in 0 .. Len(listed) : First(n) \in SUBSET Files /\ IsFiniteSet(First(n))
  <1>1. tree \in Trees /\ listed \in Seq(Files) /\ IsInjective(listed)
    BY DEF WalkInv, WalkOk, Listing
  <1>2. /\ CountedFiles \in SUBSET ToSet(listed) /\ \A f \in CountedFiles : f \notin tree.closed
    BY DEF WalkInv, CountedFiles, Readable
  <1>3. ASSUME NEW n \in 0 .. Len(listed) PROVE First(n) \in SUBSET Files /\ IsFiniteSet(First(n))
    <2>1. n \in Nat /\ \A i \in 1 .. n : listed[i] \in Files BY <1>1
    <2>2. First(n) \in SUBSET Files BY <2>1 DEF First
    <2>3. IsFiniteSet(1 .. n) BY <2>1, FS_Interval
    <2> DEFINE g == [i \in 1 .. n |-> listed[i]]
    <2>4. g \in Surjection(1 .. n, First(n)) BY DEF Surjection, First
    <2> HIDE DEF g
    <2> QED BY <2>2, <2>3, <2>4, FS_Surjection
  <1> QED BY <1>1, <1>2, <1>3

\* One more file.
LEMMA FirstGrows ==
  ASSUME WalkInv, NEW n \in Nat, n + 1 <= Len(listed)
  PROVE  First(n + 1) = First(n) \cup {listed[n + 1]} /\ listed[n + 1] \notin First(n)
  <1>1. listed \in Seq(Files) /\ IsInjective(listed) BY ListedFiles
  <1>2. PICK m \in Nat : m = Len(listed) BY <1>1
  <1>3. \A i \in 1 .. n + 1 : i \in 1 .. n \/ i = n + 1 OBVIOUS
  <1>4. \A i \in 1 .. n : i \in 1 .. n + 1 /\ listed[i] # listed[n + 1]
    <2>1. \A i \in 1 .. n : i # n + 1 /\ i \in DOMAIN listed /\ n + 1 \in DOMAIN listed
      BY <1>1, <1>2
    <2> QED BY <1>1, <2>1 DEF IsInjective
  <1> QED BY <1>3, <1>4 DEF First

\* A file has a natural number of words with a letter.
LEMMA WordsAreNat ==
  ASSUME WalkInv, NEW l
  PROVE  \A f \in Files : /\ Words(l)[f] = WordsCounted(tree.content[f], l)
                          /\ Words(l)[f] \in Nat /\ tree.content[f] \in Texts
  <1> SUFFICES ASSUME NEW f \in Files
               PROVE  /\ Words(l)[f] = WordsCounted(tree.content[f], l)
                      /\ Words(l)[f] \in Nat /\ tree.content[f] \in Texts
    OBVIOUS
  <1>1. tree.content[f] \in Texts BY ListedFiles, TreeIs
  <1>2. PICK t \in Seq(Char) : t = tree.content[f] BY <1>1, CharactersAssumption
  <1>3. IsFiniteSet(DOMAIN t) BY FS_Interval
  <1>4. {k \in DOMAIN t : t[k] = l /\ Counted(t, k)} \in SUBSET DOMAIN t OBVIOUS
  <1>5. WordsCounted(t, l) \in Nat BY <1>3, <1>4, FS_Subset, FS_CardinalityType DEF WordsCounted
  <1> QED BY <1>1, <1>2, <1>5 DEF Words

\* A file adds its words if it is counted.
LEMMA TallyAdds ==
  ASSUME WalkInv, NEW l, NEW n \in Nat, n + 1 <= Len(listed)
  PROVE  /\ Tally(l, n) \in Nat
         /\ Tally(l, n + 1) =
              Tally(l, n) + IF listed[n + 1] \in CountedFiles
                            THEN WordsCounted(tree.content[listed[n + 1]], l) ELSE 0
  <1>1. PICK f \in Files : f = listed[n + 1]
    <2>1. listed \in Seq(Files) /\ n + 1 \in 1 .. Len(listed) BY ListedFiles
    <2> QED BY <2>1
  <1>2. First(n + 1) = First(n) \cup {f} /\ f \notin First(n) BY <1>1, FirstGrows
  <1> DEFINE S == CountedFiles \cap First(n)
  <1>3. IsFiniteSet(S) /\ S \subseteq Files
    <2>1. n \in 0 .. Len(listed) BY ListedFiles
    <2>2. IsFiniteSet(First(n)) /\ First(n) \in SUBSET Files BY <2>1, ListedFiles
    <2> QED BY <2>2, FS_Subset
  <1>4. \A x \in S \cup {f} : Words(l)[x] \in Nat BY <1>3, WordsAreNat
  <1>5. f \notin S BY <1>2
  <1>6. CASE f \in CountedFiles
    <2>1. CountedFiles \cap First(n + 1) = S \cup {f} BY <1>2, <1>6
    <2> HIDE DEF S
    <2>2. SumFunctionOnSet(Words(l), S \cup {f}) = Words(l)[f] + SumFunctionOnSet(Words(l), S)
      BY <1>3, <1>4, <1>5, SumGrows
    <2>3. SumFunctionOnSet(Words(l), S) \in Nat BY <1>3, <1>4, SumIsNat
    <2>4. Words(l)[f] = WordsCounted(tree.content[f], l) /\ Words(l)[f] \in Nat BY WordsAreNat
    <2>5. Tally(l, n) = SumFunctionOnSet(Words(l), S) BY DEF Tally, S
    <2>6. Tally(l, n + 1) = SumFunctionOnSet(Words(l), S \cup {f}) BY <2>1 DEF Tally
    <2> QED BY <1>1, <1>6, <2>2, <2>3, <2>4, <2>5, <2>6
  <1>7. CASE f \notin CountedFiles
    <2>1. CountedFiles \cap First(n + 1) = S BY <1>2, <1>7
    <2>2. Tally(l, n + 1) = Tally(l, n) BY <2>1 DEF Tally
    <2>3. Tally(l, n) \in Nat
      <3>1. Tally(l, n) = SumFunctionOnSet(Words(l), S) BY DEF Tally
      <3> HIDE DEF S
      <3> QED BY <1>3, <1>4, <3>1, SumIsNat
    <2> QED BY <1>1, <1>7, <2>2, <2>3
  <1> QED BY <1>6, <1>7

\* No file, no words.
LEMMA NothingTallied == ASSUME NEW l PROVE Tally(l, 0) = 0
  <1>1. 1 .. 0 = {} OBVIOUS
  <1>2. CountedFiles \cap First(0) = {} BY <1>1 DEF First
  <1> QED BY <1>2, SumOfNone DEF Tally

\* The counted files, and the tallies, do not change with the counting.
LEMMA SameTally ==
  ASSUME WalkInv, UNCHANGED <<program, tree, listed, unit>>,
         program = "mapreduce" \/ opened' = opened
  PROVE  /\ CountedFiles' = CountedFiles /\ \A n : First(n)' = First(n)
         /\ \A l, n : Tally(l, n)' = Tally(l, n)
  <1>1. Readable' = Readable BY DEF Readable, ToSet
  <1>2. CountedFiles' = CountedFiles
    <2>1. CASE program = "mapreduce" BY <1>1, <2>1 DEF CountedFiles
    <2>2. CASE program \in {"client", "wcs"} BY <1>1, <2>2 DEF CountedFiles
    <2> QED BY <2>1, <2>2 DEF WalkInv
  <1>3. \A n : First(n)' = First(n) BY DEF First
  <1>4. Files' = Files BY TreeStays
  <1>5. \A l : Words(l)' = Words(l)
    BY <1>4 DEF Words, WordsCounted, Counted, OddGap, Gap, PieceStart, IsSpace, IsLetter
  <1> QED BY <1>2, <1>3, <1>5 DEF Tally

\* With the descriptors that are left, the next file can be opened if it is one
\* of those that the result counts.
LEMMA OpenedIsCounted ==
  ASSUME FolderInv, status = "listed", next <= Len(listed)
  PROVE  CanOpen(listed[next]) <=> listed[next] \in CountedFiles
  <1>1. /\ WalkInv /\ listed \in Seq(Files) /\ IsInjective(listed) /\ next \in Nat \ {0}
        /\ (program = "mapreduce" => OpenedOk)
    BY ListedFiles DEF FolderInv
  <1>2. PICK m \in Nat : m = Len(listed) BY <1>1
  <1>3. PICK f \in Files : f = listed[next] BY <1>1, <1>2
  <1>4. next \in DOMAIN listed /\ DOMAIN listed = 1 .. m BY <1>1, <1>2
  <1>5. f \in ToSet(listed) BY <1>3, <1>4 DEF ToSet
  <1>6. CASE program \in {"client", "wcs"} BY <1>3, <1>5, <1>6 DEF CanOpen, CountedFiles, Readable
  <1>7. CASE program = "mapreduce"
    <2> DEFINE Earlier == {g \in Readable : \E i, j \in DOMAIN listed :
                             listed[i] = g /\ listed[j] = f /\ i < j}
    <2>1. Earlier = First(next - 1) \ tree.closed
      <3>1. \A j \in DOMAIN listed : listed[j] = f <=> j = next
        BY <1>1, <1>3, <1>4 DEF IsInjective
      <3>2. \A i \in DOMAIN listed : i < next <=> i \in 1 .. next - 1 BY <1>1, <1>4
      <3>3. \A i \in 1 .. next - 1 : i \in DOMAIN listed BY <1>1, <1>2, <1>4
      <3>4. ASSUME NEW g \in Earlier PROVE g \in First(next - 1) \ tree.closed
        <4>1. g \notin tree.closed BY DEF Readable
        <4>2. PICK i \in DOMAIN listed : listed[i] = g /\ i < next BY <3>1
        <4> QED BY <3>2, <4>1, <4>2 DEF First
      <3>5. ASSUME NEW g \in First(next - 1) \ tree.closed PROVE g \in Earlier
        <4>1. PICK i \in 1 .. next - 1 : listed[i] = g BY DEF First
        <4>2. i \in DOMAIN listed /\ i < next BY <3>2, <3>3
        <4>3. g \in Readable BY <4>1, <4>2 DEF Readable, ToSet
        <4> QED BY <1>3, <1>4, <4>1, <4>2, <4>3
      <3> QED BY <3>4, <3>5
    <2>2. CountedFiles = {h \in Readable :
            Cardinality({g \in Readable : \E i, j \in DOMAIN listed :
              listed[i] = g /\ listed[j] = h /\ i < j}) < MaxOpen - 1}
      BY <1>7 DEF CountedFiles
    <2>3. f \in CountedFiles <=> f \in Readable /\ Cardinality(Earlier) < MaxOpen - 1 BY <2>2
    <2> HIDE DEF Earlier
    <2>4. f \in Readable <=> f \notin tree.closed BY <1>5 DEF Readable
    <2>5. PICK r \in Nat : r = Cardinality(First(next - 1) \ tree.closed)
      <3>1. next - 1 \in 0 .. Len(listed) BY <1>1, <1>2
      <3>2. IsFiniteSet(First(next - 1)) BY <1>1, <3>1, ListedFiles
      <3>3. IsFiniteSet(First(next - 1) \ tree.closed) BY <3>2, FS_Subset
      <3> QED BY <3>3, FS_CardinalityType
    <2>6. 1 <= MaxOpen /\ opened = IF r < MaxOpen - 1 THEN 1 + r ELSE MaxOpen
      BY <1>1, <1>7, <2>5 DEF OpenedOk
    <2>7. opened < MaxOpen <=> r < MaxOpen - 1 BY <2>6, WalkAssumption
    <2> QED BY <1>3, <2>1, <2>3, <2>4, <2>5, <2>7 DEF CanOpen
  <1> QED BY <1>1, <1>6, <1>7 DEF WalkInv

\* One more file that is readable takes one more descriptor while there is one.
LEMMA OpenedGrows ==
  ASSUME FolderInv, status = "listed", next <= Len(listed), program = "mapreduce",
         UNCHANGED <<tree, listed>>, next' = next + 1,
         opened' = IF CanOpen(listed[next]) THEN opened + 1 ELSE opened
  PROVE  OpenedOk'
  <1>1. WalkInv /\ listed \in Seq(Files) /\ next \in Nat \ {0} /\ OpenedOk
    BY ListedFiles DEF FolderInv
  <1>2. PICK f : f = listed[next] OBVIOUS
  <1>3. PICK n \in Nat : n = next - 1 /\ n + 1 = next /\ n + 1 <= Len(listed) BY <1>1
  <1> DEFINE A == First(n) \ tree.closed
             B == First(n + 1) \ tree.closed
  <1>4. IsFiniteSet(A)
    <2>1. n \in 0 .. Len(listed) BY <1>1, <1>3
    <2>2. IsFiniteSet(First(n)) BY <1>1, <2>1, ListedFiles
    <2> QED BY <2>2, FS_Subset
  <1>5. First(n + 1) = First(n) \cup {f} /\ f \notin First(n) BY <1>1, <1>2, <1>3, FirstGrows
  <1>6. PICK r \in Nat : r = Cardinality(A) BY <1>4, FS_CardinalityType
  <1>7. 1 <= MaxOpen /\ opened = IF r < MaxOpen - 1 THEN 1 + r ELSE MaxOpen
    BY <1>1, <1>3, <1>6 DEF OpenedOk
  <1>8. Cardinality(B) = IF f \in tree.closed THEN r ELSE r + 1
    <2>1. CASE f \in tree.closed
      <3>1. B = A BY <1>5, <2>1
      <3> QED BY <1>6, <2>1, <3>1
    <2>2. CASE f \notin tree.closed
      <3>1. B = A \cup {f} /\ f \notin A BY <1>5, <2>2
      <3> HIDE DEF A, B
      <3> QED BY <1>4, <1>6, <2>2, <3>1, FS_AddElement
    <2> QED BY <2>1, <2>2
  <1>9. PICK q \in Nat : q = Cardinality(B) /\ q = IF f \in tree.closed THEN r ELSE r + 1
    BY <1>8
  <1>10. Cardinality(First(next - 1) \ tree.closed)' = q
    <2>1. (First(next - 1) \ tree.closed)' = B
      <3>1. next' - 1 = n + 1 BY <1>3
      <3> QED BY <3>1 DEF First
    <2> QED BY <1>9, <2>1
  <1>11. opened' = IF q < MaxOpen - 1 THEN 1 + q ELSE MaxOpen
    <2>1. opened' = IF f \notin tree.closed /\ opened < MaxOpen THEN opened + 1 ELSE opened
      BY <1>2 DEF CanOpen
    <2>2. CASE f \in tree.closed BY <1>7, <1>9, <2>1, <2>2
    <2>3. CASE f \notin tree.closed /\ r < MaxOpen - 1
      BY <1>7, <1>9, <2>1, <2>3, WalkAssumption
    <2>4. CASE f \notin tree.closed /\ ~(r < MaxOpen - 1)
      BY <1>7, <1>9, <2>1, <2>4, WalkAssumption
    <2> QED BY <2>2, <2>3, <2>4
  <1> QED BY <1>7, <1>10, <1>11 DEF OpenedOk

-----------------------------------------------------------------------------
\* The invariant holds at the beginning.
LEMMA FolderInitOk == Init => FolderInv
  <1> SUFFICES ASSUME Init PROVE FolderInv OBVIOUS
  <1>1. ReaderInv /\ next = 1 /\ pc = "closed" /\ \A l \in Letter : alphaCount[l] = 0
    BY ReaderInit DEF Init, CountInit
  <1>2. /\ tree \in Trees /\ program \in {"mapreduce", "client", "wcs"} /\ status = "start"
        /\ stack = <<>> /\ opened = 0 /\ skipped = {}
        /\ \/ program # "wcs" /\ listed = <<>>
           \/ program = "wcs" /\ \E f \in Files : listed = <<f>>
    BY DEF Init, WalkInit, WcsInit
  <1>3. /\ listed \in Seq(Files) /\ IsInjective(listed)
        /\ \A e \in ToSet(listed) : Wanted(e, {})
    <2>1. CASE listed = <<>>
      <3>1. <<>> \in Seq(Files) /\ DOMAIN <<>> = {} OBVIOUS
      <3> QED BY <2>1, <3>1 DEF IsInjective, ToSet
    <2>2. CASE program = "wcs" /\ \E f \in Files : listed = <<f>>
      <3>1. PICK f \in Files : listed = <<f>> BY <2>2
      <3>2. listed \in Seq(Files) /\ DOMAIN listed = {1} /\ listed[1] = f BY <3>1
      <3> QED BY <2>2, <3>2 DEF IsInjective, ToSet, Wanted
    <2> QED BY <1>2, <2>1, <2>2
  <1>4. StackOk(<<>>) /\ Len(<<>>) = 0 /\ \A e : ~Pending(<<>>, e)
    <2>1. <<>> \in Seq(Frame) /\ Len(<<>>) = 0 /\ 1 .. 0 = {} OBVIOUS
    <2> QED BY <2>1 DEF StackOk, Pending
  <1>5. Listing(stack, listed, skipped) BY <1>2, <1>3, <1>4 DEF Listing
  <1>6. WalkInv BY <1>2, <1>5 DEF WalkInv, WalkOk
  <1> QED BY <1>1, <1>2, <1>3, <1>6 DEF FolderInv

\* At the start of the counting nothing is tallied.
LEMMA CountingBegins ==
  ASSUME WalkInv', next' = 1, pc' = "closed", \A l \in Letter : alphaCount'[l] = 0,
         program' = "mapreduce" => opened' = 1 /\ 1 <= MaxOpen
  PROVE  TalliesOk' /\ (program' = "mapreduce" => OpenedOk')
  <1>1. First(next - 1)' = {}
    <2>1. 1 .. 1 - 1 = {} OBVIOUS
    <2> QED BY <2>1 DEF First
  <1>2. \A l : Tally(l, next - 1)' = 0
    <2> TAKE l
    <2>1. PICK w, c : w = Words(l)' /\ c = CountedFiles' OBVIOUS
    <2>2. Tally(l, next - 1)' = SumFunctionOnSet(w, c \cap {}) BY <1>1, <2>1 DEF Tally
    <2>3. c \cap {} = {} OBVIOUS
    <2> QED BY <2>2, <2>3, SumOfNone
  <1>3. TalliesOk' BY <1>2 DEF TalliesOk
  <1>4. ASSUME program' = "mapreduce" PROVE OpenedOk'
    <2>1. Cardinality(First(next - 1) \ tree.closed)' = 0
      <3>1. (First(next - 1) \ tree.closed)' = {} BY <1>1
      <3> QED BY <3>1, FS_EmptySet
    <2> QED BY <1>4, <2>1, WalkAssumption DEF OpenedOk
  <1> QED BY <1>3, <1>4

\* Through the walk,
LEMMA WalkKeeps == ASSUME FolderInv, Walk PROVE FolderInv'
  <1>1. /\ WalkInv /\ ReaderInv /\ program # "wcs" /\ WalkNext /\ UNCHANGED <<counting, next>>
    BY DEF FolderInv, Walk
  <1>2. status \in {"start", "call", "walk"}
    BY <1>1 DEF WalkNext, CheckArgument, CallRoot, ReadEntry, TakenForLink, TraverseEntry,
                LeaveDirectory, WalkEnds, MoreEntries
  <1>3. next = 1 /\ pc = "closed" /\ \A l \in Letter : alphaCount[l] = 0
    BY <1>2 DEF FolderInv
  <1>4. next' = 1 /\ pc' = "closed" /\ \A l \in Letter : alphaCount'[l] = 0
    BY <1>1, <1>3 DEF counting
  <1>5. WalkInv' BY <1>1, WalkStepOk
  <1>6. ReaderInv' BY <1>1, ReaderStep
  <1>7. next' \in Nat \ {0} /\ next' <= Len(listed') + 1
    <2>1. listed' \in Seq(Files') BY <1>5 DEF WalkInv, WalkOk, Listing
    <2>2. PICK S, m : S = Files' /\ m = listed' OBVIOUS
    <2>3. m \in Seq(S) BY <2>1, <2>2
    <2>4. Len(m) \in Nat BY <2>3
    <2> QED BY <1>4, <2>2, <2>4
  <1>8. CASE status' = "listed"
    <2>1. WalkEnds
      BY <1>1, <1>8, <1>2 DEF WalkNext, CheckArgument, CallRoot, ReadEntry, TakenForLink,
           TraverseEntry, LeaveDirectory, Call, MoreEntries
    <2>2. status = "walk" /\ stack = <<>> /\ opened' = opened /\ program' = program
      BY <2>1 DEF WalkEnds
    <2>3. program = "mapreduce" => opened = 1 + Len(<<>>) /\ opened <= MaxOpen
      BY <1>1, <2>2 DEF WalkInv, WalkOk
    <2>4. program' = "mapreduce" => opened' = 1 /\ 1 <= MaxOpen BY <2>2, <2>3
    <2> QED BY <1>4, <1>5, <1>6, <1>7, <1>8, <2>4, CountingBegins DEF FolderInv
  <1>9. CASE status' # "listed" BY <1>4, <1>5, <1>6, <1>7, <1>9 DEF FolderInv
  <1> QED BY <1>8, <1>9

\* through wcs's main, which opens the one file it is given,
LEMMA WcsMainKeeps == ASSUME FolderInv, WcsMain PROVE FolderInv'
  <1>1. /\ WalkInv /\ ReaderInv /\ program = "wcs" /\ status = "start" /\ next = 1
        /\ pc = "closed" /\ \A l \in Letter : alphaCount[l] = 0
        /\ UNCHANGED <<program, tree, stack, listed, skipped, counting, next>>
        /\ status' \in {"listed", "refused"} /\ opened' \in {opened, opened + 1}
    BY DEF FolderInv, WcsMain
  <1>2. WalkOk(stack, listed, skipped, "start", opened) BY <1>1 DEF WalkInv
  <1>3. PICK st \in {"listed", "refused"}, o \in Nat : st = status' /\ o = opened'
    <2>1. opened' \in Nat BY <1>1, <1>2 DEF WalkOk
    <2> QED BY <1>1, <2>1
  <1>4. WalkOk(stack, listed, skipped, st, o) BY <1>1, <1>2, <1>3 DEF WalkOk
  <1>5. WalkInv' BY <1>1, <1>3, <1>4, WalkInvNext DEF WalkInv
  <1>6. ReaderInv' BY <1>1, ReaderStep
  <1>7. /\ next' = 1 /\ pc' = "closed" /\ (\A l \in Letter : alphaCount'[l] = 0)
        /\ program' = "wcs" /\ next' \in Nat \ {0} /\ next' <= Len(listed') + 1
    BY <1>1 DEF counting, FolderInv
  <1> QED BY <1>5, <1>6, <1>7, CountingBegins DEF FolderInv

\* The counting does not touch what the walk has found.
LEMMA WalkUntouched ==
  ASSUME FolderInv, UNCHANGED <<program, tree, status, stack, listed, skipped>>,
         opened' = opened \/ (opened' = opened + 1 /\ status = "listed")
  PROVE  WalkInv'
  <1>1. WalkInv /\ WalkOk(stack, listed, skipped, status, opened) BY DEF FolderInv, WalkInv
  <1>2. PICK o \in Nat : o = opened' BY <1>1 DEF WalkOk
  <1>3. WalkOk(stack, listed, skipped, status, o) BY <1>1, <1>2 DEF WalkOk
  <1> QED BY <1>1, <1>2, <1>3, WalkInvNext DEF WalkInv

\* when the next file is opened,
LEMMA OpenNextKeeps == ASSUME FolderInv, OpenNext PROVE FolderInv'
  <1>1. /\ WalkInv /\ ReaderInv /\ next \in Nat \ {0} /\ status = "listed" /\ TalliesOk
        /\ next <= Len(listed) /\ pc \in {"closed", "done"} /\ CanOpen(listed[next])
        /\ Open(tree.content[listed[next]]) /\ next' = next + 1
        /\ UNCHANGED <<program, tree, status, stack, listed, skipped>>
        /\ opened' = IF program = "mapreduce" THEN opened + 1 ELSE opened
        /\ (program = "mapreduce" => OpenedOk)
    BY DEF FolderInv, OpenNext, Counting, LeavesOpen
  <1>2. WalkInv' BY <1>1, WalkUntouched
  <1>3. listed \in Seq(Files) /\ next \in DOMAIN listed
    <2>1. listed \in Seq(Files) BY <1>1, ListedFiles
    <2> QED BY <1>1, <2>1
  <1>4. PICK f \in Files : f = listed[next] BY <1>3
  <1>5. tree.content[f] \in Texts BY <1>1, WordsAreNat
  <1>6. ReaderInv' BY <1>1, <1>4, <1>5, OpenInv
  <1>7. f \in CountedFiles BY <1>1, <1>4, OpenedIsCounted
  <1>8. /\ pc' \in {"first", "fgets"} /\ text' = tree.content[f] /\ before' = alphaCount
        /\ unit' = unit
    BY <1>1, <1>4 DEF Open
  <1>9. CountedFiles' = CountedFiles /\ \A l, n : Tally(l, n)' = Tally(l, n)
    BY <1>1, <1>8, SameTally
  <1>10. TalliesOk'
    <2>1. next' - 1 = next /\ next' - 2 = next - 1 BY <1>1
    <2>2. ASSUME NEW l \in Letter PROVE before'[l] = Tally(l, next - 2)'
      <3>1. alphaCount[l] = Tally(l, next - 1) BY <1>1 DEF TalliesOk
      <3>2. Tally(l, next - 2)' = Tally(l, next - 1)
        <4>1. PICK n : n = next' - 2 /\ n = next - 1 BY <2>1
        <4>2. Tally(l, n)' = Tally(l, n) BY <1>9
        <4> QED BY <1>1, <1>8, <1>9, <4>1, <4>2 DEF Tally, First
      <3> QED BY <1>8, <3>1, <3>2
    <2>3. /\ (next - 1)' \in DOMAIN listed' /\ listed'[(next - 1)'] \in CountedFiles'
          /\ text' = tree'.content[listed'[(next - 1)']] /\ pc' \notin {"closed", "done"}
      BY <1>1, <1>3, <1>4, <1>7, <1>8, <1>9, <2>1
    <2> QED BY <2>2, <2>3 DEF TalliesOk
  <1>11. program = "mapreduce" => OpenedOk' BY <1>1, OpenedGrows
  <1>12. next' \in Nat \ {0} /\ next' <= Len(listed') + 1
    <2>1. PICK m \in Nat : m = Len(listed) BY <1>3
    <2> QED BY <1>1, <2>1
  <1> QED BY <1>1, <1>2, <1>6, <1>10, <1>11, <1>12 DEF FolderInv

\* when it cannot be,
LEMMA OpenFailsKeeps == ASSUME FolderInv, OpenFails PROVE FolderInv'
  <1>1. /\ WalkInv /\ ReaderInv /\ next \in Nat \ {0} /\ status = "listed" /\ TalliesOk
        /\ next <= Len(listed) /\ pc \in {"closed", "done"} /\ ~CanOpen(listed[next])
        /\ UNCHANGED <<walking, counting>> /\ next' = next + 1
    BY DEF FolderInv, OpenFails, Counting
  <1>2. /\ UNCHANGED <<program, tree, status, stack, listed, skipped, opened, unit>>
        /\ pc' = pc /\ alphaCount' = alphaCount
    BY <1>1 DEF walking, counting
  <1>3. WalkInv' BY <1>2, WalkUntouched
  <1>4. ReaderInv' BY <1>1, ReaderStep
  <1>5. listed[next] \notin CountedFiles BY <1>1, OpenedIsCounted
  <1>6. /\ CountedFiles' = CountedFiles /\ \A n : First(n)' = First(n)
        /\ \A l, n : Tally(l, n)' = Tally(l, n)
    BY <1>1, <1>2, SameTally
  <1>7. TalliesOk'
    <2>1. PICK n \in Nat : n = next - 1 /\ n + 1 = next /\ n + 1 <= Len(listed) BY <1>1
    <2>2. ASSUME NEW l \in Letter PROVE alphaCount'[l] = Tally(l, next - 1)'
      <3>1. alphaCount[l] = Tally(l, n) BY <1>1, <2>1 DEF TalliesOk
      <3>2. Tally(l, n) \in Nat
            /\ Tally(l, n + 1) =
                 Tally(l, n) + IF listed[n + 1] \in CountedFiles
                               THEN WordsCounted(tree.content[listed[n + 1]], l) ELSE 0
        BY <1>1, <2>1, TallyAdds
      <3>3. listed[n + 1] \notin CountedFiles BY <1>5, <2>1
      <3>4. Tally(l, n + 1) = Tally(l, n) BY <3>2, <3>3
      <3>5. next' - 1 = n + 1 BY <1>1, <2>1
      <3>6. Tally(l, next - 1)' = Tally(l, n + 1)
        <4>1. Tally(l, n + 1)' = Tally(l, n + 1) BY <1>6
        <4> QED BY <3>5, <4>1 DEF Tally, First
      <3> QED BY <1>2, <3>1, <3>4, <3>6
    <2> QED BY <1>1, <1>2, <2>2 DEF TalliesOk
  <1>8. program = "mapreduce" => OpenedOk' BY <1>1, <1>2, OpenedGrows
  <1>9. next' \in Nat \ {0} /\ next' <= Len(listed') + 1
    <2>1. listed \in Seq(Files) BY <1>1, ListedFiles
    <2>2. PICK m \in Nat : m = Len(listed) BY <2>1
    <2> QED BY <1>1, <1>2, <2>2
  <1> QED BY <1>1, <1>2, <1>3, <1>4, <1>7, <1>8, <1>9 DEF FolderInv

\* at each step of the counting,
LEMMA WordcountKeeps == ASSUME FolderInv, Wordcount PROVE FolderInv'
  <1>1. /\ WalkInv /\ ReaderInv /\ next \in Nat \ {0} /\ status = "listed" /\ TalliesOk
        /\ next <= Len(listed) + 1 /\ CountStep /\ UNCHANGED <<walking, next>>
        /\ (program = "mapreduce" => OpenedOk)
    BY DEF FolderInv, Wordcount
  <1>2. /\ UNCHANGED <<program, tree, status, stack, listed, skipped, opened>>
    BY <1>1 DEF walking
  <1>3. /\ pc \in {"first", "loop", "after", "fgets", "scan"} /\ pc' # "closed"
        /\ text' = text /\ before' = before /\ unit' = unit
    BY <1>1 DEF CountStep, ReadFirst, ReadNext, ReadAfter, EndOfFile, Fgets, Scan, LastPiece
  <1>4. WalkInv' BY <1>2, WalkUntouched
  <1>5. ReaderInv' BY <1>1, ReaderStep DEF CountNext
  <1>6. /\ CountedFiles' = CountedFiles /\ \A n : First(n)' = First(n)
        /\ \A l, n : Tally(l, n)' = Tally(l, n)
    BY <1>1, <1>2, <1>3, SameTally
  <1>7. /\ next - 1 \in DOMAIN listed /\ listed[next - 1] \in CountedFiles
        /\ text = tree.content[listed[next - 1]]
        /\ \A l \in Letter : before[l] = Tally(l, next - 2)
    BY <1>1, <1>3 DEF TalliesOk
  <1>8. TalliesOk'
    <2>1. CASE pc' = "done"
      <3> SUFFICES ASSUME NEW l \in Letter PROVE alphaCount'[l] = Tally(l, next - 1)'
        BY <2>1 DEF TalliesOk
      <3>1. PICK n \in Nat : n = next - 2 /\ n + 1 = next - 1 /\ n + 1 <= Len(listed)
        <4>1. listed \in Seq(Files) BY <1>1, ListedFiles
        <4>2. next - 1 \in 1 .. Len(listed) /\ Len(listed) \in Nat BY <1>7, <4>1
        <4> QED BY <1>1, <4>2
      <3>2. Tally(l, n) \in Nat
            /\ Tally(l, n + 1) =
                 Tally(l, n) + IF listed[n + 1] \in CountedFiles
                               THEN WordsCounted(tree.content[listed[n + 1]], l) ELSE 0
        BY <1>1, <3>1, TallyAdds
      <3>3. Tally(l, n + 1) = Tally(l, n) + WordsCounted(text, l) BY <1>7, <3>1, <3>2
      <3>4. CountExact' BY <1>5, ReaderCounts, PTL
      <3>5. alphaCount'[l] = before'[l] + WordsCounted(text, l)'
        BY <2>1, <3>4 DEF CountExact
      <3>6. WordsCounted(text, l)' = WordsCounted(text, l)
        BY <1>3 DEF WordsCounted, Counted, OddGap, Gap, PieceStart, IsSpace, IsLetter
      <3>7. before'[l] = Tally(l, n) BY <1>3, <1>7, <3>1
      <3>8. Tally(l, next - 1)' = Tally(l, n + 1)
        <4>1. Tally(l, n + 1)' = Tally(l, n + 1) BY <1>6
        <4>2. next' - 1 = n + 1 BY <1>1, <3>1
        <4> QED BY <4>1, <4>2 DEF Tally, First
      <3> QED BY <3>3, <3>5, <3>6, <3>7, <3>8
    <2>2. CASE pc' # "done"
      <3>1. \A l \in Letter : before'[l] = Tally(l, next - 2)'
        <4> TAKE l \in Letter
        <4>1. PICK n : n = next - 2 /\ n = next' - 2 BY <1>1
        <4>2. before[l] = Tally(l, n) BY <1>7, <4>1
        <4>3. Tally(l, n)' = Tally(l, n) BY <1>6
        <4>4. Tally(l, next - 2)' = Tally(l, n)' BY <4>1 DEF Tally, First
        <4> QED BY <1>3, <4>2, <4>3, <4>4
      <3>2. /\ (next - 1)' \in DOMAIN listed' /\ listed'[(next - 1)'] \in CountedFiles'
            /\ text' = tree'.content[listed'[(next - 1)']]
        BY <1>1, <1>2, <1>3, <1>6, <1>7
      <3> QED BY <1>3, <2>2, <3>1, <3>2 DEF TalliesOk
    <2> QED BY <2>1, <2>2
  <1>9. program = "mapreduce" => OpenedOk'
    BY <1>1, <1>2, <1>6 DEF OpenedOk, First
  <1> QED BY <1>1, <1>2, <1>4, <1>5, <1>8, <1>9 DEF FolderInv

\* and when nothing changes.
LEMMA FolderStutters == ASSUME FolderInv, UNCHANGED vars PROVE FolderInv'
  <1>1. /\ UNCHANGED <<program, tree, status, stack, listed, skipped, opened, next>>
        /\ UNCHANGED counting /\ UNCHANGED <<unit, text, pc, before, alphaCount>>
    BY DEF vars, walking, counting
  <1>2. WalkInv' BY <1>1, WalkUntouched
  <1>3. ReaderInv' BY <1>1, ReaderStep DEF FolderInv
  <1>4. /\ CountedFiles' = CountedFiles /\ \A n : First(n)' = First(n)
        /\ \A l, n : Tally(l, n)' = Tally(l, n)
    BY <1>1, SameTally DEF FolderInv
  <1>5. TalliesOk' <=> TalliesOk
    <2>1. \A l : /\ Tally(l, next - 1)' = Tally(l, next - 1)
                 /\ Tally(l, next - 2)' = Tally(l, next - 2)
      BY <1>1, <1>4 DEF Tally, First
    <2> QED BY <1>1, <1>4, <2>1 DEF TalliesOk
  <1>6. OpenedOk' <=> OpenedOk BY <1>1 DEF OpenedOk, First
  <1> QED BY <1>1, <1>2, <1>3, <1>5, <1>6 DEF FolderInv

\* So every step keeps it.
LEMMA FolderStep == FolderInv /\ [Next]_vars => FolderInv'
  BY WalkKeeps, WcsMainKeeps, OpenNextKeeps, OpenFailsKeeps, WordcountKeeps, FolderStutters
  DEF Next

\* Wherever the programs are between the tree and the counts: what is listed was
\* looked for and lies behind the walk, what is looked for is listed or lies
\* before it, and what is counted is what the files passed so far hold.
THEOREM FolderInvariance == Spec => []FolderInv
  BY FolderInitOk, FolderStep, PTL DEF Spec

\* At the end nothing is pending, so all that is wanted is listed, and the tally
\* of the whole list is that of the counted files.
LEMMA FolderInvImplies == FolderInv => FolderCounted
  <1> SUFFICES ASSUME FolderInv, Finished PROVE FolderCounted BY DEF FolderCounted
  <1>1. /\ WalkInv /\ TalliesOk /\ status = "listed" /\ next \in Nat \ {0}
        /\ next > Len(listed) /\ next <= Len(listed) + 1 /\ pc \in {"closed", "done"}
    BY DEF FolderInv, Finished
  <1>2. /\ stack = <<>> /\ Listing(stack, listed, skipped) /\ listed \in Seq(Files)
        /\ program \in {"mapreduce", "client", "wcs"}
        /\ program # "wcs" => Found(stack, listed, skipped)
    BY <1>1 DEF WalkInv, WalkOk, Listing
  <1>3. \A e : ~Pending(stack, e)
    <2>1. Len(stack) = 0 /\ 1 .. 0 = {} BY <1>2
    <2> QED BY <2>1 DEF Pending
  <1>4. program # "wcs" => \A e : e \in ToSet(listed) <=> Wanted(e, skipped)
    BY <1>2, <1>3 DEF Found, Listing
  <1>5. program = "mapreduce" => ToSet(listed) = FoundByMapreduce
    <2> SUFFICES ASSUME program = "mapreduce", NEW e
                 PROVE  e \in ToSet(listed) <=> e \in FoundByMapreduce
      BY Zenon
    <2> QED BY <1>4 DEF Wanted, FoundByMapreduce, OpenedForFile
  <1>6. program = "client" => ToSet(listed) = FoundByClient
    <2> SUFFICES ASSUME program = "client", NEW e
                 PROVE  e \in ToSet(listed) <=> e \in FoundByClient
      BY Zenon
    <2> QED BY <1>4 DEF Wanted, FoundByClient, Up
  <1>7. ASSUME NEW l \in Letter
        PROVE  alphaCount[l] =
                 SumFunction([f \in CountedFiles |-> WordsCounted(tree.content[f], l)])
    <2>1. PICK m \in Nat : m = Len(listed) /\ m = next - 1 BY <1>1, <1>2
    <2>2. alphaCount[l] = Tally(l, m) BY <1>1, <2>1 DEF TalliesOk
    <2>3. First(m) = ToSet(listed)
      <3>1. listed \in Seq(Files) BY <1>2
      <3>2. \A q \in Seq(Files) : DOMAIN q = 1 .. Len(q) OBVIOUS
      <3>3. Len(listed) = m BY <2>1
      <3>4. DOMAIN listed = 1 .. m BY <3>1, <3>2, <3>3, Zenon
      <3> QED BY <3>4 DEF First, ToSet
    <2>4. /\ IsFiniteSet(CountedFiles) /\ CountedFiles \in SUBSET Files
          /\ CountedFiles \cap First(m) = CountedFiles
      <3>1. CountedFiles \in SUBSET ToSet(listed) BY <1>1, ListedFiles
      <3>2. m \in 0 .. Len(listed) BY <2>1
      <3>3. IsFiniteSet(First(m)) /\ First(m) \in SUBSET Files BY <1>1, <3>2, ListedFiles
      <3> QED BY <2>3, <3>1, <3>3, FS_Subset
    <2>5. PICK w : w = [f \in CountedFiles |-> WordsCounted(tree.content[f], l)] OBVIOUS
    <2>6. \A f \in CountedFiles : Words(l)[f] \in Nat /\ w[f] = Words(l)[f]
      BY <1>1, <2>4, <2>5, WordsAreNat
    <2>7. SumFunctionOnSet(w, CountedFiles) = SumFunctionOnSet(Words(l), CountedFiles)
      BY <2>4, <2>6, SumSame
    <2>8. DOMAIN w = CountedFiles BY <2>5
    <2>9. SumFunction(w) = SumFunctionOnSet(w, CountedFiles) BY <2>8 DEF SumFunction
    <2> QED BY <2>2, <2>4, <2>5, <2>7, <2>9 DEF Tally
  <1> QED BY <1>2, <1>5, <1>6, <1>7 DEF FolderCounted, Listing

\* From the tree to the counts, for every tree, any number of descriptors and
\* lines: every file that the program looks for is listed once, and its words
\* are counted once (project2/src/phase1.c:12, phase2.c:10, PA4_Client/src/
\* phase1.c:3, client.c:15).
THEOREM FolderIsCounted == Spec => []FolderCounted
  BY FolderInvariance, FolderInvImplies, PTL

\* Each file of the folder adds exactly its words, whichever way it was found.
THEOREM FilesCountedExactly == Spec => []CountExact
  <1>1. FolderInv => CountExact BY ReaderCounts DEF FolderInv
  <1> QED BY <1>1, FolderInvariance, PTL
=============================================================================
