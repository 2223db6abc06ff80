----------------------------- MODULE FirstLetters -----------------------------
(***************************************************************************)
(* How the programs count the words of a text by their first letter.       *)
(* mapreduce (project2/src/phase2.c:10) and the mapper clients             *)
(* (PA4_Client/src/client.c:15) read a file character by character; wcs    *)
(* (project3) reads it in pieces with fgets and looks for a letter behind  *)
(* something that is none.  The model has the characters' classes; upper   *)
(* and lower case are one letter.                                          *)
(***************************************************************************)
EXTENDS Integers, Sequences, FiniteSets

CONSTANTS
  Letter, Blank, Newline, Other,   \* Blank: a space, tab, \v, \r or \f
  LineSize,                        \* the size given to fgets: 1024
  Texts                            \* the files' contents

Space == {Blank, Newline}
Char == Letter \cup Space \cup {Other}

ASSUME CharactersAssumption ==
  /\ Letter \cap {Blank, Newline, Other} = {} /\ Other \notin Space /\ Blank # Newline
  /\ LineSize \in Nat /\ LineSize > 1
  /\ Texts \subseteq Seq(Char)

VARIABLES
  unit,          \* what a program counts in: a "file" or a "line"
  text,          \* the file being read
  pos,           \* the next character's position
  pc,            \* where in wordcount, or in the producer's loop
  from, upto,    \* the piece fgets returned
  before,        \* HISTORY: alphaCount when the file was opened
  alphaCount     \* the words counted, per letter

piece == <<from, upto>>
counting == <<unit, text, pos, pc, piece, before, alphaCount>>

CountInit ==
  /\ unit \in {"file", "line"} /\ text = <<>> /\ pos = 1 /\ pc = "closed"
  /\ from = 1 /\ upto = 0
  /\ alphaCount = [l \in Letter |-> 0] /\ before = alphaCount

Open(t) ==
  /\ pc \in {"closed", "done"}
  /\ text' = t /\ pos' = 1 /\ pc' = IF unit = "file" THEN "first" ELSE "fgets"
  /\ before' = alphaCount
  /\ UNCHANGED <<unit, piece, alphaCount>>

IsLetter(t, k) == k \in DOMAIN t /\ t[k] \in Letter
IsSpace(t, k) == k \in DOMAIN t /\ t[k] \in Space

\* alphaCount[c-65]++ or alphaCount[c-97]++ if the character at pos is a letter.
CountAtPos ==
  alphaCount' = [l \in Letter |->
    IF IsLetter(text, pos) /\ text[pos] = l THEN alphaCount[l] + 1 ELSE alphaCount[l]]
-----------------------------------------------------------------------------
(***************************************************************************)
(* wordcount(txtName, alphaCount) of phase2.c and client.c.  Position      *)
(* Len(text) + 1 reads EOF.                                                *)
(***************************************************************************)
ReadFirst ==
  /\ pc = "first" /\ CountAtPos /\ pos' = 2 /\ pc' = "loop"
  /\ UNCHANGED <<unit, text, piece, before>>

feof == pos > Len(text) + 1

ReadNext ==
  /\ pc = "loop" /\ ~feof
  /\ pc' = IF IsSpace(text, pos) THEN "after" ELSE "loop"
  /\ pos' = pos + 1
  /\ UNCHANGED <<unit, text, piece, before, alphaCount>>

\* The character behind white space is taken whatever it is.
StepAfterStay == pos
StepAfter == pos + 1
ReadAfter ==
  /\ pc = "after" /\ CountAtPos /\ pos' = StepAfter /\ pc' = "loop"
  /\ UNCHANGED <<unit, text, piece, before>>

EndOfFile ==
  /\ pc = "loop" /\ feof /\ pc' = "done"
  /\ UNCHANGED <<unit, text, pos, piece, before, alphaCount>>
-----------------------------------------------------------------------------
(***************************************************************************)
(* The producer's fgets and the consumers' wordcount(line) of project 3.   *)
(***************************************************************************)
IsPieceEnd(s, e) ==
  /\ e \in DOMAIN text /\ e >= s /\ e - s < LineSize - 1
  /\ \A k \in s .. e - 1 : text[k] # Newline
  /\ text[e] = Newline \/ e = Len(text) \/ e - s = LineSize - 2

Fgets ==
  /\ pc = "fgets" /\ pos <= Len(text)
  /\ \E e \in pos .. Len(text) : IsPieceEnd(pos, e) /\ upto' = e
  /\ from' = pos /\ pc' = "scan"
  /\ UNCHANGED <<unit, text, pos, before, alphaCount>>

\* line[0] is no letter: the '-' the producer puts before the piece, or the
\* character before pos.
BehindNonLetter == pos = from \/ ~IsLetter(text, pos - 1)

Scan ==
  /\ pc = "scan"
  /\ IF BehindNonLetter THEN CountAtPos ELSE UNCHANGED alphaCount
  /\ pos' = pos + 1 /\ pc' = IF pos = upto THEN "fgets" ELSE "scan"
  /\ UNCHANGED <<unit, text, piece, before>>

LastPiece ==
  /\ pc = "fgets" /\ pos > Len(text) /\ pc' = "done"
  /\ UNCHANGED <<unit, text, pos, piece, before, alphaCount>>

CountStep ==
  \/ ReadFirst \/ ReadNext \/ ReadAfter \/ EndOfFile
  \/ Fgets \/ Scan \/ LastPiece

CountNext == CountStep \/ \E t \in Texts : Open(t)

CountSpec == CountInit /\ [][CountNext]_counting
-----------------------------------------------------------------------------
CountTypeOK ==
  /\ unit \in {"file", "line"} /\ text \in Seq(Char)
  /\ pos \in Nat \ {0} /\ from \in Nat \ {0} /\ upto \in Nat
  /\ pc \in {"closed", "first", "loop", "after", "fgets", "scan", "done"}
  /\ alphaCount \in [Letter -> Nat] /\ before \in [Letter -> Nat]

\* Position k of text t stands behind a gap: white space from j to k - 1, all
\* there is but for the first character, which wordcount reads apart.
Gap(t, j, k) ==
  /\ j >= 2 /\ j < k
  /\ \A n \in j .. k - 1 : IsSpace(t, n)
  /\ j > 2 => ~IsSpace(t, j - 1)

\* A character is counted if the gap before it has odd length.
OddGap(t, k) == \E j \in 2 .. k - 1 : Gap(t, j, k) /\ (k - j) % 2 = 1

\* Position k begins a piece: its distance from the start of its line is a
\* multiple of what fgets takes at once.
PieceStart(t, k) ==
  \E j \in 1 .. k :
    /\ j = 1 \/ t[j - 1] = Newline
    /\ \A n \in j .. k - 1 : t[n] # Newline
    /\ \E m \in 0 .. k : k = j + m * (LineSize - 1)

Counted(t, k) ==
  IF unit = "file" THEN k = 1 \/ OddGap(t, k) ELSE PieceStart(t, k) \/ ~IsLetter(t, k - 1)

\* How many words with the letter l a program counts in text t.
WordsCounted(t, l) == Cardinality({k \in DOMAIN t : t[k] = l /\ Counted(t, k)})

\* What one file adds to the counts.  mapreduce and the mappers count the first
\* letter of the file and every letter behind a gap of odd length, so that a word
\* behind an empty line or two spaces is missed (phase2.c:26-28); wcs counts
\* every letter behind something else, and once more a word that fgets cuts
\* (producer.c:27-31).
CountExact ==
  pc = "done" => \A l \in Letter : alphaCount[l] = before[l] + WordsCounted(text, l)
=============================================================================
