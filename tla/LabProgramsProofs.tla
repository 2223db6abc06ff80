--------------------------- MODULE LabProgramsProofs ---------------------------
(***************************************************************************)
(* Proofs about the lab programs, for every number of threads, clients and *)
(* lines and every size of a matrix: lab 13, whose clients read what       *)
(* answers them; lab 8, whose threads add up exactly an even square; lab   *)
(* 12, whose limit is kept; and, as each program is alone in a behaviour   *)
(* of LabPrograms, all of these and the buffers' refinement there.         *)
(***************************************************************************)
EXTENDS LabPrograms, TaskBufferProofs, FiniteSetTheorems, TLAPS

(***************************************************************************)
(* Lab 13.  A client waits for its answer before it sends again, so as     *)
(* long as nothing came twice and every address was set, one datagram at   *)
(* most is under way for it: on its way there, in the server, or on its    *)
(* way back.                                                               *)
(***************************************************************************)

ChatTypeOK ==
  /\ asked \in [Talkers -> 0 .. MaxAsked] /\ upc \in [Talkers -> {"ask", "wait"}]
  /\ answer \in [Talkers -> Line \cup {Nothing}]
  /\ toServer \subseteq Line /\ toClients \subseteq [to : Talkers, re : Line]
  /\ hearing \in Line \cup {Nothing} /\ cliaddr \in Talkers \cup {"nobody"}
  /\ repeated \in Nat /\ badLength \in Nat

\* With every address set, answers go to whom they answer.
Addressed ==
  badLength = 0 =>
    /\ \A a \in toClients : a.to = a.re.client
    /\ hearing # Nothing => cliaddr = hearing.client
    /\ \A c \in Talkers : answer[c] # Nothing => answer[c].client = c

\* m is client c's last line, and c waits for its answer.
Current(m) == upc[m.client] = "wait" /\ m.number = asked[m.client]

\* No answer to client c is on its way.
NoneBack(c) == \A a \in toClients : a.re.client # c

\* Only a line sent for the last time and not yet answered is under way, and in
\* one place.
OnTheWayThere ==
  \A m \in toServer :
    /\ Current(m) /\ NoneBack(m.client)
    /\ hearing # Nothing => hearing.client # m.client
InTheServer == hearing # Nothing => Current(hearing) /\ NoneBack(hearing.client)
OnTheWayBack == \A a \in toClients : Current(a.re)
AnswerRead ==
  \A c \in Talkers : upc[c] = "ask" /\ answer[c] # Nothing => answer[c].number = asked[c]

OneUnderWay ==
  badLength + repeated = 0 => OnTheWayThere /\ InTheServer /\ OnTheWayBack /\ AnswerRead

ChatInv == ChatTypeOK /\ Addressed /\ OneUnderWay
-----------------------------------------------------------------------------
LEMMA ChatInitInv == ChatInit => ChatInv
BY ChatAssumption
   DEF ChatInit, ChatInv, ChatTypeOK, Addressed, OneUnderWay, OnTheWayThere,
       InTheServer, OnTheWayBack, AnswerRead

\* The type is kept.
LEMMA ChatTyped == ChatTypeOK /\ [ChatNext]_chat => ChatTypeOK'
<1> SUFFICES ASSUME ChatTypeOK, [ChatNext]_chat PROVE ChatTypeOK'  OBVIOUS
<1> USE ChatAssumption DEF ChatTypeOK
<1>1. ASSUME NEW c \in Talkers, Ask(c) PROVE ChatTypeOK'
  <2>1. asked' \in [Talkers -> 0 .. MaxAsked] /\ asked'[c] \in 1 .. MaxAsked
    BY <1>1 DEF Ask
  <2>2. toServer' \subseteq Line  BY <1>1, <2>1 DEF Ask, Line
  <2> QED  BY <1>1, <2>1, <2>2 DEF Ask
<1>2. ASSUME NEW m \in toServer, ServerHears(m) PROVE ChatTypeOK'
  <2>1. m.client \in Talkers  BY DEF Line
  <2> QED  BY <1>2, <2>1 DEF ServerHears, Taken
<1>3. CASE ServerAnswers
  <2>1. hearing \in Line  BY <1>3 DEF ServerAnswers
  <2> QED  BY <1>3, <2>1 DEF ServerAnswers, Addressee
<1>4. ASSUME NEW c \in Talkers, NEW m \in toClients, Reads(c, m) PROVE ChatTypeOK'
  BY <1>4 DEF Reads, Taken
<1>5. CASE Lose  BY <1>5 DEF Lose
<1>6. CASE UNCHANGED chat  BY <1>6 DEF chat
<1> QED  BY <1>1, <1>2, <1>3, <1>4, <1>5, <1>6 DEF ChatNext

\* An answer that goes astray has an unset address behind it.
LEMMA ChatAddressed == ChatInv /\ [ChatNext]_chat => Addressed'
<1> SUFFICES ASSUME ChatInv, [ChatNext]_chat PROVE Addressed'  OBVIOUS
<1> USE DEF ChatInv, ChatTypeOK, Addressed
<1>1. ASSUME NEW c \in Talkers, Ask(c) PROVE Addressed'  BY <1>1 DEF Ask
<1>2. ASSUME NEW m \in toServer, ServerHears(m) PROVE Addressed'
  BY <1>2 DEF ServerHears
<1>3. CASE ServerAnswers  BY <1>3 DEF ServerAnswers, Addressee
<1>4. ASSUME NEW c \in Talkers, NEW m \in toClients, Reads(c, m) PROVE Addressed'
  BY <1>4 DEF Reads, Taken
<1>5. CASE Lose  BY <1>5 DEF Lose
<1>6. CASE UNCHANGED chat  BY <1>6 DEF chat
<1> QED  BY <1>1, <1>2, <1>3, <1>4, <1>5, <1>6 DEF ChatNext

\* Two lines of which both are the last of one client are one line.
LEMMA CurrentIsOne ==
  ASSUME NEW m \in Line, NEW n \in Line, Current(m), Current(n), m.client = n.client
  PROVE  m = n
BY DEF Line, Current

LEMMA ChatOneUnderWay == ChatInv /\ [ChatNext]_chat => OneUnderWay'
<1> SUFFICES ASSUME ChatInv, [ChatNext]_chat, (badLength + repeated)' = 0
             PROVE  (OnTheWayThere /\ InTheServer /\ OnTheWayBack /\ AnswerRead)'
  BY DEF OneUnderWay
<1> DEFINE Goal == (OnTheWayThere /\ InTheServer /\ OnTheWayBack /\ AnswerRead)'
<1> USE DEF ChatInv, ChatTypeOK
<1>1. ASSUME NEW c \in Talkers, Ask(c) PROVE Goal
  <2>1. OnTheWayThere /\ InTheServer /\ OnTheWayBack /\ AnswerRead
    BY <1>1 DEF Ask, OneUnderWay
  <2>2. /\ \A m \in toServer : m.client # c
        /\ hearing # Nothing => hearing.client # c
        /\ \A a \in toClients : a.re.client # c
    BY <1>1, <2>1 DEF OnTheWayThere, InTheServer, OnTheWayBack, Current, Ask
  <2>3. asked'[c] = asked[c] + 1 /\ upc'[c] = "wait"  BY <1>1 DEF Ask
  <2>4. OnTheWayThere'
    <3> SUFFICES ASSUME NEW m \in toServer'
                 PROVE  /\ Current(m)' /\ NoneBack(m.client)'
                        /\ hearing' # Nothing => hearing'.client # m.client
      BY DEF OnTheWayThere
    <3>1. CASE m \in toServer
      BY <1>1, <2>1, <2>2, <3>1 DEF Ask, OnTheWayThere, Current, NoneBack, Line
    <3>2. CASE m = [client |-> c, number |-> asked'[c]]
      BY <1>1, <2>2, <2>3, <3>2 DEF Ask, Current, NoneBack
    <3> QED  BY <1>1, <3>1, <3>2 DEF Ask
  <2>5. InTheServer'
    BY <1>1, <2>1, <2>2 DEF Ask, InTheServer, Current, NoneBack, Line
  <2>6. OnTheWayBack'  BY <1>1, <2>1, <2>2 DEF Ask, OnTheWayBack, Current, Line
  <2>7. AnswerRead'  BY <1>1, <2>1, <2>3 DEF Ask, AnswerRead
  <2> QED  BY <2>4, <2>5, <2>6, <2>7
<1>2. ASSUME NEW m \in toServer, ServerHears(m) PROVE Goal
  <2>1. /\ OnTheWayThere /\ InTheServer /\ OnTheWayBack /\ AnswerRead
        /\ toServer' = toServer \ {m}
    BY <1>2 DEF ServerHears, Taken, OneUnderWay
  <2>2. \A n \in toServer' : n.client # m.client
    BY <2>1, CurrentIsOne DEF OnTheWayThere
  <2>3. OnTheWayThere' /\ InTheServer'
    BY <1>2, <2>1, <2>2 DEF ServerHears, OnTheWayThere, InTheServer, Current, NoneBack
  <2>4. OnTheWayBack' /\ AnswerRead'
    BY <1>2, <2>1 DEF ServerHears, OnTheWayBack, AnswerRead, Current
  <2> QED  BY <2>3, <2>4
<1>3. CASE ServerAnswers
  <2>1. OnTheWayThere /\ InTheServer /\ OnTheWayBack /\ AnswerRead /\ hearing # Nothing
    BY <1>3 DEF ServerAnswers, OneUnderWay
  <2>2. \A a \in toClients' : a \in toClients \/ a.re = hearing
    BY <1>3 DEF ServerAnswers
  <2>3. OnTheWayThere' /\ InTheServer'
    BY <1>3, <2>1, <2>2 DEF ServerAnswers, OnTheWayThere, InTheServer, Current, NoneBack
  <2>4. OnTheWayBack' /\ AnswerRead'
    BY <1>3, <2>1, <2>2 DEF ServerAnswers, OnTheWayBack, InTheServer, AnswerRead, Current
  <2> QED  BY <2>3, <2>4
<1>4. ASSUME NEW c \in Talkers, NEW a \in toClients, Reads(c, a) PROVE Goal
  <2>1. /\ OnTheWayThere /\ InTheServer /\ OnTheWayBack /\ AnswerRead
        /\ badLength = 0 /\ toClients' = toClients \ {a}
    BY <1>4 DEF Reads, Taken, OneUnderWay
  <2>2. a.re.client = c /\ a.to = c  BY <1>4, <2>1 DEF Reads, Addressed
  <2>3. \A b \in toClients' : b.re.client # c
    <3> SUFFICES ASSUME NEW b \in toClients, b.re.client = c PROVE b = a
      BY <2>1
    <3>1. b.re = a.re  BY <2>1, <2>2, CurrentIsOne DEF OnTheWayBack
    <3>2. b.to = a.to  BY <2>1, <2>2 DEF Addressed
    <3> QED  BY <3>1, <3>2
  <2>4. OnTheWayThere' /\ InTheServer'
    BY <1>4, <2>1, <2>2 DEF Reads, OnTheWayThere, InTheServer, Current, NoneBack, Line
  <2>5. OnTheWayBack'
    BY <1>4, <2>1, <2>3 DEF Reads, OnTheWayBack, Current, Line
  <2>6. AnswerRead'
    BY <1>4, <2>1, <2>2 DEF Reads, AnswerRead, OnTheWayBack, Current
  <2> QED  BY <2>4, <2>5, <2>6
<1>5. CASE Lose
  BY <1>5 DEF Lose, OneUnderWay, OnTheWayThere, InTheServer, OnTheWayBack, AnswerRead,
              Current, NoneBack
<1>6. CASE UNCHANGED chat
  BY <1>6 DEF chat, OneUnderWay, OnTheWayThere, InTheServer, OnTheWayBack, AnswerRead,
              Current, NoneBack
<1> QED  BY <1>1, <1>2, <1>3, <1>4, <1>5, <1>6 DEF ChatNext
-----------------------------------------------------------------------------
\* One datagram at most is under way for each client that was told no wrong
\* length and nothing twice.
THEOREM ChatInvariance == ChatSpec => []ChatInv
<1>1. ChatInv /\ [ChatNext]_chat => ChatInv'
  BY ChatTyped, ChatAddressed, ChatOneUnderWay DEF ChatInv
<1> QED  BY <1>1, ChatInitInv, PTL DEF ChatSpec

\* What a client of lab 13 reads answers its own last line, for any number of
\* clients and lines, whatever UDP loses or reorders (server-2.c:51,
\* client-2.c:46).
THEOREM AnswersBelong == ChatSpec => []AnswerBelongs
<1>1. ChatInv => AnswerBelongs
  BY DEF ChatInv, ChatTypeOK, Addressed, OneUnderWay, AnswerRead, AnswerBelongs
<1> QED  BY <1>1, ChatInvariance, PTL
-----------------------------------------------------------------------------
(***************************************************************************)
(* Lab 8.  A thread has written what it was given and has not left, and    *)
(* the four quarters are a square of even side.                            *)
(***************************************************************************)
Piece(a) == IF a <= 4 THEN Quarter(a - 1) ELSE All
Written(a) == IF a \in DOMAIN adders THEN Piece(a) \ adders[a] ELSE {}
Side == 2 * Half
Square == (0 .. Side - 1) \X (0 .. Side - 1)

AddersInv ==
  /\ \E k \in 0 .. 5 : DOMAIN adders = 1 .. k
  /\ \A a \in DOMAIN adders : adders[a] \subseteq Piece(a)
  /\ 5 \in DOMAIN adders => \A a \in 1 .. 4 : adders[a] = {}

ResultsInv ==
  /\ \A c : c \in multi <=> \E a \in 1 .. 4 : c \in Written(a)
  /\ single = Written(5)

MatrixInv ==
  /\ size \in Nat
  /\ AddersInv /\ ResultsInv
  /\ matched # -1 => matched = Side * Side

LEMMA HalfTwice ==
  ASSUME size \in Nat
  PROVE  /\ Half \in Nat /\ Side \in Nat /\ Side <= size
         /\ Side = IF size % 2 = 0 THEN size ELSE size - 1
BY DEF Half, Side

\* The four quarters make up the square, which lies within the matrix.
LEMMA QuartersMakeSquare ==
  ASSUME size \in Nat
  PROVE  /\ \A c : c \in Square <=> \E a \in 1 .. 4 : c \in Piece(a)
         /\ Square \subseteq Piece(5)
<1>1. /\ Piece(1) = Cells(0, Half, 0, Half)
      /\ Piece(2) = Cells(Half, Half + Half, 0, Half)
      /\ Piece(3) = Cells(0, Half, Half, Half + Half)
      /\ Piece(4) = Cells(Half, Half + Half, Half, Half + Half)
      /\ Piece(5) = Cells(0, size, 0, size)
  <2>1. Half \in Nat  BY HalfTwice
  <2>2. /\ 0 % 2 = 0 /\ 1 % 2 = 1 /\ 2 % 2 = 0 /\ 3 % 2 = 1
        /\ 0 \div 2 = 0 /\ 1 \div 2 = 0 /\ 2 \div 2 = 1 /\ 3 \div 2 = 1
    OBVIOUS
  <2>3. /\ Quarter(0) = Cells(0, Half, 0, Half)
        /\ Quarter(1) = Cells(Half, Half + Half, 0, Half)
        /\ Quarter(2) = Cells(0, Half, Half, Half + Half)
        /\ Quarter(3) = Cells(Half, Half + Half, Half, Half + Half)
    BY <2>1, <2>2 DEF Quarter
  <2> QED  BY <2>3 DEF Piece, All
<1>2. ASSUME NEW x \in Int, NEW y \in Int
      PROVE  /\ <<x, y>> \in Square <=> \E a \in 1 .. 4 : <<x, y>> \in Piece(a)
             /\ <<x, y>> \in Square => <<x, y>> \in Piece(5)
  <2>1. Half \in Nat /\ Side = Half + Half /\ Side <= size
    BY HalfTwice DEF Side
  <2>2. /\ <<x, y>> \in Square <=> x \in 0 .. Side - 1 /\ y \in 0 .. Side - 1
        /\ <<x, y>> \in Piece(1) <=> x \in 0 .. Half - 1 /\ y \in 0 .. Half - 1
        /\ <<x, y>> \in Piece(2) <=> x \in Half .. Side - 1 /\ y \in 0 .. Half - 1
        /\ <<x, y>> \in Piece(3) <=> x \in 0 .. Half - 1 /\ y \in Half .. Side - 1
        /\ <<x, y>> \in Piece(4) <=> x \in Half .. Side - 1 /\ y \in Half .. Side - 1
        /\ <<x, y>> \in Piece(5) <=> x \in 0 .. size - 1 /\ y \in 0 .. size - 1
    BY <1>1, <2>1 DEF Square, Cells
  <2>3. (\E a \in 1 .. 4 : <<x, y>> \in Piece(a)) <=>
          \/ <<x, y>> \in Piece(1) \/ <<x, y>> \in Piece(2)
          \/ <<x, y>> \in Piece(3) \/ <<x, y>> \in Piece(4)
    <3>1. \A a \in 1 .. 4 : a = 1 \/ a = 2 \/ a = 3 \/ a = 4  OBVIOUS
    <3> QED  BY <3>1
  <2> QED  BY <2>1, <2>2, <2>3
<1>3. ASSUME NEW c, c \in Square \/ \E a \in 1 .. 4 : c \in Piece(a)
      PROVE  \E x, y \in Int : c = <<x, y>>
  <2>1. \A a \in 1 .. 4 : a = 1 \/ a = 2 \/ a = 3 \/ a = 4  OBVIOUS
  <2> QED  BY <1>1, <1>3, <2>1 DEF Square, Cells
<1> QED  BY <1>2, <1>3

LEMMA MatrixInitInv == MatrixInit => MatrixInv
<1> SUFFICES ASSUME MatrixInit PROVE MatrixInv  OBVIOUS
<1>1. DOMAIN adders = {} /\ 1 .. 0 = {} /\ 0 \in 0 .. 5  BY DEF MatrixInit
<1>2. AddersInv  BY <1>1 DEF AddersInv
<1>3. ResultsInv  BY <1>1 DEF MatrixInit, ResultsInv, Written
<1> QED  BY <1>2, <1>3, SizesAssumption DEF MatrixInit, MatrixInv

\* A new thread has everything left.
LEMMA CreateAdderKeeps == ASSUME MatrixInv, CreateAdder PROVE MatrixInv'
<1>1. PICK k \in 0 .. 5 : DOMAIN adders = 1 .. k  BY DEF MatrixInv, AddersInv
<1>2. Cardinality(DOMAIN adders) = k
  <2>1. k \in Int /\ 1 \in Int /\ k >= 0  OBVIOUS
  <2>2. Cardinality(1 .. k) = IF 1 > k THEN 0 ELSE k - 1 + 1  BY <2>1, FS_Interval
  <2> QED  BY <1>1, <2>1, <2>2
<1>3. /\ k < 5 /\ (k = 4 => \A a \in 1 .. 4 : adders[a] = {})
      /\ UNCHANGED <<size, multi, single, matched>>
      /\ adders' = [a \in 1 .. k + 1 |->
           IF a <= k THEN adders[a] ELSE IF k < 4 THEN Quarter(k) ELSE All]
  BY <1>1, <1>2 DEF CreateAdder
<1>4. /\ DOMAIN adders' = 1 .. k + 1 /\ k + 1 \in 0 .. 5
      /\ \A a \in 1 .. k : adders'[a] = adders[a]
      /\ adders'[k + 1] = Piece(k + 1)
  BY <1>3 DEF Piece
<1>5. \A a : Piece(a)' = Piece(a)  BY <1>3 DEF Piece, Quarter, All, Half
<1>6. \A a \in 1 .. 5 : Written(a)' = Written(a)
  <2> SUFFICES ASSUME NEW a \in 1 .. 5 PROVE Written(a)' = Written(a)  OBVIOUS
  <2>1. CASE a <= k
    <3>1. a \in 1 .. k /\ a \in 1 .. k + 1  BY <2>1
    <3> QED  BY <3>1, <1>1, <1>4, <1>5 DEF Written
  <2>2. CASE a = k + 1  BY <2>2, <1>1, <1>4, <1>5 DEF Written
  <2>3. CASE a > k + 1  BY <2>3, <1>1, <1>4 DEF Written
  <2> QED  BY <2>1, <2>2, <2>3
<1>7. AddersInv'
  <2>1. \A a \in 1 .. k : adders[a] \subseteq Piece(a)
    BY <1>1 DEF MatrixInv, AddersInv
  <2>2. \A a \in DOMAIN adders' : adders'[a] \subseteq Piece(a)'
    BY <1>4, <1>5, <2>1
  <2>3. 5 \in DOMAIN adders' => \A a \in 1 .. 4 : adders'[a] = {}
    BY <1>3, <1>4
  <2> QED  BY <1>4, <2>2, <2>3 DEF AddersInv
<1>8. ResultsInv'
  <2>1. \A c : c \in multi <=> \E a \in 1 .. 4 : c \in Written(a)
    BY DEF MatrixInv, ResultsInv
  <2>2. single = Written(5)  BY DEF MatrixInv, ResultsInv
  <2> QED  BY <1>3, <1>6, <2>1, <2>2 DEF ResultsInv
<1> QED  BY <1>3, <1>7, <1>8 DEF MatrixInv, Side, Half

\* A cell is left no more when it is written.
LEMMA AddCellKeeps == ASSUME MatrixInv, NEW t \in DOMAIN adders, AddCell(t) PROVE MatrixInv'
<1>1. PICK k \in 0 .. 5 : DOMAIN adders = 1 .. k  BY DEF MatrixInv, AddersInv
<1>2. PICK e \in adders[t] :
        /\ adders' = [adders EXCEPT ![t] = @ \ {e}]
        /\ IF t <= 4 THEN multi' = multi \cup {e} /\ UNCHANGED single
           ELSE single' = single \cup {e} /\ UNCHANGED multi
        /\ UNCHANGED <<size, matched>>
  BY DEF AddCell
<1>3. /\ DOMAIN adders' = DOMAIN adders
      /\ adders'[t] = adders[t] \ {e}
      /\ \A a \in DOMAIN adders : a # t => adders'[a] = adders[a]
  BY <1>2
<1>4. \A a : Piece(a)' = Piece(a)  BY <1>2 DEF Piece, Quarter, All, Half
<1>5. e \in Piece(t)  BY DEF MatrixInv, AddersInv
<1>6. /\ Written(t)' = Written(t) \cup {e}
      /\ \A a : a # t => Written(a)' = Written(a)
  BY <1>3, <1>4, <1>5 DEF Written
<1>7. AddersInv'
  <2>1. \A a \in DOMAIN adders : adders[a] \subseteq Piece(a)  BY DEF MatrixInv, AddersInv
  <2>2. \A a \in DOMAIN adders' : adders'[a] \subseteq Piece(a)'
    BY <1>3, <1>4, <2>1
  <2>3. 5 \in DOMAIN adders => \A a \in 1 .. 4 : adders[a] = {}  BY DEF MatrixInv, AddersInv
  <2>4. 5 \in DOMAIN adders' => \A a \in 1 .. 4 : adders'[a] = {}
    <3> SUFFICES ASSUME 5 \in 1 .. k, NEW a \in 1 .. 4 PROVE adders'[a] = {}
      BY <1>1, <1>3
    <3>1. a \in DOMAIN adders  BY <1>1
    <3> QED  BY <1>1, <1>3, <2>3, <3>1
  <2> QED  BY <1>1, <1>3, <2>2, <2>4 DEF AddersInv
<1>8. ResultsInv'
  <2>1. \A c : c \in multi <=> \E a \in 1 .. 4 : c \in Written(a)
    BY DEF MatrixInv, ResultsInv
  <2>2. single = Written(5)  BY DEF MatrixInv, ResultsInv
  <2>3. t \in 1 .. 5  BY <1>1
  <2>4. CASE t <= 4
    <3>1. t \in 1 .. 4 /\ t # 5 /\ multi' = multi \cup {e} /\ single' = single
      BY <1>2, <2>3, <2>4
    <3> QED  BY <1>6, <2>1, <2>2, <3>1 DEF ResultsInv
  <2>5. CASE ~(t <= 4)
    <3>1. t = 5 /\ t \notin 1 .. 4 /\ single' = single \cup {e} /\ multi' = multi
      BY <1>2, <2>3, <2>5
    <3> QED  BY <1>6, <2>1, <2>2, <3>1 DEF ResultsInv
  <2> QED  BY <2>4, <2>5
<1> QED  BY <1>2, <1>7, <1>8 DEF MatrixInv, Side, Half

\* When all threads were joined the two results have the square in common.
LEMMA CompareKeeps == ASSUME MatrixInv, Compare PROVE MatrixInv'
<1>1. \A a \in 1 .. 5 : Written(a) = Piece(a)
  <2>1. DOMAIN adders = 1 .. 5 /\ adders[5] = {}  BY DEF Compare
  <2>2. \A a \in 1 .. 4 : adders[a] = {}
    <3>1. 5 \in DOMAIN adders  BY <2>1
    <3> QED  BY <3>1 DEF MatrixInv, AddersInv
  <2>3. \A a \in 1 .. 5 : a \in 1 .. 4 \/ a = 5  OBVIOUS
  <2> QED  BY <2>1, <2>2, <2>3 DEF Written
<1>2. multi \cap single = Square
  <2>1. size \in Nat  BY DEF MatrixInv
  <2>2. \A a \in 1 .. 4 : a \in 1 .. 5  OBVIOUS
  <2>3. \A c : c \in multi <=> c \in Square
    BY <1>1, <2>1, <2>2, QuartersMakeSquare DEF MatrixInv, ResultsInv
  <2>4. single = Piece(5)  BY <1>1 DEF MatrixInv, ResultsInv
  <2> QED  BY <2>1, <2>3, <2>4, QuartersMakeSquare
<1>3. Cardinality(Square) = Side * Side
  <2>1. Side \in Nat  BY HalfTwice DEF MatrixInv
  <2>2. IsFiniteSet(0 .. Side - 1) /\ Cardinality(0 .. Side - 1) = Side
    BY <2>1, FS_Interval
  <2> QED  BY <2>2, FS_Product DEF Square
<1> QED
  BY <1>2, <1>3 DEF Compare, MatrixInv, AddersInv, ResultsInv, Written, Piece, Quarter, All,
                    Side, Half

\* A cell is written once its thread has left it, by no other thread.
THEOREM MatrixInvariance == MatrixSpec => []MatrixInv
<1>1. MatrixInv /\ [MatrixNext]_matrix => MatrixInv'
  <2> SUFFICES ASSUME MatrixInv, [MatrixNext]_matrix PROVE MatrixInv'  OBVIOUS
  <2>1. CASE UNCHANGED matrix
    BY <2>1 DEF matrix, MatrixInv, AddersInv, ResultsInv, Written, Piece, Quarter, All,
                Side, Half
  <2> QED  BY <2>1, CreateAdderKeeps, AddCellKeeps, CompareKeeps DEF MatrixNext
<1> QED  BY <1>1, MatrixInitInv, PTL DEF MatrixSpec

\* For every size of the matrix all entries match if it is even, and all but
\* those of the last row and column if it is odd (rec9.c:67-107).
THEOREM EvenSizes == MatrixSpec => []EvenSizesMatch
<1>1. MatrixInv => EvenSizesMatch  BY HalfTwice DEF MatrixInv, EvenSizesMatch
<1> QED  BY <1>1, MatrixInvariance, PTL
-----------------------------------------------------------------------------
(***************************************************************************)
(* Lab 12.  A client is in one place: not there yet, in the backlog, in    *)
(* main's hands, or main is done with it; so a thread is made once for     *)
(* each.  The lock that is never given back is held from the first client  *)
(* turned away on.                                                         *)
(***************************************************************************)
ServerTypeOK ==
  /\ scl \in [Clients -> {"new", "connected", "waiting", "answered", "done"}]
  /\ backlog \in Seq(Clients) /\ clientfd \in Clients
  /\ spc \in {"accept", "lock", "admit"}
  /\ tpc \in [Clients -> {"none", "read", "write", "close", "exit"}]
  /\ turnedAway \subseteq Clients
  /\ currentConn \in Int /\ failed \in Nat /\ connLocked \in BOOLEAN

Queued(c) == \E n \in 1 .. Len(backlog) : backlog[n] = c
InHand(c) == spc # "accept" /\ clientfd = c

PlacesInv ==
  /\ \A m, n \in 1 .. Len(backlog) : backlog[m] = backlog[n] => m = n
  /\ \A c \in Clients :
       /\ scl[c] = "new" => ~Queued(c) /\ ~InHand(c) /\ tpc[c] = "none"
       /\ Queued(c) => ~InHand(c) /\ tpc[c] = "none"
       /\ InHand(c) => tpc[c] = "none"

ConnLockInv ==
  /\ connLocked <=> spc = "admit" \/ turnedAway # {}
  /\ turnedAway # {} => spc \in {"accept", "lock"}
  /\ turnedAway = {} \/ \E c \in Clients : turnedAway = {c}

LimitInv ==
  /\ currentConn = Cardinality(Sessions) + failed
  /\ currentConn <= MaxConcurrent

ServerInv == ServerTypeOK /\ PlacesInv /\ ConnLockInv /\ LimitInv

LEMMA ServerInitInv == ServerInit => ServerInv
<1> SUFFICES ASSUME ServerInit PROVE ServerInv  OBVIOUS
<1>1. Sessions = {} /\ Cardinality({}) = 0
  BY FS_EmptySet DEF ServerInit, Sessions
<1>2. backlog \in Seq(Clients) /\ Len(backlog) = 0  BY DEF ServerInit
<1>3. ServerTypeOK
  <2>1. scl \in [Clients -> {"new", "connected", "waiting", "answered", "done"}]
    BY DEF ServerInit
  <2>2. tpc \in [Clients -> {"none", "read", "write", "close", "exit"}]
    BY DEF ServerInit
  <2>3. currentConn \in Int /\ failed \in Nat /\ spc \in {"accept", "lock", "admit"}
    BY DEF ServerInit
  <2>4. clientfd \in Clients /\ turnedAway \subseteq Clients /\ connLocked \in BOOLEAN
    BY DEF ServerInit
  <2> QED  BY <1>2, <2>1, <2>2, <2>3, <2>4 DEF ServerTypeOK
<1>4. PlacesInv  BY <1>2 DEF ServerInit, PlacesInv, Queued, InHand
<1>5. ConnLockInv  BY DEF ServerInit, ConnLockInv
<1>6. LimitInv  BY <1>1, ServerAssumption DEF ServerInit, LimitInv
<1> QED  BY <1>3, <1>4, <1>5, <1>6 DEF ServerInv

LEMMA ServerTyped == ServerInv /\ [ServerNext]_server => ServerTypeOK'
<1> SUFFICES ASSUME ServerTypeOK, [ServerNext]_server PROVE ServerTypeOK'  BY DEF ServerInv
<1> USE DEF ServerTypeOK
<1>1. CASE Accept
  <2>1. Head(backlog) \in Clients /\ Tail(backlog) \in Seq(Clients)  BY <1>1 DEF Accept
  <2> QED  BY <1>1, <2>1 DEF Accept
<1>2. CASE MainLocks \/ TurnAway  BY <1>2 DEF MainLocks, TurnAway
<1>6. CASE Admit
  <2>1. tpc' \in [Clients -> {"none", "read", "write", "close", "exit"}]  BY <1>6 DEF Admit
  <2>2. failed' \in Nat /\ currentConn' \in Int  BY <1>6 DEF Admit
  <2> QED  BY <1>6, <2>1, <2>2 DEF Admit
<1>3. ASSUME NEW c \in Clients, ServerThread(c) PROVE ServerTypeOK'
  BY <1>3 DEF ServerThread, ThreadReads, AfterRead, Acknowledge, ThreadEnds
<1>4. ASSUME NEW c \in Clients, ServerClient(c) PROVE ServerTypeOK'
  <2>1. Append(backlog, c) \in Seq(Clients)  OBVIOUS
  <2> QED  BY <1>4, <2>1 DEF ServerClient, Connect, Write, Read, serving
<1>5. CASE UNCHANGED server  BY <1>5 DEF server, serving
<1> QED  BY <1>1, <1>2, <1>3, <1>4, <1>5, <1>6 DEF ServerNext, ServerMain

\* A client that connects is behind all others and nowhere else; the one that
\* is accepted leaves the backlog for main's hands.
LEMMA PlacesKept == ServerInv /\ [ServerNext]_server => PlacesInv'
<1> SUFFICES ASSUME ServerTypeOK, PlacesInv, [ServerNext]_server PROVE PlacesInv'
  BY DEF ServerInv
<1> USE DEF ServerTypeOK
<1>1. CASE Accept
  <2>1. /\ backlog # <<>> /\ backlog' = Tail(backlog) /\ clientfd' = backlog[1]
        /\ spc' = "lock" /\ UNCHANGED <<scl, tpc>>
    BY <1>1 DEF Accept
  <2>2. /\ Len(backlog') = Len(backlog) - 1 /\ Len(backlog) \in Nat /\ Len(backlog) > 0
        /\ \A n \in 1 .. Len(backlog') : backlog'[n] = backlog[n + 1] /\ n + 1 \in 1 .. Len(backlog)
    BY <2>1
  <2>3. \A c \in Clients : Queued(c)' => Queued(c) /\ c # clientfd'
    BY <2>1, <2>2 DEF Queued, PlacesInv
  <2>4. Queued(clientfd')  BY <2>1, <2>2 DEF Queued
  <2>5. \A m, n \in 1 .. Len(backlog') : backlog'[m] = backlog'[n] => m = n
    BY <2>2 DEF PlacesInv
  <2>6. clientfd' \in Clients  BY <2>1, <2>2
  <2> QED  BY <2>1, <2>3, <2>4, <2>5, <2>6 DEF PlacesInv, InHand
<1>2. CASE MainLocks \/ TurnAway
  BY <1>2 DEF MainLocks, TurnAway, PlacesInv, Queued, InHand
<1>3. CASE Admit
  <2>1. InHand(clientfd) /\ clientfd \in Clients  BY <1>3 DEF Admit, InHand
  <2>2. scl[clientfd] # "new" /\ ~Queued(clientfd)  BY <2>1 DEF PlacesInv
  <2> QED  BY <1>3, <2>1, <2>2 DEF Admit, PlacesInv, Queued, InHand
<1>4. ASSUME NEW c \in Clients, ServerThread(c) PROVE PlacesInv'
  <2>1. tpc[c] # "none" /\ UNCHANGED <<scl, backlog, spc, clientfd>>
        /\ \A d \in Clients : d # c => tpc'[d] = tpc[d]
    BY <1>4 DEF ServerThread, ThreadReads, Acknowledge, ThreadEnds
  <2> QED  BY <2>1 DEF PlacesInv, Queued, InHand
<1>5. ASSUME NEW c \in Clients, Connect(c) PROVE PlacesInv'
  <2>1. /\ scl[c] = "new" /\ backlog' = Append(backlog, c) /\ UNCHANGED <<spc, clientfd, tpc>>
        /\ scl' = [scl EXCEPT ![c] = "connected"]
    BY <1>5 DEF Connect, serving
  <2>2. ~Queued(c) /\ ~InHand(c) /\ tpc[c] = "none"  BY <2>1 DEF PlacesInv
  <2>3. /\ Len(backlog') = Len(backlog) + 1 /\ Len(backlog) \in Nat
        /\ backlog'[Len(backlog) + 1] = c
        /\ \A n \in 1 .. Len(backlog) : backlog'[n] = backlog[n]
    BY <2>1
  <2>4. \A n \in 1 .. Len(backlog') : n \in 1 .. Len(backlog) \/ n = Len(backlog) + 1
    BY <2>3
  <2>5. \A d \in Clients : Queued(d)' <=> Queued(d) \/ d = c
    BY <2>3, <2>4 DEF Queued
  <2>6. \A m, n \in 1 .. Len(backlog') : backlog'[m] = backlog'[n] => m = n
    BY <2>2, <2>3, <2>4 DEF PlacesInv, Queued
  <2>7. \A d \in Clients : scl'[d] = "new" => scl[d] = "new" /\ d # c  BY <2>1
  <2> QED  BY <2>1, <2>2, <2>5, <2>6, <2>7 DEF PlacesInv, InHand
<1>6. ASSUME NEW c \in Clients, Write(c) \/ Read(c) PROVE PlacesInv'
  <2>1. /\ UNCHANGED <<backlog, spc, clientfd, tpc>>
        /\ \A d \in Clients : scl'[d] = "new" => scl[d] = "new"
    BY <1>6 DEF Write, Read, serving
  <2> QED  BY <2>1 DEF PlacesInv, Queued, InHand
<1>7. CASE UNCHANGED server
  BY <1>7 DEF server, serving, PlacesInv, Queued, InHand
<1> QED
  BY <1>1, <1>2, <1>3, <1>4, <1>5, <1>6, <1>7 DEF ServerNext, ServerMain, ServerClient

LEMMA ConnLockKept == ServerInv /\ [ServerNext]_server => ConnLockInv'
<1> SUFFICES ASSUME ServerTypeOK, ConnLockInv, [ServerNext]_server PROVE ConnLockInv'
  BY DEF ServerInv
<1> USE DEF ServerTypeOK, ConnLockInv
<1>1. CASE ServerMain
  <2>1. CASE Accept  BY <2>1 DEF Accept
  <2>2. CASE MainLocks  BY <2>2 DEF MainLocks
  <2>3. CASE TurnAway
    <3>1. turnedAway' = {clientfd} /\ clientfd \in Clients /\ spc' = "accept" /\ connLocked' = TRUE
      BY <2>3 DEF TurnAway
    <3> QED  BY <3>1
  <2>4. CASE Admit  BY <2>4 DEF Admit
  <2> QED  BY <1>1, <2>1, <2>2, <2>3, <2>4 DEF ServerMain
<1>2. ASSUME NEW c \in Clients, ServerThread(c) PROVE ConnLockInv'
  BY <1>2 DEF ServerThread, ThreadReads, Acknowledge, ThreadEnds
<1>3. ASSUME NEW c \in Clients, ServerClient(c) PROVE ConnLockInv'
  BY <1>3 DEF ServerClient, Connect, Write, Read, serving
<1>4. CASE UNCHANGED server  BY <1>4 DEF server, serving
<1> QED  BY <1>1, <1>2, <1>3, <1>4 DEF ServerNext

\* The connections counted are those of the threads under way and of the threads
\* that could not be made.
LEMMA LimitKeptOn == ServerInv /\ [ServerNext]_server => LimitInv'
<1> SUFFICES ASSUME ServerTypeOK, PlacesInv, LimitInv, [ServerNext]_server PROVE LimitInv'
  BY DEF ServerInv
<1> USE ServerAssumption DEF ServerTypeOK, LimitInv
<1>1. Sessions \subseteq Clients /\ IsFiniteSet(Sessions) /\ Cardinality(Sessions) \in Nat
  <2>1. Sessions \subseteq Clients  BY DEF Sessions
  <2> QED  BY <2>1, FS_Subset, FS_CardinalityType
<1>2. CASE Admit
  <2>1. tpc[clientfd] = "none" /\ clientfd \in Clients
    BY <1>2 DEF Admit, PlacesInv, InHand
  <2>2. currentConn' = currentConn + 1 /\ currentConn' <= MaxConcurrent
    BY <1>2 DEF Admit
  <2>3. CASE tpc' = [tpc EXCEPT ![clientfd] = "read"] /\ failed' = failed
    <3>1. Sessions' = Sessions \cup {clientfd} /\ clientfd \notin Sessions
      BY <2>1, <2>3 DEF Sessions
    <3>2. Cardinality(Sessions') = Cardinality(Sessions) + 1
      BY <1>1, <3>1, FS_AddElement
    <3> QED  BY <1>1, <2>2, <2>3, <3>2
  <2>4. CASE failed' = failed + 1 /\ tpc' = tpc
    BY <1>1, <2>2, <2>4 DEF Sessions
  <2> QED  BY <1>2, <2>3, <2>4 DEF Admit
<1>3. CASE Accept \/ MainLocks \/ TurnAway
  BY <1>3 DEF Accept, MainLocks, TurnAway, Sessions
<1>4. ASSUME NEW c \in Clients, ThreadReads(c) \/ Acknowledge(c) PROVE LimitInv'
  <2>1. tpc[c] \in {"read", "write"} /\ tpc' = [tpc EXCEPT ![c] = tpc'[c]]
        /\ tpc'[c] \in {"write", "close"} /\ UNCHANGED <<currentConn, failed>>
    BY <1>4 DEF ThreadReads, AfterRead, Acknowledge
  <2>2. Sessions' = Sessions  BY <2>1 DEF Sessions
  <2> QED  BY <2>1, <2>2
<1>5. ASSUME NEW c \in Clients, ThreadEnds(c) PROVE LimitInv'
  <2>1. tpc[c] = "close" /\ tpc' = [tpc EXCEPT ![c] = "exit"]
        /\ currentConn' = currentConn - 1 /\ failed' = failed
    BY <1>5 DEF ThreadEnds
  <2>2. Sessions' = Sessions \ {c} /\ c \in Sessions  BY <2>1 DEF Sessions
  <2>3. Cardinality(Sessions') = Cardinality(Sessions) - 1
    BY <1>1, <2>2, FS_RemoveElement
  <2> QED  BY <1>1, <2>1, <2>3
<1>6. ASSUME NEW c \in Clients, ServerClient(c) PROVE LimitInv'
  BY <1>6 DEF ServerClient, Connect, Write, Read, serving, Sessions
<1>7. CASE UNCHANGED server  BY <1>7 DEF server, serving, Sessions
<1> QED  BY <1>2, <1>3, <1>4, <1>5, <1>6, <1>7 DEF ServerNext, ServerMain, ServerThread

\* Where each client of lab 12 is, and who holds the lock.
THEOREM ServerInvariance == ServerSpec => []ServerInv
<1>1. ServerInv /\ [ServerNext]_server => ServerInv'
  BY ServerTyped, PlacesKept, ConnLockKept, LimitKeptOn DEF ServerInv
<1> QED  BY <1>1, ServerInitInv, PTL DEF ServerSpec

\* The limit of lab 12 is kept, for any number of clients and any limit, and one
\* client at most is turned away (server.c:90-104).
THEOREM LimitIsKept == ServerSpec => []LimitKept
<1>1. ServerInv => LimitKept
  <2> SUFFICES ASSUME ServerInv PROVE LimitKept  OBVIOUS
  <2>1. Cardinality(turnedAway) <= 1
    <3>1. CASE turnedAway = {}  BY <3>1, FS_EmptySet
    <3>2. ASSUME NEW c \in Clients, turnedAway = {c} PROVE Cardinality(turnedAway) <= 1
      BY <3>2, FS_Singleton
    <3> QED  BY <3>1, <3>2 DEF ServerInv, ConnLockInv
  <2> QED  BY <2>1 DEF ServerInv, ConnLockInv, LimitInv, LimitKept
<1> QED  BY <1>1, ServerInvariance, PTL
-----------------------------------------------------------------------------
(***************************************************************************)
(* The composition.  A program that is not running stutters at its initial *)
(* state, so a behaviour of LabPrograms is one of each program.            *)
(***************************************************************************)
LEMMA EachProgram ==
  Spec => BufferSpec /\ MatrixSpec /\ ServerSpec /\ ChatSpec
<1>1. Init => BufferInit /\ MatrixInit /\ ServerInit /\ ChatInit  BY DEF Init
<1>2. [Next]_vars =>
        [BufferNext]_buffer /\ [MatrixNext]_matrix /\ [ServerNext]_server /\ [ChatNext]_chat
  BY DEF Next, vars, Others, Buffer, Dinner, Matrix, Server, Chat
<1> QED  BY <1>1, <1>2, PTL DEF Spec, BufferSpec, MatrixSpec, ServerSpec, ChatSpec

\* Lab 8, whenever it is the program that runs: all entries match if two divides
\* MATSIZE, and else all but the last row and column (rec9.c:107).
THEOREM ProgramsMatch == Spec => []EvenSizesMatch
BY EachProgram, EvenSizes, PTL

\* Lab 13, whenever it runs: what a client reads answers its own last line, unless
\* a datagram was repeated or the server's cliaddr left over (server-2.c:51).
THEOREM ProgramsAnswer == Spec => []AnswerBelongs
BY EachProgram, AnswersBelong, PTL

\* Lab 12, whenever it runs: currentConn counts the sessions, within the limit, and
\* at most one client is turned away (server.c:90-104).
THEOREM ProgramsLimit == Spec => []LimitKept
BY EachProgram, LimitIsKept, PTL

\* Labs 9 and 11, whenever they run: the buffer implements the pool of tasks.
THEOREM ProgramsPool == Spec => ImplementsPool
BY EachProgram, BufferImplementsPool, PTL
=============================================================================
