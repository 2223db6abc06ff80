------------------------------- MODULE MatrixSum ------------------------------
(***************************************************************************)
(* Lab 8 (labs/lab8/rec9.c): four threads add two matrices, a quarter      *)
(* each, one thread adds them again, and main counts the equal entries.    *)
(* A cell of a result is written (mat1 + mat2, which is positive) or -1.   *)
(***************************************************************************)
EXTENDS Integers, FiniteSets

CONSTANT Sizes   \* of MATSIZE: 5000

ASSUME SizesAssumption == Sizes \subseteq Nat

VARIABLES
  size,
  multi, single,   \* the cells written of res_mat_multi and res_mat_single
  adders,          \* the threads made and the cells each has left
  matched          \* c, or -1 before the comparison
matrix == <<size, multi, single, adders, matched>>

Half == size \div 2
Cells(x, xEnd, y, yEnd) == (x .. xEnd - 1) \X (y .. yEnd - 1)

\* m_args[i], i = 0 .. 3.
QuarterShort(i) ==
  LET x == (i % 2) * Half  y == (i \div 2) * Half
  IN  Cells(x, x + Half - 1, y, y + Half)
Quarter(i) ==
  LET x == (i % 2) * Half  y == (i \div 2) * Half
  IN  Cells(x, x + Half, y, y + Half)
All == Cells(0, size, 0, size)

MatrixInit ==
  /\ size \in Sizes /\ multi = {} /\ single = {} /\ matched = -1
  /\ adders = <<>>

Before(c, d) == c[1] < d[1] \/ (c[1] = d[1] /\ c[2] < d[2])

CreateAdder ==
  LET i == Cardinality(DOMAIN adders) IN
  /\ \/ i < 4
     \/ i = 4 /\ \A a \in DOMAIN adders : adders[a] = {}   \* after the joins
  /\ adders' = [a \in 1 .. i + 1 |->
       IF a <= i THEN adders[a] ELSE IF i < 4 THEN Quarter(i) ELSE All]
  /\ UNCHANGED <<size, multi, single, matched>>

\* partial_matrix_add: the next cell in row order.
AddCell(a) ==
  \E c \in adders[a] :
    /\ \A d \in adders[a] \ {c} : Before(c, d)
    /\ adders' = [adders EXCEPT ![a] = @ \ {c}]
    /\ IF a <= 4 THEN multi' = multi \cup {c} /\ UNCHANGED single
       ELSE single' = single \cup {c} /\ UNCHANGED multi
    /\ UNCHANGED <<size, matched>>

Compare ==
  /\ DOMAIN adders = 1 .. 5 /\ adders[5] = {} /\ matched = -1
  /\ matched' = Cardinality(multi \cap single)
  /\ UNCHANGED <<size, multi, single, adders>>

MatrixNext == CreateAdder \/ (\E a \in DOMAIN adders : AddCell(a)) \/ Compare
MatrixSpec == MatrixInit /\ [][MatrixNext]_matrix
-----------------------------------------------------------------------------
\* "Verification: %d out of %d entries matched" (rec9.c:107): all entries if
\* MATSIZE is even; the last row and column are missing if it is odd.
EvenSizesMatch ==
  matched # -1 =>
    matched = IF size % 2 = 0 THEN size * size ELSE (size - 1) * (size - 1)
=============================================================================
