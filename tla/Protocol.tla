------------------------------ MODULE Protocol ------------------------------
(***************************************************************************)
(* protocol.h, of which client and server of src/project/project4 have a   *)
(* copy each: the commands and the layout of requests and responses.  Both *)
(* are arrays of 28 ints: the command, the mapper's id or the response     *)
(* code, and the data, one int per letter.                                 *)
(***************************************************************************)
EXTENDS Integers

CONSTANTS
  NumLetters,   \* ALPHABETSIZE
  Rows          \* MAX_STATUS_TABLE_LINES

CHECKIN == 1
UPDATE_AZLIST == 2
GET_AZLIST == 3
GET_MAPPER_UPDATES == 4
GET_ALL_UPDATES == 5
CHECKOUT == 6
RSP_OK == 0
RSP_NOK == 1

ASSUME ProtocolAssumption ==
  /\ NumLetters \in Nat \ {0}
  /\ Rows \in Nat /\ Rows > GET_MAPPER_UPDATES

Letter == 1 .. NumLetters
Row == 0 .. Rows - 1
Command == 0 .. CHECKOUT
Zeros == [l \in Letter |-> 0]

Request == [command : Command, pid : Row, data : [Letter -> Nat]]
Response == [command : Command, code : {RSP_OK, RSP_NOK}, data : [Letter -> Nat]]
NoRequest == [command |-> 0, pid |-> 0, data |-> Zeros]
NoResponse == [command |-> 0, code |-> RSP_OK, data |-> Zeros]
=============================================================================
