--------------------------- MODULE MCDramChannel ---------------------------
(* Four blocks on two banks: a1 and a2 share a row, a3 has another row of  *)
(* the same bank, a4 is on the other bank.                                 *)
EXTENDS DramChannel, TLC

CONSTANTS a1, a2, a3, a4, b1, b2

BankOfAddr == [a \in Addr |-> IF a = a4 THEN b2 ELSE b1]
RowOfAddr == [a \in Addr |-> IF a = a3 THEN 2 ELSE 1]
=============================================================================
