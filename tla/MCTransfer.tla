------------------------------ MODULE MCTransfer ------------------------------
(***************************************************************************)
(* One command of each type. The numbers differ and change when their      *)
(* bytes are swapped; one sector holds the magic number, the other the end *)
(* of one magic number and the beginning of another.                       *)
(***************************************************************************)
EXTENDS Transfer

CONSTANT u  \* a message identifier

MCCommand == {
    [type |-> "Read", rid |-> 1, sidx |-> 2],
    [type |-> "Write", rid |-> 2, sidx |-> 1, data |-> <<A, T, D, D>>],
    [type |-> "ReadProc", rank |-> 1, uid |-> u, sidx |-> 2],
    [type |-> "Value", rank |-> 1, uid |-> u, sidx |-> 1, ts |-> 2, wr |-> 0, data |-> <<D, D, A, T>>],
    [type |-> "WriteProc", rank |-> 0, uid |-> u, sidx |-> 2, ts |-> 1, wr |-> 1, data |-> <<A, T, D, D>>],
    [type |-> "Ack", rank |-> 1, uid |-> u, sidx |-> 1]}
=============================================================================
