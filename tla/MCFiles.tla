------------------------------ MODULE MCFiles ------------------------------
(* Instances of FileTools for TLC: a write, a delete, one other program.    *)
EXTENDS FileTools

CONSTANTS write, delete, lf, crlf

MCStep == {write, delete}
MCContent == {lf, crlf}
MCWanted == [s \in MCStep |-> IF s = write THEN crlf ELSE Absent]

(* crlf and lf are the same text with different line ends.                 *)
MCTextOf == [c \in MCContent |-> IF c = crlf THEN lf ELSE c]

(* The delete is kept; the write is compensated, and once more.            *)
MCWorker == ({write} \X Role) \cup {<<delete, "forward">>}
=============================================================================
