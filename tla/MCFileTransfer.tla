--------------------------- MODULE MCFileTransfer ----------------------------
(* FileTransfer for TLC: two clients with a file each, one of a chunk and  *)
(* one of none, or with files of the same name, of none and of two chunks. *)
EXTENDS FileTransfer

CONSTANTS c1, c2, f1, f2

Files(x, i, y, j) ==
  [c \in {c1, c2} |-> IF c = c1 THEN [name |-> x, size |-> i]
                              ELSE [name |-> y, size |-> j]]
TwoCommandLines == {Files(f1, 1, f2, 0), Files(f1, 0, f1, 2)}
=============================================================================
