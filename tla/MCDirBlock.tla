----------------------------- MODULE MCDirBlock -----------------------------
(***************************************************************************)
(* Names of 1, 100 and 248 bytes: entries of 8, 107 and 255 bytes, so that *)
(* gaps of several sizes arise on both sides of sizeof(dir_entry).         *)
(***************************************************************************)
EXTENDS DirBlockOps, TLC

CONSTANTS a, b, k, l

mcNames == {a, b, k, l}

mcNameLen == (a :> 1) @@ (b :> 1) @@ (k :> 100) @@ (l :> 248)
               @@ (NoName :> 0) @@ ("." :> 1) @@ (".." :> 2)

\* The bytes of a file: no slot begins where this one does.
fileBytes == {[pos |-> USHORT, inode |-> 0, rec_len |-> 0, name |-> NoName]}

\* Symmetry: names of the same length.
SameLength == Permutations({a, b})
=============================================================================
