------------------------------ MODULE MCExt2Fs ------------------------------
(***************************************************************************)
(* Small volumes for TLC: a name is a model value, with its length.  Of    *)
(* three names of 248 bytes, the first shares the first block of the root  *)
(* with `.' and `..', the others share a second block.                     *)
(***************************************************************************)
EXTENDS Ext2Fs, TLC

CONSTANTS s1, l1, l2, l3   \* names: a short one, three long ones

Length == (s1 :> 1) @@ (l1 :> 248) @@ (l2 :> 248)
            @@ (l3 :> 248) @@ (NoName :> 0) @@ ("." :> 1) @@ (".." :> 2)

LengthsOf(S) == [n \in S \cup {NoName, ".", ".."} |-> Length[n]]

oneName == {s1}
oneNameLen == LengthsOf(oneName)

longNames == {l1, l2, l3}
longNamesLen == LengthsOf(longNames)

\* The bytes of a file: no slot begins where this one does.
fileBytes == {[pos |-> USHORT, inode |-> 0, rec_len |-> 0, name |-> NoName]}

\* Symmetry: names of the same length.
SameLength == Permutations({l1, l2, l3})
=============================================================================
