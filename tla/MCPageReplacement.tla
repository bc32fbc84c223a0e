------------------------- MODULE MCPageReplacement -------------------------
(***************************************************************************)
(* The access sequences for TLC.  No algorithm compares page numbers for   *)
(* more than equality, so pages are numbered in the order of their first   *)
(* use; the sequence in main is added as it stands.                        *)
(***************************************************************************)
EXTENDS PageReplacement

CONSTANT Length  \* bound: accesses in a sequence

InOrder(s) == \A k \in DOMAIN s : \A p \in Pages :
    p < s[k] => \E j \in 1..(k - 1) : s[j] = p

MainSequence == <<2, 3, 2, 1, 5, 2, 4, 5, 3, 2, 5, 2>>

mcSequences == {s \in [1..Length -> Pages] : InOrder(s)} \cup {MainSequence}
=============================================================================
