------------------------------ MODULE DirNames ------------------------------
(***************************************************************************)
(* What a block of a directory promises: it is a set of names, each with   *)
(* the inode it stands for.  A name is added when it is not there, and     *)
(* removed without a trace on the others.                                  *)
(***************************************************************************)
CONSTANTS Name, Ino

VARIABLE names   \* set of <<name, inode>>

Taken == {e[1] : e \in names}

Add(n, i) ==
    /\ n \notin Taken
    /\ names' = names \cup {<<n, i>>}

Remove(n) ==
    /\ n \in Taken
    /\ names' = {e \in names : e[1] # n}

\* An overflow block is born with one entry in it.
Init == names = {} \/ \E n \in Name, i \in Ino : names = {<<n, i>>}

Next == \E n \in Name : Remove(n) \/ \E i \in Ino : Add(n, i)

Spec == Init /\ [][Next]_names
=============================================================================
