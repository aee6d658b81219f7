--------------------------- MODULE MCRegistration ---------------------------
(***************************************************************************)
(* Small instances of Registration for TLC.                                *)
(***************************************************************************)
EXTENDS Registration, TLC

CONSTANTS p1, p2, p3, d1, d2, i1, i2, i3, kA, kB

\* Two processes in one directory and a third in another.
TwoHomes == [p \in Proc |-> IF p = p3 THEN d2 ELSE d1]

\* The server knows nobody.
NoRows == {}

\* Ids and keys are interchangeable, and so are processes of one directory.
Symmetric == Permutations({i1, i2}) \cup Permutations({kA, kB})
               \cup Permutations(Proc \ {p3})

=============================================================================
