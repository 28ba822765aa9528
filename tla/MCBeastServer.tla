-------------------------- MODULE MCBeastServer --------------------------
(* Instances of BeastServer for TLC.                                       *)
EXTENDS BeastServer, TLC

CONSTANT c1      \* one of the connections

\* Every client sends one piece, ...
OnePiece == [c \in Conns |-> 1]

\* ... or the client of c1 sends one more.
TwoOnFirst == [OnePiece EXCEPT ![c1] = 2]

\* The connections that behave alike are interchangeable in the safety runs.
ConnSymmetry == Permutations(Conns)
OtherSymmetry == Permutations(Conns \ {c1})
==========================================================================
