------------------------------- MODULE MCHub -------------------------------
(* TLC instances of Hub: which rooms the clients' tokens name.             *)
EXTENDS Hub, TLC

CONSTANTS r1, r2, c1, c2

AllInRoom1 == [c \in {c1, c2} |-> r1]
OnlyC1 == [c \in {c1} |-> r1]

Room1Symmetry == Permutations(RoomObjs) \cup Permutations(Clients)
=============================================================================
