------------------------- MODULE MCUsernameRegistry -------------------------
(* A TLC instance of UsernameRegistry: one name with blanks around it.     *)
EXTENDS UsernameRegistry, TLC

CONSTANTS bob, paddedBob

PaddedNames == {bob, paddedBob}
PaddedKeys == (bob :> "bob") @@ (paddedBob :> " bob")
PaddedTrim == [n \in PaddedNames |-> bob]
PaddedHash == ("bob" :> {2, 3}) @@ (" bob" :> {1, 2}) @@ ("system" :> {3, 4})

SystemOnly == {"system"}
CallerSymmetry == Permutations(Callers)
=============================================================================
