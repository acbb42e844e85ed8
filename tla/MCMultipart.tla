---------------------------- MODULE MCMultipart ----------------------------
(* The instances of Multipart that TLC checks.                             *)
EXTENDS Multipart, TLC

CONSTANTS a, b      \* two blocks

(* Bodies of different lengths: a shorter one leaves a tail when two       *)
(* writers overlap.                                                        *)
ShortAndLong == {<<a>>, <<b, b>>}

OnePart == {<<1>>}
OneOrTwoParts == {<<1>>, <<1, 2>>}

ClientSymmetry == Permutations(Clients)
=============================================================================
