----------------------------- MODULE MCSession -----------------------------
(* The instances of GmailSession that TLC checks.                          *)
EXTENDS GmailSession, TLC

CallerSymmetry == Permutations(Callers)
=============================================================================
