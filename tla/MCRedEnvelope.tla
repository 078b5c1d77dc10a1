--------------------------- MODULE MCRedEnvelope ---------------------------
(* Small instances of RedEnvelope for TLC. *)
EXTENDS RedEnvelope, TLC

\* Users and requests are interchangeable.
Symmetry == Permutations(Users) \cup Permutations(Taps)
=============================================================================
