--------------------------- MODULE MCContactCache ---------------------------
(***************************************************************************)
(* Instances of ContactCache for TLC.                                      *)
(***************************************************************************)
EXTENDS ContactCache, TLC

Symmetry == Permutations(Users) \cup Permutations(Items) \cup Permutations(Reqs)

\* The history that OnlyOwnRows does not look at is left out of the fingerprint
\* in its run: no guard and no other variable depends on it.
OwnView == <<acct, running, db, rows, req, op, page, contacts, mine>>
=============================================================================
