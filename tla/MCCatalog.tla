------------------------------ MODULE MCCatalog ------------------------------
(* Instantiates Catalog for TLC: requests from one or two senders, two     *)
(* keys, and a bounded number of incarnations of each token's record.      *)
EXTENDS Catalog

CONSTANTS t1, t2, k1, k2, c1, c2, d1, d2, w1, f1, f2

MCTokens   == {t1, t2}
MCKeys     == {k1, k2}
\* Both calls come from one client connection, so its drop fires both watches.
MCSenders  == {c1}
MCSenderOf == [t \in MCTokens |-> c1]
\* Tokens are short unique names: no two share their first 50 characters.
MCPrefix   == [t \in MCTokens |-> t]
\* Every request calls the same method.
MCKindOf   == [t \in MCTokens |-> k1]

\* Tokens of one sender and keys are interchangeable (safety runs only).
MCSymmetry == Permutations(MCTokens) \cup Permutations(MCKeys)

=============================================================================
