------------------------- MODULE MCCatalogSnapshot -------------------------
EXTENDS CatalogSnapshot, TLC

\* The wall clock agrees with the monotonic one, or has been set back.
MCSkews == {-1, 0}

\* Issuers are alike, and so are readers and the values of a fact.
MCSymmetry == Permutations(Issuers) \cup Permutations(Readers) \cup Permutations(Values)
=============================================================================
