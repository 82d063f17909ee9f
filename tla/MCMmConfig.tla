----------------------------- MODULE MCMmConfig -----------------------------
\* Small instances of the configuration store.
EXTENDS MmConfig
CONSTANTS k1, k2, k3, v1, v2

E(k, v) == [key |-> k, val |-> v]

\* Single values, a deletion, two keys at once, and one key for another.
SomeLists == {<<E(k1, v1)>>, <<E(k1, v2)>>, <<E(k2, Absent)>>,
              <<E(k1, v1), E(k2, v2)>>, <<E(k3, v1), E(k1, Absent)>>}
\* The order of two keys can change.
MoreLists == SomeLists \cup {<<E(k2, v1), E(k1, v2)>>}
=============================================================================
