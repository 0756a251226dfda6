---------------------------- MODULE MCFindOrSpawn ----------------------------
\* Small instances of FindOrSpawn for TLC.
EXTENDS FindOrSpawn, TLC

Symmetric == Permutations(Client) \cup Permutations(Token)

\* A kill anywhere.
Anywhere == Busy

\* Bound: at most one claim left behind by a killed client.
Orphans == {t \in Token : claims[t] # None /\
               \A c \in Client : stage[c] \in Reclaiming => target[c].token # t}
FewOrphans == Cardinality(Orphans) <= 1
=============================================================================
