-------------------------- MODULE MCStateRootLock ---------------------------
\* Small instances of StateRootLock for TLC.
EXTENDS StateRootLock

\* A kill anywhere.
Anywhere == Running

\* A kill anywhere but between linking a claim and removing it.
OutsideClaims == Running \ Reclaiming
=============================================================================
