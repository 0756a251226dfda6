\* Two clients, of whom one leaves or is killed, and one backend killed.
SPECIFICATION FairSpec
CONSTANTS
  Client = {c1, c2}
  MaxBackends = 4
  MaxSockets = 7
  MaxLeaves = 1
  MaxKills = 1
INVARIANTS OneWriter AdvertisedAccepts
PROPERTIES IdleEnds EveryoneServed
\* The system may come to rest.
CHECK_DEADLOCK FALSE
