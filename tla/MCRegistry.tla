----------------------------- MODULE MCRegistry -----------------------------
(***************************************************************************)
(* The registry as its clients see it, with requests of one sort at a      *)
(* time: about directories while the disk has any, which changes once, and *)
(* about names when it has none, from the start or since it changed.       *)
(***************************************************************************)
EXTENDS MCProjectServer

Nowhere == [d \in Directory |-> Missing]
Disks == Moving \cup {Nowhere}

AllRequests == NameRequests \cup DirectoryRequests
Requests == IF disk = Nowhere THEN NameRequests ELSE DirectoryRequests

MCNext ==
  \/ Boot \/ CatchUp \/ Serve \/ PickUp \/ SavePicked
  \/ Crash \/ Shutdown \/ FinalCheckpoint \/ DiskChanges \/ ListProjects
  \/ \E c \in Client :
       \/ \E r \in Requests : CreateProject(c, r) \/ MutateProject(c, r)
       \/ Step(c) \/ Interrupt(c)

MCSpec == Init /\ [][MCNext]_vars
=============================================================================
