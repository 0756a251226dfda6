------------------------------- MODULE Queues -------------------------------
(***************************************************************************)
(* Queues that some of their members leave: waiters that are interrupted,  *)
(* effects that were acknowledged.                                         *)
(***************************************************************************)
EXTENDS Naturals, Sequences

\* The queue that some jobs have left.
Without(jobs, gone) ==
    LET left[n \in 0 .. Len(jobs)] ==
            IF n = 0 THEN <<>>
            ELSE IF jobs[n] \in gone THEN left[n - 1] ELSE Append(left[n - 1], jobs[n])
    IN  left[Len(jobs)]
=============================================================================
