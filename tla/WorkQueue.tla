----------------------------- MODULE WorkQueue -----------------------------
(***************************************************************************)
(* What the worker pool of sist2 promises to its two callers, sist2_scan   *)
(* and sist2_index: jobs are taken in the order they were submitted, a job *)
(* is taken at most once and by one worker, never more of them are in hand *)
(* than there are workers, and the pool is closed only when every job that *)
(* was submitted has been finished or is known to be lost.                 *)
(***************************************************************************)
EXTENDS Naturals, FiniteSets

CONSTANTS NJobs,     \* the jobs are 1 .. NJobs, in the order of submission
          MaxTaken   \* how many jobs may be in hand at once

Jobs == 1 .. NJobs

Places == {"new", "queued", "taken", "done", "lost"}

VARIABLES place,    \* where each job is
          closed    \* has the pool been destroyed?

vars == <<place, closed>>

At(p) == {j \in Jobs : place[j] = p}

Init == /\ place = [j \in Jobs |-> "new"]
        /\ closed = FALSE

Move(j, p) == /\ place' = [place EXCEPT ![j] = p]
              /\ UNCHANGED closed

Submit(j) == /\ j \in At("new")
             /\ \A i \in At("new") : j <= i
             /\ Move(j, "queued")

Take(j) == /\ j \in At("queued")
           /\ \A i \in At("queued") : j <= i
           /\ Cardinality(At("taken")) < MaxTaken
           /\ Move(j, "taken")

Finish(j) == j \in At("taken") /\ Move(j, "done")

Lose(j) == j \in At("taken") /\ Move(j, "lost")

Close == /\ ~closed
         /\ At("new") \cup At("queued") \cup At("taken") = {}
         /\ closed' = TRUE
         /\ UNCHANGED place

Next == \/ \E j \in Jobs : Submit(j) \/ Take(j) \/ Finish(j) \/ Lose(j)
        \/ Close

Spec == Init /\ [][Next]_vars

TypeOK == place \in [Jobs -> Places] /\ closed \in BOOLEAN
=============================================================================
