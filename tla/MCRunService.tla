------------------------------ MODULE MCRunService ------------------------------
(* RunService on a small instance: two runs and two drivers; the second run has
   the seed of the first or another one (that the first has any other seed is
   the same up to the names of the seeds). *)
EXTENDS RunService, TLC

TwoRuns == 1..2
TwoDrivers == 1..2
SomeSeeds == <<{1}, {1, 2}>>
===============================================================================
