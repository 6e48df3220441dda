----------------------------- MODULE MCCronSync -----------------------------
(* CronSync for TLC: the requests, schedules and expressions are model values *)
(* given in the configurations; requests are interchangeable.                 *)
EXTENDS CronSync, TLC

RequestSymmetry == Permutations(Requests)
=============================================================================
