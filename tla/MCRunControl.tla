----------------------------- MODULE MCRunControl -----------------------------
(* Instances of RunControl for TLC: the configurations name the worker threads. *)
EXTENDS RunControl, TLC

===============================================================================
