------------------------------ MODULE MCRunDriver ------------------------------
(* RunDriver on small instances: one or two callers of stop(), any subset of
   the ports a driver can have. *)
EXTENDS RunDriver, TLC

AnyPorts == SUBSET Ports

===============================================================================
