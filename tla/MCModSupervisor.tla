-------------------------- MODULE MCModSupervisor --------------------------
(* A small instance of ModSupervisor: two launches and one caller.         *)
EXTENDS ModSupervisor

-----------------------------------------------------------------------------
(* The supervisor's two endings come: Stop returns, whatever the child     *)
(* does, and a child that hangs is replaced (modclient/client.go).         *)
EndingsCome == StopReturns /\ HungChildIsReplaced
=============================================================================
