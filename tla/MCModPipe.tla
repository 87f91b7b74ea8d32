----------------------------- MODULE MCModPipe -----------------------------
(* A small instance of ModPipe: two requests that race on one child.        *)
EXTENDS ModPipe
=============================================================================
