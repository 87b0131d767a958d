--------------------------- MODULE MCAS3Deployer ---------------------------
(* A small instance of AS3Deployer for TLC. *)
EXTENDS AS3Deployer, TLC
=============================================================================
