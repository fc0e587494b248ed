------------------------------- MODULE MCQueue -------------------------------
(***************************************************************************)
(* The queue with the constants of the configuration files: its symmetries *)
(* are not used, for EveryItemTaken is a liveness property.                *)
(***************************************************************************)
EXTENDS Queue
=============================================================================
