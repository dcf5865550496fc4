-------------------------- MODULE MCManagedObjects --------------------------
(* Small instances of the managed objects for TLC: the constants are given   *)
(* in the configurations.                                                    *)
EXTENDS ManagedObjects
=============================================================================
