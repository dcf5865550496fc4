----------------------------- MODULE MCMounter -----------------------------
(* Two pods of one pool's deployment on one node, and its cleanup job.      *)
EXTENDS Mounter

CONSTANTS p1, p2

=============================================================================
