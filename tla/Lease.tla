------------------------------- MODULE Lease -------------------------------
(***************************************************************************)
(* What the finalizer promises, without caches, versions, passes or        *)
(* failures: HostPathProvisioners hold a lease on the cluster-wide objects *)
(* of the operator.  An object appears only while there is a holder, and a *)
(* holder lets go only when no object is left.  Module Lifecycle           *)
(* implements this specification.                                          *)
(***************************************************************************)
EXTENDS FiniteSets

CONSTANTS
    Clients,  \* HostPathProvisioners
    Things    \* cluster-wide objects

VARIABLES
    holders,  \* clients that carry the operator's finalizer
    objs      \* cluster-wide objects that exist

lease == <<holders, objs>>

Init == holders = {} /\ objs = {}

\* The finalizer is put on a client.
Acquire(c) == /\ holders' = holders \cup {c}
              /\ UNCHANGED objs

\* The last object is gone and a client is released.
Release(c) == /\ objs = {}
              /\ holders' = holders \ {c}
              /\ UNCHANGED objs

\* An object is created under the protection of a holder.
Put(t) == /\ holders # {}
          /\ objs' = objs \cup {t}
          /\ UNCHANGED holders

\* An object is deleted, by the operator or by anybody else.
Take(t) == /\ objs' = objs \ {t}
           /\ UNCHANGED holders

Next == \/ \E c \in Clients : Acquire(c) \/ Release(c)
        \/ \E t \in Things : Put(t) \/ Take(t)

Spec == Init /\ [][Next]_lease
=============================================================================
