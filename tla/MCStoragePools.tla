--------------------------- MODULE MCStoragePools ---------------------------
(* Small instances of the storage pools for TLC. *)
EXTENDS StoragePools, TLC

\* No pool's name starts another's.
MCDistinct == {<<p, p>> : p \in Pools}

\* "fast" starts "fast-nvme".
MCPrefix == MCDistinct \cup {<<"fast", "fast-nvme">>}

\* Pools that no name tells apart, for the run without liveness properties.
MCSymmetry == Permutations(Pools)
=============================================================================
