------------------------------- MODULE Names -------------------------------
(***************************************************************************)
(* The names of the objects made for storage pools.  Pools and nodes give  *)
(* the text, a limit of 63 characters the shape: a name that is too long is*)
(* cut and gets a hash.  A name is kept as the parts between its dashes, so*)
(* that names spelled alike are equal whatever they are made from, with its*)
(* length, the text it holds a hash of, and the characters before the hash.*)
(***************************************************************************)
EXTENDS Integers, Sequences

Text(parts, len) == [lead |-> len, parts |-> parts, hashed |-> <<>>, len |-> len]

Blank == Text(<<>>, 0)

Dashed(a, b) == Text(a.parts \o b.parts, a.len + 1 + b.len)

maxNameLength      == 63
maxMountNameLength == 63
hppPoolPrefix      == Text(<<"hpp", "pool">>, 8)

\* FNV: different texts are assumed to have different hashes, of 8 characters.
hash(name) == name.parts

\* Mutant of getResourceNameWithMaxLength: the hash of the base in both cases.
getResourceNameWithMaxLengthBase(base, suffix, maxLength) ==
    LET name == Dashed(base, suffix)
    IN IF name.len <= maxLength THEN name
       ELSE [lead |-> base.len, parts |-> <<>>, hashed |-> hash(base), len |-> base.len + 9]

\* base-suffix if it fits.  Else the base is cut to make room for a hash of it; if
\* the suffix alone leaves no room it is dropped, and the hash is of the whole name.
getResourceNameWithMaxLength(base, suffix, maxLength) ==
    LET name       == Dashed(base, suffix)
        baseLength == maxLength - 10 - suffix.len
        left       == IF maxLength < 9 THEN 0 ELSE maxLength - 9
        prefix     == IF base.len < left THEN base.len ELSE left
    IN IF maxLength <= 0 THEN Blank
       ELSE IF name.len <= maxLength THEN name
       ELSE IF baseLength < 0
       THEN [lead |-> prefix, parts |-> <<>>, hashed |-> hash(name),
             len |-> IF prefix + 9 < maxLength THEN prefix + 9 ELSE maxLength]
       ELSE [lead |-> baseLength, parts |-> suffix.parts, hashed |-> hash(base),
             len |-> baseLength + 10 + suffix.len]

\* The volume of a pool in the pods of the CSI driver.
getMountNameFromStoragePool(poolName) ==
    getResourceNameWithMaxLength(IF poolName = Blank THEN Text(<<"csi">>, 3) ELSE poolName,
                                 Text(<<"data", "dir">>, 8), maxMountNameLength)

\* The claim of a pool on a node, and of a shared pool.
getStoragePoolPVCName(poolName, nodeName) ==
    getResourceNameWithMaxLength(hppPoolPrefix, Dashed(poolName, nodeName), maxNameLength)

getSharedStoragePoolPVCName(poolName) ==
    getResourceNameWithMaxLength(hppPoolPrefix, Dashed(poolName, Text(<<"shared">>, 6)), maxNameLength)

\* The deployment of a pool on a node.
DeploymentName(poolName, nodeName) ==
    getResourceNameWithMaxLength(hppPoolPrefix, Dashed(poolName, nodeName), maxNameLength)

\* The label that claims and deployments of a pool have.
PoolLabel(poolName) == getResourceNameWithMaxLength(poolName, Text(<<"hpp">>, 3), maxNameLength)

\* The cleanup job of a pool on a node.
CleanupJobName(poolName, nodeName) ==
    getResourceNameWithMaxLength(Text(<<"cleanup", "pool">>, 12), Dashed(poolName, nodeName),
                                 maxNameLength)

\* What the API accepts as the name of an object or the value of a label: external.
WellFormed(name) == name.len \in 1..63 /\ name.lead > 0

=============================================================================
