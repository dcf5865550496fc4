----------------------------- MODULE NamesProofs -----------------------------
(***************************************************************************)
(* The names that getResourceNameWithMaxLength makes, for texts of any     *)
(* length: which of them are cut, and that different texts give different  *)
(* names, in front of the limit of 63 characters and behind it.            *)
(***************************************************************************)
EXTENDS Names, SequenceTheorems, TLAPS

\* The parts of a text.  The literals are strings, which the provers do not know.
Words == STRING \cup {"hpp", "pool", "cleanup", "shared", "csi", "data", "dir", "legacy", "snapshots", "pv",
                      "volume", "socket", "mountpoint", "registration", "plugins", "pods"}

\* What is not cut.
Texts == {t \in [lead : Nat, parts : Seq(Words), hashed : {<<>>}, len : Nat] : t.lead = t.len}

LEMMA TextType ==
    ASSUME NEW parts \in Seq(Words), NEW len \in Nat
    PROVE  Text(parts, len) \in Texts
BY DEF Text, Texts

LEMMA TextFields ==
    ASSUME NEW t \in Texts
    PROVE  t.lead = t.len /\ t.len \in Nat /\ t.parts \in Seq(Words) /\ t.hashed = <<>>
BY DEF Texts

LEMMA TextOfOne ==
    ASSUME NEW a \in Words, NEW len \in Nat
    PROVE  Text(<<a>>, len) \in Texts /\ Text(<<a>>, len).len = len /\ Text(<<a>>, len).parts = <<a>>
<1>1. ASSUME NEW S, NEW x \in S PROVE <<x>> \in Seq(S)
  OBVIOUS
<1>2. <<a>> \in Seq(Words)
  BY <1>1
<1>. QED  BY <1>2, TextType DEF Text

LEMMA TextOfTwo ==
    ASSUME NEW a \in Words, NEW b \in Words, NEW len \in Nat
    PROVE  /\ Text(<<a, b>>, len) \in Texts /\ Text(<<a, b>>, len).len = len
           /\ Text(<<a, b>>, len).parts = <<a, b>> /\ Text(<<a, b>>, len).parts # <<>>
<1>1. ASSUME NEW S, NEW x \in S, NEW y \in S PROVE <<x, y>> \in Seq(S) /\ <<x, y>> # <<>>
  OBVIOUS
<1>2. <<a, b>> \in Seq(Words) /\ <<a, b>> # <<>>
  BY <1>1
<1>. QED  BY <1>2, TextType DEF Text

\* A text is its parts and its length.
LEMMA TextsEqual ==
    ASSUME NEW a \in Texts, NEW b \in Texts, a.parts = b.parts, a.len = b.len
    PROVE  a = b
BY DEF Texts

LEMMA DashedFields ==
    ASSUME NEW a \in Texts, NEW b \in Texts
    PROVE  /\ Dashed(a, b) \in Texts
           /\ Dashed(a, b).parts = a.parts \o b.parts
           /\ Dashed(a, b).len = a.len + 1 + b.len
           /\ Dashed(a, b).hashed = <<>> /\ Dashed(a, b).lead = a.len + 1 + b.len
<1>1. a.parts \o b.parts \in Seq(Words)
  BY ConcatProperties DEF Texts
<1>2. a.len + 1 + b.len \in Nat
  BY DEF Texts
<1>. QED  BY <1>1, <1>2, TextType DEF Dashed, Text

\* The three shapes of a name.
LEMMA NameFits ==
    ASSUME NEW base \in Texts, NEW suffix \in Texts, base.len + 1 + suffix.len <= 63
    PROVE  getResourceNameWithMaxLength(base, suffix, 63) = Dashed(base, suffix)
<1>1. Dashed(base, suffix).len <= 63
  BY DashedFields, TextFields
<1>. QED  BY <1>1 DEF getResourceNameWithMaxLength

\* A name whose suffix leaves no room for a hash: the whole of it is hashed.
LEMMA NameCut ==
    ASSUME NEW base \in Texts, NEW suffix \in Texts, base.len + 1 + suffix.len > 63, suffix.len > 53
    PROVE  LET prefix == IF base.len < 54 THEN base.len ELSE 54
           IN getResourceNameWithMaxLength(base, suffix, 63) =
                [lead |-> prefix, parts |-> <<>>, hashed |-> base.parts \o suffix.parts,
                 len |-> prefix + 9]
<1>. DEFINE name   == Dashed(base, suffix)
            prefix == IF base.len < 54 THEN base.len ELSE 54
<1>1. base.len \in Nat /\ suffix.len \in Nat
  BY TextFields
<1>2. name.len = base.len + 1 + suffix.len /\ hash(name) = base.parts \o suffix.parts
  BY DashedFields DEF hash
<1>3. ~(name.len <= 63) /\ 63 - 10 - suffix.len < 0
  BY <1>1, <1>2
<1>4. (IF prefix + 9 < 63 THEN prefix + 9 ELSE 63) = prefix + 9
  BY <1>1
<1>5. getResourceNameWithMaxLength(base, suffix, 63) =
        [lead |-> prefix, parts |-> <<>>, hashed |-> hash(name),
         len |-> IF prefix + 9 < 63 THEN prefix + 9 ELSE 63]
  BY <1>3 DEF getResourceNameWithMaxLength
<1>. QED  BY <1>2, <1>4, <1>5

\* A name whose base has to make room for the suffix: only the base is hashed.
LEMMA NameSqueezed ==
    ASSUME NEW base \in Texts, NEW suffix \in Texts, base.len + 1 + suffix.len > 63, suffix.len <= 53
    PROVE  getResourceNameWithMaxLength(base, suffix, 63) =
             [lead |-> 53 - suffix.len, parts |-> suffix.parts, hashed |-> base.parts, len |-> 63]
<1>. DEFINE name == Dashed(base, suffix)
<1>1. base.len \in Nat /\ suffix.len \in Nat
  BY TextFields
<1>2. name.len = base.len + 1 + suffix.len
  BY DashedFields
<1>3. /\ ~(name.len <= 63) /\ ~(63 - 10 - suffix.len < 0)
      /\ 63 - 10 - suffix.len = 53 - suffix.len /\ 63 - 10 - suffix.len + 10 + suffix.len = 63
  BY <1>1, <1>2
<1>. QED  BY <1>3 DEF getResourceNameWithMaxLength, hash

-----------------------------------------------------------------------------
(* Different suffixes give different names.                                *)

Joined(a, b) == a.parts \o b.parts

\* Concatenation can be undone from either side.
LEMMA Cancel ==
    ASSUME NEW s \in Seq(Words), NEW t \in Seq(Words), NEW v \in Seq(Words)
    PROVE  /\ s \o t = s \o v => t = v
           /\ s \o v = t \o v => s = t
BY ConcatSimplifications, Zenon

LEMMA JoinedFacts ==
    ASSUME NEW a \in Texts, NEW b \in Texts
    PROVE  /\ \A c \in Texts : Joined(a, b) = Joined(a, c) => b.parts = c.parts
           /\ \A c \in Texts : Joined(b, a) = Joined(c, a) => b.parts = c.parts
           /\ Joined(a, b) = a.parts => b.parts = <<>>
           /\ a.parts # <<>> => Joined(a, b) # <<>>
<1>1. \A x \in Texts : x.parts \in Seq(Words)
  BY TextFields
<1>2. a.parts \in Seq(Words) /\ b.parts \in Seq(Words)
  BY <1>1
<1>3. ASSUME NEW c \in Texts
      PROVE  /\ Joined(a, b) = Joined(a, c) => b.parts = c.parts
             /\ Joined(b, a) = Joined(c, a) => b.parts = c.parts
  BY <1>1, Cancel, Zenon DEF Joined
<1>4. /\ a.parts \o b.parts = a.parts => b.parts = <<>>
      /\ a.parts \o b.parts = <<>> => a.parts = <<>>
  BY <1>2, ConcatSimplifications, Zenon
<1>. QED  BY <1>3, <1>4, Zenon DEF Joined

\* The shapes, by what they show of base and suffix.
Fits(name, base, s)     == name.hashed = <<>> /\ name.parts = Joined(base, s)
Cut(name, base, s)      == name.hashed = Joined(base, s) /\ name.parts = <<>>
Squeezed(name, base, s) == name.hashed = base.parts /\ name.parts = s.parts

\* Every name has one of the three shapes.
LEMMA Shapes ==
    ASSUME NEW base \in Texts, NEW s \in Texts,
           NEW name, name = getResourceNameWithMaxLength(base, s, 63)
    PROVE  Fits(name, base, s) \/ Cut(name, base, s) \/ Squeezed(name, base, s)
<1>1. base.len \in Nat /\ s.len \in Nat
  BY TextFields
<1>2. CASE base.len + 1 + s.len <= 63
  <2>1. name = Dashed(base, s)
    BY <1>2, NameFits
  <2>2. name.hashed = <<>> /\ name.parts = Joined(base, s)
    <3>1. Dashed(base, s).hashed = <<>> /\ Dashed(base, s).parts = base.parts \o s.parts
      BY DashedFields
    <3>. QED  BY <2>1, <3>1, Zenon DEF Joined
  <2>. QED  BY <2>2, Zenon DEF Fits
<1>3. CASE base.len + 1 + s.len > 63 /\ s.len > 53
  <2>. DEFINE prefix == IF base.len < 54 THEN base.len ELSE 54
  <2>1. name = [lead |-> prefix, parts |-> <<>>, hashed |-> Joined(base, s), len |-> prefix + 9]
    <3>1. name = [lead |-> prefix, parts |-> <<>>, hashed |-> base.parts \o s.parts, len |-> prefix + 9]
      BY <1>3, NameCut, Zenon
    <3>. QED  BY <3>1, Zenon DEF Joined
  <2>. HIDE DEF prefix
  <2>2. name.hashed = Joined(base, s) /\ name.parts = <<>>
    BY <2>1
  <2>. QED  BY <2>2, Zenon DEF Cut
<1>4. CASE base.len + 1 + s.len > 63 /\ s.len <= 53
  <2>1. name = [lead |-> 53 - s.len, parts |-> s.parts, hashed |-> base.parts, len |-> 63]
    BY <1>4, NameSqueezed
  <2>2. name.hashed = base.parts /\ name.parts = s.parts
    BY <2>1
  <2>. QED  BY <2>2, Zenon DEF Squeezed
<1>. QED  BY <1>1, <1>2, <1>3, <1>4

\* What a name is made from can be read off it: the suffix is in the parts or in the hash,
\* and the hash says which shape it is.
LEMMA SuffixRecovered ==
    ASSUME NEW base \in Texts, base.parts # <<>>, NEW s \in Texts, NEW t \in Texts,
           getResourceNameWithMaxLength(base, s, 63) = getResourceNameWithMaxLength(base, t, 63)
    PROVE  s.parts = t.parts
<1>. DEFINE name == getResourceNameWithMaxLength(base, s, 63)
<1>1. /\ Fits(name, base, s) \/ Cut(name, base, s) \/ Squeezed(name, base, s)
      /\ Fits(name, base, t) \/ Cut(name, base, t) \/ Squeezed(name, base, t)
  BY Shapes, Zenon
<1>2. /\ Joined(base, s) = Joined(base, t) => s.parts = t.parts
      /\ Joined(base, s) = base.parts => s.parts = <<>>
      /\ Joined(base, t) = base.parts => t.parts = <<>>
      /\ Joined(base, s) # <<>> /\ Joined(base, t) # <<>>
  BY JoinedFacts, Zenon
<1>. HIDE DEF name
<1>. QED  BY <1>1, <1>2 DEF Fits, Cut, Squeezed

\* Names with the same base are different when the suffixes are, if suffixes spelled alike
\* are equally long.
LEMMA SuffixesApart ==
    ASSUME NEW base \in Texts, base.parts # <<>>, NEW s \in Texts, NEW t \in Texts,
           s.parts = t.parts => s.len = t.len, s # t
    PROVE  getResourceNameWithMaxLength(base, s, 63) # getResourceNameWithMaxLength(base, t, 63)
BY SuffixRecovered, TextsEqual, Zenon

\* Names that end alike: with room for both, nothing is cut.
LEMMA BasesApart ==
    ASSUME NEW s \in Texts, NEW t \in Texts, NEW suffix \in Texts,
           s.len + 1 + suffix.len <= 63, t.len + 1 + suffix.len <= 63,
           s.parts = t.parts => s.len = t.len, s # t
    PROVE  getResourceNameWithMaxLength(s, suffix, 63) # getResourceNameWithMaxLength(t, suffix, 63)
<1>1. getResourceNameWithMaxLength(s, suffix, 63) = Dashed(s, suffix)
  BY NameFits
<1>2. getResourceNameWithMaxLength(t, suffix, 63) = Dashed(t, suffix)
  BY NameFits
<1>3. Dashed(s, suffix).parts = Joined(s, suffix) /\ Dashed(t, suffix).parts = Joined(t, suffix)
  BY DashedFields DEF Joined
<1>4. Joined(s, suffix) = Joined(t, suffix) => s.parts = t.parts
  BY JoinedFacts, Zenon
<1>5. s.parts # t.parts
  BY TextsEqual, Zenon
<1>. QED  BY <1>1, <1>2, <1>3, <1>4, <1>5, Zenon

\* A name is one the API accepts if it is not cut down to its dash.
LEMMA NameWellFormed ==
    ASSUME NEW base \in Texts, NEW suffix \in Texts, base.len > 0 \/ base.len + 1 + suffix.len <= 63,
           base.len + 1 + suffix.len > 63 => suffix.len # 53
    PROVE  WellFormed(getResourceNameWithMaxLength(base, suffix, 63))
<1>. DEFINE name   == getResourceNameWithMaxLength(base, suffix, 63)
            prefix == IF base.len < 54 THEN base.len ELSE 54
<1>1. base.len \in Nat /\ suffix.len \in Nat
  BY TextFields
<1>2. CASE base.len + 1 + suffix.len <= 63
  <2>1. name = Dashed(base, suffix)
    BY <1>2, NameFits
  <2>2. Dashed(base, suffix).len = base.len + 1 + suffix.len /\ Dashed(base, suffix).lead = base.len + 1 + suffix.len
    BY DashedFields
  <2>. HIDE DEF name
  <2>3. name.len \in 1..63 /\ name.lead > 0
    BY <1>1, <1>2, <2>1, <2>2
  <2>. QED  BY <2>3 DEF WellFormed, name
<1>3. CASE base.len + 1 + suffix.len > 63 /\ suffix.len > 53
  <2>1. name = [lead |-> prefix, parts |-> <<>>, hashed |-> base.parts \o suffix.parts, len |-> prefix + 9]
    BY <1>3, NameCut, Zenon
  <2>2. prefix \in 1..54
    BY <1>1, <1>3
  <2>. HIDE DEF name, prefix
  <2>3. name.len = prefix + 9 /\ name.lead = prefix
    BY <2>1
  <2>4. name.len \in 1..63 /\ name.lead > 0
    BY <2>2, <2>3
  <2>. QED  BY <2>4 DEF WellFormed, name
<1>4. CASE base.len + 1 + suffix.len > 63 /\ suffix.len <= 53
  <2>1. name = [lead |-> 53 - suffix.len, parts |-> suffix.parts, hashed |-> base.parts, len |-> 63]
    BY <1>4, NameSqueezed
  <2>. HIDE DEF name
  <2>2. name.len = 63 /\ name.lead = 53 - suffix.len
    BY <2>1
  <2>3. name.len \in 1..63 /\ name.lead > 0
    BY <1>1, <1>4, <2>2
  <2>. QED  BY <2>3 DEF WellFormed, name
<1>. QED  BY <1>1, <1>2, <1>3, <1>4

-----------------------------------------------------------------------------
(* The names of the objects of pools.                                      *)

LEMMA FixedTexts ==
    /\ hppPoolPrefix \in Texts /\ hppPoolPrefix.len = 8 /\ hppPoolPrefix.parts # <<>>
    /\ Text(<<"cleanup", "pool">>, 12) \in Texts /\ Text(<<"cleanup", "pool">>, 12).len = 12
    /\ Text(<<"cleanup", "pool">>, 12).parts # <<>>
    /\ Text(<<"shared">>, 6) \in Texts /\ Text(<<"shared">>, 6).len = 6
    /\ Text(<<"hpp">>, 3) \in Texts /\ Text(<<"hpp">>, 3).len = 3
    /\ Text(<<"csi">>, 3) \in Texts /\ Text(<<"csi">>, 3).len = 3
    /\ Text(<<"data", "dir">>, 8) \in Texts /\ Text(<<"data", "dir">>, 8).len = 8
<1>1. /\ "hpp" \in Words /\ "pool" \in Words /\ "cleanup" \in Words /\ "shared" \in Words
      /\ "csi" \in Words /\ "data" \in Words /\ "dir" \in Words
  BY DEF Words
<1>2. 8 \in Nat /\ 12 \in Nat /\ 6 \in Nat /\ 3 \in Nat
  OBVIOUS
<1>3. hppPoolPrefix \in Texts /\ hppPoolPrefix.len = 8 /\ hppPoolPrefix.parts # <<>>
  BY <1>1, <1>2, TextOfTwo DEF hppPoolPrefix
<1>4. LET t == Text(<<"cleanup", "pool">>, 12) IN t \in Texts /\ t.len = 12 /\ t.parts # <<>>
  BY <1>1, <1>2, TextOfTwo
<1>5. LET t == Text(<<"data", "dir">>, 8) IN t \in Texts /\ t.len = 8
  BY <1>1, <1>2, TextOfTwo
<1>6. LET t == Text(<<"shared">>, 6) IN t \in Texts /\ t.len = 6
  BY <1>1, <1>2, TextOfOne
<1>7. /\ Text(<<"hpp">>, 3) \in Texts /\ Text(<<"hpp">>, 3).len = 3
      /\ Text(<<"csi">>, 3) \in Texts /\ Text(<<"csi">>, 3).len = 3
  BY <1>1, <1>2, TextOfOne
<1>. QED  BY <1>3, <1>4, <1>5, <1>6, <1>7, Zenon

\* Deployments, claims and cleanup jobs of pools and nodes that are not spelled alike.
LEMMA SlotsApart ==
    ASSUME NEW p \in Texts, NEW q \in Texts, NEW n \in Texts, NEW m \in Texts,
           p.parts \o n.parts = q.parts \o m.parts => p.len + n.len = q.len + m.len,
           Dashed(p, n) # Dashed(q, m)
    PROVE  /\ DeploymentName(p, n) # DeploymentName(q, m)
           /\ getStoragePoolPVCName(p, n) # getStoragePoolPVCName(q, m)
           /\ CleanupJobName(p, n) # CleanupJobName(q, m)
<1>. DEFINE s == Dashed(p, n)
            t == Dashed(q, m)
<1>1. /\ s \in Texts /\ s.parts = p.parts \o n.parts /\ s.len = p.len + 1 + n.len
      /\ t \in Texts /\ t.parts = q.parts \o m.parts /\ t.len = q.len + 1 + m.len
  BY DashedFields
<1>2. p.len \in Nat /\ q.len \in Nat /\ n.len \in Nat /\ m.len \in Nat
  BY TextFields
<1>3. p.len + n.len = q.len + m.len => p.len + 1 + n.len = q.len + 1 + m.len
  BY <1>2
<1>. HIDE DEF s, t
<1>4. s.parts = t.parts => s.len = t.len
  BY <1>1, <1>3, Zenon
<1>5. s # t
  BY DEF s, t
<1>6. getResourceNameWithMaxLength(hppPoolPrefix, s, 63) # getResourceNameWithMaxLength(hppPoolPrefix, t, 63)
  BY <1>1, <1>4, <1>5, FixedTexts, SuffixesApart, Zenon
<1>7. getResourceNameWithMaxLength(Text(<<"cleanup", "pool">>, 12), s, 63)
        # getResourceNameWithMaxLength(Text(<<"cleanup", "pool">>, 12), t, 63)
  BY <1>1, <1>4, <1>5, FixedTexts, SuffixesApart, Zenon
<1>. QED
  BY <1>6, <1>7, Zenon DEF s, t, DeploymentName, getStoragePoolPVCName, CleanupJobName, maxNameLength

\* Labels and shared claims of pools with different names of at most 50 characters.
LEMMA PoolsApart ==
    ASSUME NEW p \in Texts, NEW q \in Texts, p.parts = q.parts => p.len = q.len, p # q,
           p.len <= 50, q.len <= 50
    PROVE  /\ PoolLabel(p) # PoolLabel(q)
           /\ getSharedStoragePoolPVCName(p) # getSharedStoragePoolPVCName(q)
<1>. DEFINE shared == Text(<<"shared">>, 6)
            s == Dashed(p, shared)
            t == Dashed(q, shared)
<1>0. p.len \in Nat /\ q.len \in Nat /\ shared \in Texts
  BY TextFields, FixedTexts
<1>1. PoolLabel(p) # PoolLabel(q)
  <2>. DEFINE suffix == Text(<<"hpp">>, 3)
  <2>1. suffix \in Texts /\ suffix.len = 3
    BY FixedTexts
  <2>. HIDE DEF suffix
  <2>2. p.len + 1 + suffix.len <= 63 /\ q.len + 1 + suffix.len <= 63
    BY <1>0, <2>1
  <2>3. getResourceNameWithMaxLength(p, suffix, 63) # getResourceNameWithMaxLength(q, suffix, 63)
    BY <2>1, <2>2, BasesApart, Zenon
  <2>. QED  BY <2>3, Zenon DEF suffix, PoolLabel, maxNameLength
<1>. HIDE DEF shared
<1>2. /\ s \in Texts /\ s.parts = Joined(p, shared)
      /\ t \in Texts /\ t.parts = Joined(q, shared)
  BY <1>0, DashedFields DEF Joined
<1>3. Joined(p, shared) = Joined(q, shared) => p.parts = q.parts
  BY <1>0, JoinedFacts, Zenon
<1>4. p.parts # q.parts
  BY TextsEqual, Zenon
<1>. HIDE DEF s, t
<1>5. s.parts # t.parts
  BY <1>2, <1>3, <1>4, Zenon
<1>6. getResourceNameWithMaxLength(hppPoolPrefix, s, 63) # getResourceNameWithMaxLength(hppPoolPrefix, t, 63)
  BY <1>2, <1>5, FixedTexts, SuffixesApart, Zenon
<1>7. getSharedStoragePoolPVCName(p) # getSharedStoragePoolPVCName(q)
  BY <1>6, Zenon DEF s, t, shared, getSharedStoragePoolPVCName, maxNameLength
<1>. QED  BY <1>1, <1>7

\* Names of deployments and jobs of pools and nodes of any length, with the exception that the code has.
LEMMA PoolNamesWellFormed ==
    ASSUME NEW p \in Texts, NEW n \in Texts, p.len <= 50
    PROVE  /\ WellFormed(DeploymentName(p, n)) /\ WellFormed(PoolLabel(p))
           /\ Dashed(p, n).len # 53 => WellFormed(CleanupJobName(p, n))
<1>. DEFINE s == Dashed(p, n)
<1>1. p.len \in Nat /\ s \in Texts /\ s.len \in Nat
  BY TextFields, DashedFields
<1>. HIDE DEF s
<1>2. WellFormed(DeploymentName(p, n))
  <2>1. hppPoolPrefix.len > 0 /\ (hppPoolPrefix.len + 1 + s.len > 63 => s.len # 53)
    BY <1>1, FixedTexts
  <2>2. WellFormed(getResourceNameWithMaxLength(hppPoolPrefix, s, 63))
    BY <1>1, <2>1, FixedTexts, NameWellFormed
  <2>. QED  BY <2>2, Zenon DEF s, DeploymentName, maxNameLength
<1>3. WellFormed(PoolLabel(p))
  <2>. DEFINE suffix == Text(<<"hpp">>, 3)
  <2>1. suffix \in Texts /\ suffix.len = 3
    BY FixedTexts
  <2>. HIDE DEF suffix
  <2>2. p.len + 1 + suffix.len <= 63 /\ ~(p.len + 1 + suffix.len > 63)
    BY <1>1, <2>1
  <2>3. WellFormed(getResourceNameWithMaxLength(p, suffix, 63))
    BY <2>1, <2>2, NameWellFormed
  <2>. QED  BY <2>3, Zenon DEF suffix, PoolLabel, maxNameLength
<1>4. ASSUME s.len # 53 PROVE WellFormed(CleanupJobName(p, n))
  <2>. DEFINE base == Text(<<"cleanup", "pool">>, 12)
  <2>1. base \in Texts /\ base.len > 0
    BY FixedTexts
  <2>. HIDE DEF base
  <2>2. WellFormed(getResourceNameWithMaxLength(base, s, 63))
    BY <1>1, <1>4, <2>1, NameWellFormed
  <2>. QED  BY <2>2, Zenon DEF s, base, CleanupJobName, maxNameLength
<1>. QED  BY <1>2, <1>3, <1>4, Zenon DEF s

-----------------------------------------------------------------------------
(* The volumes of pools.                                                   *)

DataDir == Text(<<"data", "dir">>, 8)

LEMMA DataDirType == DataDir \in Texts /\ DataDir.len = 8 /\ DataDir.parts = <<"data", "dir">>
BY TextOfTwo DEF DataDir, Words

\* The text before -data-dir.
MountBase(p) == IF p = Blank THEN Text(<<"csi">>, 3) ELSE p

\* The name of a pool's mount is made like any other, and is never cut.
LEMMA MountIsDashed ==
    ASSUME NEW p \in Texts, p.len <= 50
    PROVE  /\ MountBase(p) \in Texts /\ MountBase(p).len <= 50
           /\ getMountNameFromStoragePool(p) = getResourceNameWithMaxLength(MountBase(p), DataDir, 63)
           /\ getMountNameFromStoragePool(p) = Dashed(MountBase(p), DataDir)
<1>1. MountBase(p) \in Texts /\ MountBase(p).len <= 50
  BY FixedTexts DEF MountBase
<1>2. getMountNameFromStoragePool(p) = getResourceNameWithMaxLength(MountBase(p), DataDir, 63)
  BY DEF getMountNameFromStoragePool, MountBase, DataDir, maxMountNameLength
<1>3. MountBase(p).len + 1 + DataDir.len <= 63
  BY <1>1, DataDirType, TextFields
<1>4. getResourceNameWithMaxLength(MountBase(p), DataDir, 63) = Dashed(MountBase(p), DataDir)
  BY <1>1, <1>3, DataDirType, NameFits
<1>. QED  BY <1>1, <1>2, <1>4

\* The volume of a pool has a name the API accepts, that none of the driver's own volumes
\* and directories has.
LEMMA MountFacts ==
    ASSUME NEW p \in Texts, p.len <= 50
    PROVE  /\ WellFormed(getMountNameFromStoragePool(p))
           /\ \A x : x # "data" => getMountNameFromStoragePool(p).parts # <<x, "dir">>
           /\ \A x : getMountNameFromStoragePool(p).parts # <<x>>
<1>. DEFINE base == MountBase(p)
            parts == base.parts \o <<"data", "dir">>
<1>1. base \in Texts /\ base.len \in Nat /\ base.len <= 50 /\ base.parts \in Seq(Words)
  BY MountIsDashed, TextFields
<1>2. getMountNameFromStoragePool(p).parts = parts
  <2>1. Dashed(base, DataDir).parts = base.parts \o DataDir.parts
    BY <1>1, DataDirType, DashedFields
  <2>. QED  BY <2>1, DataDirType, MountIsDashed, Zenon
<1>3. WellFormed(getMountNameFromStoragePool(p))
  <2>1. base.len + 1 + DataDir.len <= 63 /\ ~(base.len + 1 + DataDir.len > 63)
    BY <1>1, DataDirType
  <2>2. WellFormed(getResourceNameWithMaxLength(base, DataDir, 63))
    BY <1>1, <2>1, DataDirType, NameWellFormed
  <2>. QED  BY <2>2, MountIsDashed
<1>. HIDE DEF base
<1>4. DataDir.parts \in Seq(Words) /\ DataDir.parts = <<"data", "dir">>
  BY DataDirType, TextFields
<1>5. /\ Len(parts) = Len(base.parts) + 2 /\ Len(base.parts) \in Nat
      /\ Len(base.parts) = 0 => parts[1] = "data"
  <2>1. Len(<<"data", "dir">>) = 2 /\ <<"data", "dir">>[1] = "data"
    OBVIOUS
  <2>2. <<"data", "dir">> \in Seq(Words)
    BY <1>4, Zenon
  <2>. DEFINE dd == <<"data", "dir">>
  <2>3. dd \in Seq(Words) /\ Len(dd) = 2 /\ dd[1] = "data"
    BY <2>1, <2>2
  <2>. HIDE DEF dd
  <2>4. /\ Len(base.parts \o dd) = Len(base.parts) + 2 /\ Len(base.parts) \in Nat
        /\ Len(base.parts) = 0 => (base.parts \o dd)[1] = dd[1]
    <3>1. ASSUME NEW u \in Seq(Words), NEW v \in Seq(Words), Len(v) = 2
          PROVE  /\ Len(u \o v) = Len(u) + 2 /\ Len(u) \in Nat
                 /\ Len(u) = 0 => (u \o v)[1] = v[1]
      <4>1. Len(u \o v) = Len(u) + Len(v) /\ Len(u) \in Nat
        BY ConcatProperties, LenProperties
      <4>2. \A i \in 1 .. Len(u) + Len(v) : (u \o v)[i] = IF i <= Len(u) THEN u[i] ELSE v[i - Len(u)]
        BY ConcatProperties, Zenon
      <4>. DEFINE w == u \o v
      <4>. HIDE DEF w
      <4>3. \A i \in 1 .. Len(u) + Len(v) : w[i] = IF i <= Len(u) THEN u[i] ELSE v[i - Len(u)]
        BY <4>2 DEF w
      <4>4. Len(u) = 0 => w[1] = v[1]
        BY <3>1, <4>1, <4>3
      <4>. QED  BY <3>1, <4>1, <4>4 DEF w
    <3>. QED  BY <1>1, <2>3, <3>1
  <2>. QED  BY <2>3, <2>4 DEF dd
<1>. HIDE DEF parts
<1>6. \A x : <<x, "dir">> = parts => x = "data"
  <2>1. \A x : Len(<<x, "dir">>) = 2 /\ <<x, "dir">>[1] = x
    OBVIOUS
  <2>2. SUFFICES ASSUME NEW x, <<x, "dir">> = parts PROVE x = "data"
    OBVIOUS
  <2>3. Len(parts) = 2 /\ parts[1] = x
    BY <2>1, <2>2, Zenon
  <2>4. Len(base.parts) = 0
    <3>1. \A l \in Nat : l + 2 = 2 => l = 0
      OBVIOUS
    <3>. QED  BY <1>5, <2>3, <3>1, Zenon
  <2>. QED  BY <1>5, <2>3, <2>4, Zenon
<1>7. \A x : <<x>> # parts
  <2>1. \A x : Len(<<x>>) = 1
    OBVIOUS
  <2>2. Len(parts) # 1
    BY <1>5
  <2>. QED  BY <2>1, <2>2, Zenon
<1>. QED  BY <1>2, <1>3, <1>6, <1>7

\* Pools have volumes of their own.
LEMMA MountsApart ==
    ASSUME NEW p \in Texts, NEW q \in Texts, p.len <= 50, q.len <= 50, p # Blank, q # Blank, p # q,
           p.parts = q.parts => p.len = q.len
    PROVE  getMountNameFromStoragePool(p) # getMountNameFromStoragePool(q)
<1>1. p.len + 1 + DataDir.len <= 63 /\ q.len + 1 + DataDir.len <= 63
  BY DataDirType, TextFields
<1>2. getResourceNameWithMaxLength(p, DataDir, 63) # getResourceNameWithMaxLength(q, DataDir, 63)
  BY <1>1, DataDirType, BasesApart, Zenon
<1>3. MountBase(p) = p /\ MountBase(q) = q
  BY DEF MountBase
<1>4. /\ getMountNameFromStoragePool(p) = getResourceNameWithMaxLength(MountBase(p), DataDir, 63)
      /\ getMountNameFromStoragePool(q) = getResourceNameWithMaxLength(MountBase(q), DataDir, 63)
  BY MountIsDashed
<1>. QED  BY <1>2, <1>3, <1>4, Zenon

=============================================================================
