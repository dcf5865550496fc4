------------------------------ MODULE MCDriver ------------------------------
(* Two pools with short, long and ambiguous names on nodes with such names,  *)
(* and profiles with and without settings.                                   *)
EXTENDS Driver

A    == Text(<<"a">>, 1)
AB   == Text(<<"a", "b">>, 3)
Long == Text(<<"long">>, 50)
Over == Text(<<"over">>, 51)

X      == [dir |-> "x", spelled |-> "plain", len |-> 2]
XSlash == [dir |-> "x", spelled |-> "slash", len |-> 3]
Y      == [dir |-> "y", spelled |-> "plain", len |-> 255]
NoPath == [dir |-> "",  spelled |-> "plain", len |-> 0]
YOver  == [dir |-> "y", spelled |-> "over",  len |-> 256]

Pool(name, path, template, snapshots) ==
    [name |-> name, path |-> path, template |-> template, snapshots |-> snapshots]

MCPools == {Pool(A, X, "ReadWriteOnce", FALSE), Pool(A, Y, "none", TRUE),
            Pool(AB, X, "ReadWriteMany", FALSE), Pool(AB, XSlash, "ReadWriteOnce", TRUE),
            Pool(Long, Y, "ReadWriteOnce", FALSE), Pool(Over, Y, "none", FALSE),
            Pool(Blank, X, "none", FALSE), Pool(A, YOver, "none", FALSE)}

MCSpec(pathConfig, pools, snapshotting) ==
    [pathConfig |-> pathConfig, pools |-> pools, snapshotting |-> snapshotting]

MCFirstSpec == MCSpec(<<X>>, <<>>, FALSE)

MCSpecs ==
    {MCFirstSpec, MCSpec(<<>>, <<>>, FALSE), MCSpec(<<NoPath>>, <<>>, FALSE),
     MCSpec(<<X>>, <<Pool(A, Y, "none", TRUE)>>, FALSE)}
    \cup {MCSpec(<<>>, <<p>>, TRUE) : p \in MCPools}
    \cup {MCSpec(<<>>, <<p, q>>, FALSE) : p \in {x \in MCPools : x.name \in {A, Blank}}, q \in MCPools}

MCNodes == {Text(<<"c">>, 1), Text(<<"b", "c">>, 3), Text(<<"wide">>, 51), Text(<<"wider">>, 60)}

MCProfiles == {NoProfile, [type |-> "Old", custom |-> <<>>], [type |-> "Modern", custom |-> <<>>],
               [type |-> "Custom", custom |-> <<[suites |-> {"known", "unknown"}, version |-> 11]>>],
               [type |-> "Custom", custom |-> <<>>]}

MCOverrides == {NoOverride, [suites |-> {"known"}, version |-> 0], [suites |-> {}, version |-> 98]}

=============================================================================
