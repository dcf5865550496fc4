------------------------------ MODULE MCStatus ------------------------------
(* Small instances of the status report for TLC. *)
EXTENDS Status

\* Two releases, a rebuild of the second one (same precedence, other string)
\* and a version that does not parse.
MCPrecedence == [v \in Versions |-> CASE v = "1.0.0"   -> 1
                                      [] v = "2.0.0"   -> 2
                                      [] v = "2.0.0+b" -> 2
                                      [] OTHER         -> 0]
=============================================================================
