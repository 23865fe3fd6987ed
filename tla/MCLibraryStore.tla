--------------------------- MODULE MCLibraryStore ---------------------------
(* LibraryStore on small instances. *)
EXTENDS LibraryStore
CONSTANTS p1, p2, c1, c2
Both(mode1, mode2) == [id \in Ids |-> IF id = p1 THEN mode1 ELSE mode2]
V1 == Text(1, Both("direct", "none"), FALSE)
V2 == Text(2, Both("direct", "auto"), TRUE)
V3 == Text(3, Both("relay", "auto"), TRUE)
V2Invalid == Text(2, Both("invalid", "direct"), FALSE)
AnyFirst == {Missing, Corrupt, V1, V2, V2Invalid, V3}
OnlyV2 == {V2}
OnlyV3 == {V3}
============================================================================
