------------------------- MODULE MCSessionStream -------------------------
(* SessionStream on small instances: every kind of server on one connection, with  *)
(* two messages of its engines or with an encoder that may cut one segment         *)
(* anywhere; and two connections, to the same server or another, with a repaint.   *)
EXTENDS SessionStream
CONSTANT t1
Uncompressed ==
    [servers |-> {Predating, Plain, Resyncing}, offers |-> BOOLEAN,
     connections |-> 1, draws |-> 2, repaints |-> 0, cuts |-> 0]
Compressed ==
    [Uncompressed EXCEPT !.servers = {Compressing, Queueing}, !.offers = {TRUE}]
CutAnywhere == [Compressed EXCEPT !.draws = 1, !.cuts = 1]
Reconnected ==
    [Uncompressed EXCEPT !.servers = {Plain, Compressing}, !.offers = {TRUE},
                         !.connections = 2, !.draws = 1, !.repaints = 1]
AllBudgets == {Uncompressed, Compressed, CutAnywhere, Reconnected}
============================================================================
