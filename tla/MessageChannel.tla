--------------------------- MODULE MessageChannel ---------------------------
(* What the byte layers promise: a connection is a FIFO channel of messages.      *)
(* Whatever the reads, the segments and the moment compression begins, messages   *)
(* are handled in the order they were sent, each once, and only those of this     *)
(* connection.                                                                    *)
EXTENDS Sequences, Integers

VARIABLES sent,     \* messages sent on this connection
          handled   \* messages handled on this connection

vars == <<sent, handled>>

IsBehind(h, s) == Len(h) <= Len(s) /\ h = SubSeq(s, 1, Len(h))

Init == sent = <<>> /\ handled = <<>>

Send ==
    /\ Len(sent') = Len(sent) + 1 /\ IsBehind(sent, sent')
    /\ UNCHANGED handled

\* One read may complete several messages.
Handle ==
    /\ IsBehind(handled, handled') /\ IsBehind(handled', sent)
    /\ UNCHANGED sent

Reconnect == sent' = <<>> /\ handled' = <<>>

Next == Send \/ Handle \/ Reconnect

Spec == Init /\ [][Next]_vars
============================================================================
