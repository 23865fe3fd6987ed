----------------------------- MODULE WireLayers -----------------------------
(* The byte layers between a transport and a Session: the Framer (protocol.cpp),  *)
(* which cuts a byte stream into messages, and the SegmentDecoder                 *)
(* (wire_decoder.cpp) below it once compression is negotiated.  Pure operators.   *)
(*                                                                                *)
(* A byte stream is a sequence of units.  A message's frame is a run of units, the *)
(* first two of them its header; "n" says which message of the connection it is.  *)
(* A segment is a run of head units (its varint, and the magic when it opens the  *)
(* zstd frame) followed by the units it carries.  Nothing on the wire says where  *)
(* a read or a segment boundary falls within a frame.                             *)
EXTENDS SequencesExt, Integers

CONSTANT MaxMessage   \* Framer::max_message_size, in units

ASSUME LayersAssumption == MaxMessage \in Nat \ {0}

Header == 2   \* message_header_size

\* A message without a payload is all header.
FrameSize(op) == IF op \in {"init", "close"} THEN Header ELSE Header + 1

Frame(op, n) ==
    [k \in 1..FrameSize(op) |-> [op |-> op, n |-> n, k |-> k, of |-> FrameSize(op),
                                 ends |-> FALSE]]

\* A segment around some units.  The first one opens the zstd frame, under a varint
\* short enough to tell it from a frame header within a header's length, or not.
Heads == {"segment", "opening"}
Segment(units, heads, opens) ==
    [k \in 1..heads |-> [op |-> IF opens THEN "opening" ELSE "segment", n |-> 0, k |-> k,
                         of |-> heads, ends |-> FALSE]]
    \o [k \in DOMAIN units |-> [units[k] EXCEPT !.ends = (k = Len(units))]]

IsHead(unit) == unit.op \in Heads
IsLast(unit) == ~IsHead(unit) /\ unit.k = unit.of
\* The unit continues the frame or the segment header the one before it began.
Continues(unit, before) == unit.k = before.k + 1 /\ unit.n = before.n

\* The units at some places, in their order.
Picked(units, places) ==
    [j \in 1..Cardinality(places) |->
        units[CHOOSE i \in places : Cardinality({e \in places : e <= i}) = j]]

----------------------------------------------------------------------------
\* Framer.  The messages it cut are given by their last units.

Framing(messages, rest, start) ==
    [messages |-> messages, rest |-> rest, start |-> start, failed |-> FALSE]
\* feed() throws: what it had framed is lost with what it had buffered.
Desync == [messages |-> <<>>, rest |-> <<>>, start |-> FALSE, failed |-> TRUE]

\* segment_start(): the varint and the magic tell, once they are there.
segment_start(units) ==
    IF units[1].op # "opening" THEN "no"
    ELSE IF Len(units) < units[1].of THEN "need_more" ELSE "yes"

\* stop_after: no frame behind the first RP_HELLO_ACK is cut, if it is awaited.
StopAfterAck(ends, units, awaiting) ==
    {i \in ends : ~awaiting \/ \A j \in ends : j < i => units[j].op # "hello_ack"}

\* feed()'s loop over what is buffered; "awaiting" is its two stop conditions together.
Framed(units, awaiting) ==
    LET heads == {i \in DOMAIN units : IsHead(units[i])}
        plain == IF heads = {} THEN Len(units) ELSE Min(heads) - 1
        ends == StopAfterAck({i \in 1..plain : IsLast(units[i])}, units, awaiting)
        taken == Max(ends \cup {0})
        rest == SubSeq(units, taken + 1, Len(units))
        cut == Picked(units, {i \in 1..taken : IsLast(units[i])})
        aligned == \A i \in 1..taken :
                       units[i].k = 1 \/ (i > 1 /\ Continues(units[i], units[i - 1]))
        acked == awaiting /\ cut # <<>> /\ cut[Len(cut)].op = "hello_ack"
        start == IF Len(rest) < Header \/ acked \/ ~awaiting THEN "no"
                 ELSE segment_start(rest)
    IN  IF ~aligned THEN Desync
        ELSE IF \/ acked \/ Len(rest) < Header \/ start = "need_more"
                \/ rest[1].k = 1 /\ ~IsHead(rest[1]) /\ Continues(rest[2], rest[1])
        THEN Framing(cut, rest, FALSE)
        ELSE IF start = "yes" THEN Framing(cut, rest, TRUE) ELSE Desync

\* Framer::feed(): what is pending may not exceed the largest message.
feed(buffer, bytes, awaiting) ==
    IF Len(bytes) > MaxMessage - (IF Len(buffer) < MaxMessage THEN Len(buffer)
                                                              ELSE MaxMessage)
    THEN Desync
    ELSE Framed(buffer \o bytes, awaiting)

----------------------------------------------------------------------------
\* SegmentDecoder.

\* SegmentDecoder::feed(): what the complete segments carry, and what is left.  A
\* boundary that is not a segment header is a stream that lost its position.
decode(buffer) ==
    LET ends == {i \in DOMAIN buffer : buffer[i].ends}
        done == Max(ends \cup {0})
    IN  [units |-> Picked(buffer, {i \in 1..done : ~IsHead(buffer[i])}),
         rest |-> SubSeq(buffer, done + 1, Len(buffer)),
         failed |-> \E i \in {0} \cup ends :
                        i < Len(buffer) /\ ~(IsHead(buffer[i + 1]) /\ buffer[i + 1].k = 1)]

\* emit(): the Framer gets what was decoded in small pieces, so that its limit counts
\* for one message, not for one read.
feed_decoded(buffer, units) == Framed(buffer \o units, FALSE)
============================================================================
