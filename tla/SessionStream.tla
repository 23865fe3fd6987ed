--------------------------- MODULE SessionStream ---------------------------
(* A Session (src/src/session.cpp) on the wire: start() and its capability offer, *)
(* ingest() through the layers of WireLayers, the handlers that answer or that    *)
(* keep state, and reset() for the next connection.  The server and TCP are       *)
(* external: app_server as src/ relies on it -- a compressing one, one without a  *)
(* compressor, one that predates the handshake, and one whose acknowledgement was *)
(* queued and got compressed itself -- and a byte stream that is read in pieces   *)
(* of any size and may drop at any point.                                         *)
EXTENDS WireLayers

CONSTANTS
    Tokens,    \* the server's drawing engines
    Budgets    \* bounds: kinds of server met, values of offer_compression_, connections,
               \* messages of drawing engines and closes on each, presses of Repaint,
               \* and segments that do not take all that is queued

Kinds == [hears : BOOLEAN, zstd : BOOLEAN, resync : BOOLEAN, queued : BOOLEAN]

ASSUME StreamAssumption ==
    Budgets \subseteq [servers : SUBSET Kinds, offers : SUBSET BOOLEAN, connections : Nat,
                       draws : Nat, repaints : Nat, cuts : Nat]

VARIABLES
    connection,   \* number of the connection; 0 before the first
    up,           \* it carries bytes
    layers,       \* framer_, segments_, awaiting_hello_ack_, compressed_
    session,      \* what the handlers keep
    upstream,     \* client messages on their way to the server
    wire,         \* server bytes on their way to the client
    server,       \* the server's end of the connection
    waiting,      \* engines whose thread waits for a synchronous reply
    budget,       \* what is left of the bounds
    \* History: what the properties compare the code with.
    sent,         \* messages the server sent on this connection
    handled,      \* those handle() was called with, by their place in sent
    met           \* session ids acknowledged so far

clientVars == <<layers, session, handled, met>>
serverVars == <<server, waiting, sent>>
vars == <<connection, up, clientVars, upstream, wire, serverVars, budget>>

----------------------------------------------------------------------------
\* Messages.  "about" is the era a drawing state was stated in, the session a palette
\* belongs to, or what an acknowledgement carries.
Message(op, about) == [op |-> op, about |-> about]

Count(messages, op) == Cardinality({i \in DOMAIN messages : messages[i].op = op})
\* An era of the drawing state: it begins with the connection and with every barrier.
Era(messages) == <<connection, Count(messages, "resync")>>
NoEra == <<0, 0>>

\* A server's capabilities; "queued" is one without the queued-ack fix.
Predating  == [hears |-> FALSE, zstd |-> FALSE, resync |-> FALSE, queued |-> FALSE]
Plain      == [hears |-> TRUE, zstd |-> FALSE, resync |-> FALSE, queued |-> FALSE]
Resyncing  == [Plain EXCEPT !.resync = TRUE]
Compressing == [Resyncing EXCEPT !.zstd = TRUE]
Queueing   == [Compressing EXCEPT !.queued = TRUE]

----------------------------------------------------------------------------
\* Session.

NoLayers == [buffer |-> <<>>, segments |-> <<>>, awaiting |-> FALSE,
             compressed |-> FALSE, failed |-> FALSE]
NoCapabilities == [version |-> 0, zstd |-> FALSE, resync |-> FALSE]
NewSession ==
    [states |-> [t \in Tokens |-> NoEra], palette |-> 0, id |-> 0, generation |-> 0,
     changed |-> FALSE, capabilities |-> NoCapabilities, closed |-> FALSE]

\* Mutant: the palette goes with the drawing state.
DiscardWithPalette(s) ==
    [s EXCEPT !.states = [t \in Tokens |-> NoEra], !.palette = 0]

\* Mutant: the server's replay lands on what was cached.
DiscardNothing(s) == s

discard_drawing_state(s) == [s EXCEPT !.states = [t \in Tokens |-> NoEra]]

\* Mutant: the session's identity is forgotten with the connection.
ResetIdentity(s) == NewSession

\* reset(): the session id, the generation and whether it changed survive.
reset(s) ==
    [discard_drawing_state(s) EXCEPT !.palette = 0, !.capabilities = NoCapabilities,
                                     !.closed = FALSE]

\* Mutant: a half-read frame of the dropped connection stays buffered.
ResetKeepsBuffer(l, offer) == [NoLayers EXCEPT !.awaiting = offer, !.buffer = l.buffer]

\* reset() and start() on the byte layers.
reset_layers(l, offer) == [NoLayers EXCEPT !.awaiting = offer]

observe_generation(s, id, generation) ==
    [s EXCEPT !.changed = @ \/ (s.id # 0 /\ id = s.id /\ generation > s.generation),
              !.id = id, !.generation = generation]

\* The answer the server waits for, when its request was decoded and when it was not.
Reply(message) == <<Message("reply", message.about)>>

\* Mutant: nothing is owed for a message that could not be decoded.
AnswerNothing(message) == <<>>

answer_after_failure(message) ==
    IF message.op = "garbled_query" THEN Reply(message) ELSE <<>>

\* handle(): the state a message leaves, and what it sends.
Handled(s, message) ==
    CASE message.op = "hello_ack" ->
           LET told == [s EXCEPT !.capabilities = message.about.capabilities]
           IN  IF message.about.capabilities.resync
               THEN observe_generation(told, message.about.id, message.about.generation)
               ELSE told
      [] message.op = "resync" ->
           discard_drawing_state(observe_generation(s, s.id, message.about))
      [] message.op = "palette" -> [s EXCEPT !.palette = message.about]
      [] message.op = "state" -> [s EXCEPT !.states[message.about.token] = message.about.era]
      [] message.op = "close" -> [s EXCEPT !.closed = TRUE]
      [] OTHER -> s

\* RP_UPDATE_DISPLAY_MODE, sent with the palette request, only makes the server draw.
Sends(message) ==
    CASE message.op = "init" -> <<Message("get_palette", 0)>>
      [] message.op = "query" -> Reply(message)
      [] OTHER -> answer_after_failure(message)

\* ingest() hands the messages of a read to handle(), one after the other.
handle(end, message) ==
    [session |-> Handled(end.session, message), upstream |-> end.upstream \o Sends(message)]
HandledInTurn(end, messages) ==
    LET after[k \in 0..Len(messages)] ==
            IF k = 0 THEN end ELSE handle(after[k - 1], messages[k])
    IN  after[Len(messages)]

\* ingest_plain(), or the segments and then the Framer.
Fed(l, bytes) ==
    IF ~l.compressed
    THEN LET f == feed(l.buffer, bytes, FALSE)
         IN  [messages |-> f.messages,
              layers |-> [l EXCEPT !.buffer = f.rest, !.failed = f.failed]]
    ELSE LET d == decode(l.segments \o bytes)
             f == feed_decoded(l.buffer, d.units)
         IN  [messages |-> f.messages,
              layers |-> [l EXCEPT !.segments = d.rest, !.buffer = f.rest,
                                   !.failed = d.failed \/ f.failed]]

\* Mutant: the wait for an acknowledgement outlives the switch.
RerouteKeepsWaiting(l, messages, pending, compressed) ==
    LET after == Fed([l EXCEPT !.buffer = <<>>, !.compressed = compressed], pending)
    IN  [after EXCEPT !.messages = messages \o @]

\* Mutant: what was pending behind the acknowledgement is dropped.
RerouteDropsPending(l, messages, pending, compressed) ==
    [messages |-> messages,
     layers |-> [l EXCEPT !.buffer = <<>>, !.awaiting = FALSE, !.compressed = compressed]]

\* take_pending(): the bytes framing stopped at go to the layer that is theirs.
Rerouted(l, messages, pending, compressed) ==
    LET after == Fed([l EXCEPT !.buffer = <<>>, !.awaiting = FALSE,
                               !.compressed = compressed], pending)
    IN  [after EXCEPT !.messages = messages \o @]

\* Mutant: only an acknowledgement ends the wait for it.
FollowAcknowledgementOnly(f) == FALSE

\* The server switched before its acknowledgement was framed.
FollowEarlySwitch(f) == f.start

ingest(l, bytes) ==
    IF l.compressed \/ ~l.awaiting THEN Fed(l, bytes)
    ELSE LET f == feed(l.buffer, bytes, TRUE)
             n == Len(f.messages)
             acked == n > 0 /\ f.messages[n].op = "hello_ack"
         IN  IF f.failed
             THEN [messages |-> <<>>, layers |-> [l EXCEPT !.buffer = <<>>, !.failed = TRUE]]
             ELSE IF acked
             THEN Rerouted(l, f.messages, f.rest, sent[f.messages[n].n].about.capabilities.zstd)
             ELSE IF FollowEarlySwitch(f) THEN Rerouted(l, f.messages, f.rest, TRUE)
             ELSE [messages |-> f.messages, layers |-> [l EXCEPT !.buffer = f.rest]]

----------------------------------------------------------------------------
Init ==
    /\ connection = 0 /\ up = FALSE
    /\ layers = NoLayers /\ session = NewSession
    /\ upstream = <<>> /\ wire = <<>>
    /\ server = [kind |-> Predating, zstd |-> FALSE, segmenting |-> FALSE,
                 opened |-> FALSE, closing |-> FALSE, acked |-> FALSE,
                 id |-> 1, generation |-> 0, queue |-> <<>>]
    /\ waiting = {} /\ budget \in Budgets
    /\ sent = <<>> /\ handled = <<>> /\ met = <<>>

\* A connection: reset() unless it is the first, then start().  The server is the one
\* met before, which counted both ends of the connection, or another.
Connect ==
    /\ ~up /\ ~layers.failed /\ budget.connections > 0
    /\ budget' = [budget EXCEPT !.connections = @ - 1]
    /\ connection' = connection + 1 /\ up' = TRUE
    /\ \E offer \in budget.offers, kind \in budget.servers, same \in BOOLEAN :
         /\ layers' = reset_layers(layers, offer)
         /\ upstream' = <<Message("init", 0), Message("hello", 0)>>
         /\ server' = [kind |-> kind, zstd |-> kind.zstd /\ offer, segmenting |-> FALSE,
                       opened |-> FALSE, closing |-> FALSE, acked |-> FALSE,
                       queue |-> <<>>,
                       id |-> IF same THEN server.id ELSE server.id + 1,
                       generation |-> IF same THEN server.generation + 2 ELSE 1]
    /\ session' = reset(session)
    /\ wire' = <<>> /\ waiting' = {} /\ sent' = <<>> /\ handled' = <<>>
    /\ UNCHANGED met

\* The link drops, with everything on it; the engines' waits end with it.
Drop ==
    /\ up
    /\ up' = FALSE
    /\ wire' = <<>> /\ upstream' = <<>> /\ waiting' = {}
    /\ server' = [server EXCEPT !.queue = <<>>]
    /\ UNCHANGED <<connection, clientVars, sent, budget>>

\* receive() into ingest(): any number of the bytes that have arrived.  The messages
\* of one read are all handled, also behind RP_CLOSE_CONNECTION; then nobody reads on.
Read ==
    /\ up /\ ~session.closed /\ ~layers.failed
    /\ \E n \in 1..Len(wire) : \E result \in {ingest(layers, SubSeq(wire, 1, n))} :
         LET messages == [k \in 1..Len(result.messages) |-> sent[result.messages[k].n]]
             end == HandledInTurn([session |-> session, upstream |-> upstream], messages)
         IN
         /\ wire' = SubSeq(wire, n + 1, Len(wire))
         /\ layers' = result.layers
         /\ session' = end.session /\ upstream' = end.upstream
         /\ handled' = handled \o [k \in DOMAIN messages |-> result.messages[k].n]
         /\ met' = met \o [k \in 1..Count(messages, "hello_ack") |->
                              IF session'.capabilities.resync THEN server.id ELSE 0]
    /\ UNCHANGED <<connection, up, serverVars, budget>>

\* request_repaint(): RP_RESYNC where it was negotiated; otherwise RP_UPDATE_DISPLAY_MODE.
Repaint ==
    /\ up /\ ~session.closed /\ ~layers.failed /\ budget.repaints > 0
    /\ budget' = [budget EXCEPT !.repaints = @ - 1]
    /\ upstream' = IF session.capabilities.resync
                   THEN Append(upstream, Message("resync", session.generation))
                   ELSE upstream
    /\ UNCHANGED <<connection, up, clientVars, wire, serverVars>>

----------------------------------------------------------------------------
\* The server.

\* A message goes onto the wire, or to the encoder once the stream is switched.
Written(s, message) ==
    /\ sent' = Append(sent, message)
    /\ IF s.segmenting
       THEN server' = [s EXCEPT !.queue = @ \o Frame(message.op, Len(sent'))] /\ UNCHANGED wire
       ELSE server' = s /\ wire' = wire \o Frame(message.op, Len(sent'))

\* RP_HELLO: the acknowledgement, behind which a compressed stream begins.
Acknowledges ==
    LET ack == Message("hello_ack",
                 [capabilities |-> [version |-> 1, zstd |-> server.zstd,
                                    resync |-> server.kind.resync],
                  id |-> server.id, generation |-> server.generation])
    IN  /\ sent' = Append(sent, ack)
        /\ IF server.segmenting
           THEN /\ server' = [server EXCEPT !.queue = @ \o Frame("hello_ack", Len(sent')), !.acked = TRUE]
                /\ UNCHANGED wire
           ELSE /\ server' = [server EXCEPT !.segmenting = server.zstd, !.acked = TRUE]
                /\ wire' = wire \o Frame("hello_ack", Len(sent'))

ServerHears ==
    /\ up /\ upstream # <<>> /\ ~server.closing
    /\ upstream' = Tail(upstream)
    /\ LET message == Head(upstream) IN
       \/ message.op = "init" /\ Written(server, Message("init", 0)) /\ UNCHANGED waiting
       \/ message.op = "hello" /\ server.kind.hears /\ Acknowledges /\ UNCHANGED waiting
       \/ /\ message.op = "get_palette"
          /\ Written(server, Message("palette", server.id))
          /\ UNCHANGED waiting
       \/ /\ message.op = "resync"
          /\ Written(server, Message("resync", server.generation))
          /\ UNCHANGED waiting
       \/ /\ message.op = "reply"
          /\ waiting' = waiting \ {message.about}
          /\ UNCHANGED <<server, wire, sent>>
       \/ /\ message.op = "hello" /\ ~server.kind.hears
          /\ UNCHANGED <<server, waiting, wire, sent>>
    /\ UNCHANGED <<connection, up, clientVars, budget>>

Drawn == Cardinality({i \in DOMAIN sent :
                         sent[i].op \in {"state", "query", "garbled_query", "close"}})

\* A drawing engine states its state or asks; while it waits for a reply it does neither.
ServerDraws ==
    /\ up /\ ~server.closing /\ Drawn < budget.draws
    /\ \E t \in Tokens \ waiting :
         \/ /\ Written(server, Message("state", [token |-> t, era |-> Era(sent)]))
            /\ UNCHANGED waiting
         \/ \E op \in {"query", "garbled_query"} :
              /\ Written(server, Message(op, t))
              /\ waiting' = waiting \cup {t}
    /\ UNCHANGED <<connection, up, clientVars, upstream, budget>>

ServerCloses ==
    /\ up /\ ~server.closing /\ Drawn < budget.draws
    /\ Written([server EXCEPT !.closing = TRUE], Message("close", 0))
    /\ UNCHANGED <<connection, up, clientVars, upstream, waiting, budget>>

\* Without the queued-ack fix: the send ring is full, and what is written from here on
\* -- the acknowledgement included -- leaves through the encoder it switches on.
RingFills ==
    /\ up /\ server.kind.queued /\ server.zstd /\ ~server.acked /\ ~server.segmenting
    /\ server' = [server EXCEPT !.segmenting = TRUE]
    /\ UNCHANGED <<connection, up, clientVars, upstream, wire, waiting, sent, budget>>

\* The encoder cuts a segment off what is queued; the first has a magic.
ServerFlushes ==
    /\ up /\ server.segmenting /\ server.acked /\ server.queue # <<>>
    /\ \E n \in 1..Len(server.queue), heads \in (IF server.opened THEN {1} ELSE {2, 3}) :
         LET cut == n < Len(server.queue) IN
         /\ cut => budget.cuts > 0
         /\ budget' = [budget EXCEPT !.cuts = IF cut THEN @ - 1 ELSE @]
         /\ wire' = wire \o Segment(SubSeq(server.queue, 1, n), heads, ~server.opened)
         /\ server' = [server EXCEPT !.queue = SubSeq(@, n + 1, Len(@)), !.opened = TRUE]
    /\ UNCHANGED <<connection, up, clientVars, upstream, waiting, sent>>

----------------------------------------------------------------------------
Next ==
    \/ Connect \/ Drop \/ Read \/ Repaint
    \/ ServerHears \/ ServerDraws \/ ServerCloses \/ RingFills \/ ServerFlushes

Spec == Init /\ [][Next]_vars

----------------------------------------------------------------------------
\* Properties.

\* Every variable holds a value of its type; a compressed stream awaits no
\* acknowledgement, and only one keeps part of a segment.
TypeOK ==
    /\ connection \in Nat /\ up \in BOOLEAN
    /\ layers.awaiting \in BOOLEAN /\ layers.compressed \in BOOLEAN
    /\ layers.failed \in BOOLEAN
    /\ layers.compressed => ~layers.awaiting
    /\ layers.segments # <<>> => layers.compressed
    /\ \A t \in Tokens : session.states[t] \in (0..connection) \X Nat
    /\ session.palette \in Nat /\ session.id \in Nat /\ session.generation \in Nat
    /\ session.changed \in BOOLEAN /\ session.closed \in BOOLEAN
    /\ waiting \subseteq Tokens
    /\ budget.connections \in Nat /\ budget.repaints \in Nat /\ budget.cuts \in Nat

\* The stream of a correct server never desynchronises: neither layer is given the
\* other's bytes, whatever the read boundaries and whenever compression begins.
NoDesync == ~layers.failed

\* Once everything sent has been read, everything has been handled: no layer sits on a
\* complete message, waiting for bytes nobody will send.
NothingHeldBack ==
    up /\ ~session.closed /\ wire = <<>> /\ server.queue = <<>> => Len(handled) = Len(sent)

Received == [k \in DOMAIN handled |-> sent[handled[k]]]

\* No drawing state survives the barrier or the connection it was stated before.
NoStaleState ==
    \A t \in Tokens : session.states[t] \in {NoEra, Era(Received)}

\* Once this connection's server sent its palette the client has it, through barriers,
\* and never another server's.
PaletteKept ==
    session.palette = IF Count(Received, "palette") > 0 THEN server.id ELSE 0

\* The generation is seen to change exactly when the same server session was met again.
ReconnectionRecognised ==
    session.changed <=> \E i \in 2..Len(met) : LET earlier == {j \in 1..i - 1 : met[j] # 0}
                                               IN  /\ met[i] # 0 /\ earlier # {}
                                                   /\ met[i] = met[Max(earlier)]

\* The client's messages are those of a FIFO channel.
C == INSTANCE MessageChannel WITH sent <- [n \in DOMAIN sent |-> n]
ChannelPromise == C!Spec

\* Once everything sent has been read and every answer has arrived, no drawing engine
\* is left waiting for a synchronous reply, also for a request that did not decode.
NoEngineLeftWaiting ==
    /\ up /\ ~session.closed /\ wire = <<>> /\ server.queue = <<>>
    /\ Count(upstream, "reply") = 0
    => waiting = {}

\* The two byte layers stay in step with the server's: nothing is read as what it is not,
\* and no message that has arrived is held back.
LayersInStep == TypeOK /\ NoDesync /\ NothingHeldBack

\* What the session keeps is the current server session's, and all of it.
StateIsCurrent == NoStaleState /\ PaletteKept /\ ReconnectionRecognised
============================================================================
