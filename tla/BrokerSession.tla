---------------------------- MODULE BrokerSession ----------------------------
(* One connection to the broker, over WebSocket or over QUIC: the client            *)
(* (websocket.cpp, quic.cpp, broker_handshake.cpp) and the broker's end as the       *)
(* repository's own bridge plays it (tools/quic_bridge_mock.cpp), with the session   *)
(* port behind it.                                                                   *)
(*                                                                                   *)
(* A stream is a sequence of messages; a read takes any of its prefixes, so a close  *)
(* may come alone or on the heels of data.                                           *)
EXTENDS Integers, Sequences, SequencesExt, FiniteSets

CONSTANTS MaxDrawn,      \* bound: messages the session port draws
          MaxInput,      \* bound: messages the user sends
          Window         \* what the path holds of the client's bytes, in messages
ASSUME BrokerSessionAssumption ==
    /\ MaxDrawn \in Nat /\ MaxInput \in Nat /\ Window \in Nat \ {0}

VARIABLES
    kind,                  \* "wss" or "quic"
    verdict, token,        \* verify_broker_certificate()'s answer; the token this client has
    silent,                \* the far end takes the connection and says nothing
    to_broker, to_client,  \* the two directions of the stream, in flight
    where,                    \* connect() and the session loop: where the client is
    incoming, taken,       \* messages decoded and not yet read; those the session has read
    peer_closed, failure, ended, aborted,
    sent,                  \* what the client has written, as a history
    sending,               \* a send_all() waiting for room
    bridge, drawn, backend, backend_at

sessionFixed  == <<kind, verdict, token, silent>>
clientState   == <<where, incoming, taken, peer_closed, failure, ended, sent, sending>>
bridgeState   == <<bridge, drawn, backend, backend_at>>
brokerVars    == <<sessionFixed, to_broker, to_client, clientState, aborted, bridgeState>>

BrokerSessionInit ==
    /\ kind \in {"wss", "quic"} /\ verdict \in BOOLEAN /\ token \in {"none", "wrong", "right"}
    /\ silent \in BOOLEAN
    /\ to_broker = <<>> /\ to_client = <<>>
    /\ where = "idle" /\ incoming = 0 /\ taken = 0
    /\ peer_closed = FALSE /\ failure = "none" /\ ended = "none" /\ aborted = FALSE
    /\ sent = <<>> /\ sending = FALSE
    /\ bridge = "handshake" /\ drawn = 0 /\ backend = <<>> /\ backend_at = "open"

----------------------------------------------------------------------------
(* The client: connect(). *)

Fails(why) == where' = "over" /\ failure' = why
Keeps      == UNCHANGED <<incoming, taken, peer_closed, ended, sending>>

\* The token is asked for before the socket, and (QUIC) a cancel that came first wins.
Connects ==
    /\ where = "idle"
    /\ \/ token = "none" /\ Fails("missing_credential")
       \/ token # "none" /\ Fails(IF aborted THEN "cancelled" ELSE "other")
       \/ token # "none" /\ ~aborted /\ where' = "handshaking" /\ UNCHANGED failure
    /\ Keeps /\ UNCHANGED <<sessionFixed, to_broker, to_client, sent, aborted, bridgeState>>

\* Mutant: the request goes out with the handshake, the certificate is looked at later.
HandshakesEager ==
    /\ where = "handshaking" /\ where' = "trusted"
    /\ Keeps /\ UNCHANGED <<sessionFixed, to_broker, to_client, sent, failure, aborted, bridgeState>>

\* The handshake and then the certificate; it may also fail, or the certificate be refused.
HandshakeEnds ==
    \/ ~silent /\ verdict /\ ~aborted /\ where' = "trusted" /\ UNCHANGED failure
    \/ ~silent /\ ~verdict /\ Fails("untrusted")

\* With a far end that says nothing SSL_connect() over TCP waits for the abort.
tls_connect == kind = "wss" /\ (HandshakeEnds \/ ((silent => aborted) /\ Fails("other")))

\* QUIC's handshake has a deadline.
handshake == kind = "quic" /\ (HandshakeEnds \/ Fails("other"))

BeginsHandshake ==
    /\ where = "handshaking" /\ (tls_connect \/ handshake)
    /\ Keeps /\ UNCHANGED <<sessionFixed, to_broker, to_client, sent, aborted, bridgeState>>

\* upgrade() or open_stream(), and then RP_AUTHENTICATE, the first message of all.
SendsToken ==
    /\ where = "trusted"
    /\ \/ /\ where' = "authenticating" /\ UNCHANGED failure
          /\ to_broker' = Append(to_broker, "token") /\ sent' = Append(sent, "token")
       \/ Fails("other") /\ UNCHANGED <<to_broker, sent>>
    /\ Keeps /\ UNCHANGED <<sessionFixed, to_client, aborted, bridgeState>>

\* What a read of n messages leaves: WebSocket decodes frame after frame up to a close,
\* QUIC gives the bytes before the end and the end by itself afterwards.
Read(n) ==
    LET got == SubSeq(to_client, 1, n) IN
    /\ n \in 1 .. Len(to_client)
    /\ kind = "quic" => \A i \in 1 .. n : got[i] \in {"fin", "gone"} => n = 1
    /\ to_client' = SubSeq(to_client, n + 1, Len(to_client))

\* Where in it the messages are.
Data(n) == {i \in 1 .. n : to_client[i] \notin {"fin", "gone", "ping"}}
Closes(n) == {"fin", "gone"} \cap {to_client[i] : i \in 1 .. n}

\* A ping is answered where it stands in the stream.
Pongs(n) == [i \in 1 .. Cardinality({j \in 1 .. n : to_client[j] = "ping"}) |-> "ping"]

\* RP_AUTH_RESULT; session bytes behind it stay in incoming_, and it counts even when a
\* close followed it.
ReadsAnswer ==
    /\ where = "authenticating" /\ ~aborted
    /\ \E n \in 1 .. Len(to_client) :
         /\ Read(n)
         /\ \/ /\ Data(n) = {}
               /\ IF Closes(n) # {} THEN Fails("other") ELSE UNCHANGED <<where, failure>>
               /\ UNCHANGED <<incoming, peer_closed>>
            \/ \E i \in Data(n) :
                  /\ \A j \in Data(n) : i <= j
                  /\ IF to_client[i] = "accepted"
                     THEN /\ where' = "open" /\ incoming' = Cardinality(Data(n)) - 1
                          /\ peer_closed' = ("fin" \in Closes(n)) /\ UNCHANGED failure
                     ELSE Fails(to_client[i]) /\ UNCHANGED <<incoming, peer_closed>>
         /\ to_broker' = to_broker \o Pongs(n)
    /\ UNCHANGED <<sessionFixed, taken, ended, sent, sending, aborted, bridgeState>>

\* Mutant: only the abort ends the wait.
WaitsForAbort ==
    /\ where = "authenticating" /\ aborted /\ Fails("cancelled")
    /\ Keeps /\ UNCHANGED <<sessionFixed, to_broker, to_client, sent, aborted, bridgeState>>

\* Thirty seconds, or the abort.
GivesUp ==
    /\ where = "authenticating" /\ Fails(IF aborted THEN "cancelled" ELSE "other")
    /\ Keeps /\ UNCHANGED <<sessionFixed, to_broker, to_client, sent, aborted, bridgeState>>

----------------------------------------------------------------------------
(* The client: the open session. *)

SessionEnds(how) == ended' = how /\ where' = "over"

\* receive(): what is decoded goes first, unless the peer has closed.
ReceivesDecoded ==
    /\ where = "open" /\ ~sending /\ incoming # 0 /\ ~(kind = "wss" /\ peer_closed)
    /\ taken' = taken + incoming /\ incoming' = 0
    /\ UNCHANGED <<sessionFixed, to_broker, to_client, where, peer_closed, failure, ended, sent,
                   sending, aborted, bridgeState>>

ReceivesClosed ==
    /\ where = "open" /\ ~sending /\ kind = "wss" /\ peer_closed /\ SessionEnds("orderly")
    /\ UNCHANGED <<sessionFixed, to_broker, to_client, incoming, taken, peer_closed, failure,
                   sent, sending, aborted, bridgeState>>

\* Mutant: the end of the connection is looked at before the end of the stream.
ReceivesEndFirst ==
    /\ where = "open" /\ ~sending /\ incoming = 0 /\ Last(<<"none">> \o to_client) = "fin"
    /\ to_client' = <<>> /\ peer_closed' = TRUE /\ SessionEnds("orderly")
    /\ UNCHANGED <<sessionFixed, to_broker, incoming, taken, failure, sent, sending, aborted,
                   bridgeState>>

\* A close ends the call at once: what the same read brought before it stays behind.
ReadsSome ==
    /\ where = "open" /\ ~sending /\ incoming = 0 /\ ~(kind = "wss" /\ peer_closed)
    /\ \E n \in 1 .. Len(to_client) :
         /\ Read(n)
         /\ to_broker' = to_broker \o Pongs(n)
         /\ IF Closes(n) # {}
            THEN /\ incoming' = Cardinality(Data(n)) /\ peer_closed' = ("fin" \in Closes(n))
                 /\ SessionEnds(IF "fin" \in Closes(n) THEN "orderly" ELSE "error") /\ UNCHANGED taken
            ELSE taken' = taken + Cardinality(Data(n)) /\ UNCHANGED <<incoming, peer_closed, ended, where>>
    /\ UNCHANGED <<sessionFixed, failure, sent, sending, aborted, bridgeState>>

\* send_all() writes, or waits for room.
Sends ==
    /\ where = "open" /\ ~sending /\ ~(kind = "wss" /\ peer_closed)
    /\ Len(Tail(sent)) < MaxInput
    /\ IF Len(to_broker) < Window
       THEN /\ to_broker' = Append(to_broker, "input") /\ sent' = Append(sent, "input")
            /\ UNCHANGED sending
       ELSE sending' = TRUE /\ UNCHANGED <<to_broker, sent>>
    /\ UNCHANGED <<sessionFixed, to_client, where, incoming, taken, peer_closed, failure, ended,
                   aborted, bridgeState>>

SendGoesOn ==
    /\ sending /\ Len(to_broker) < Window
    /\ to_broker' = Append(to_broker, "input") /\ sent' = Append(sent, "input") /\ sending' = FALSE
    /\ UNCHANGED <<sessionFixed, to_client, where, incoming, taken, peer_closed, failure, ended,
                   aborted, bridgeState>>

\* Mutant: the send waits as long as it takes, as a blocking socket does.
SendWaits ==
    /\ sending /\ aborted /\ sending' = FALSE /\ SessionEnds("error")
    /\ UNCHANGED <<sessionFixed, to_broker, to_client, incoming, taken, peer_closed, failure,
                   sent, aborted, bridgeState>>

\* The connection goes; QUIC also has a deadline of ten seconds for each send.
SendFails ==
    /\ sending /\ (kind = "quic" \/ aborted \/ bridge = "closed")
    /\ sending' = FALSE /\ SessionEnds("error")
    /\ UNCHANGED <<sessionFixed, to_broker, to_client, incoming, taken, peer_closed, failure,
                   sent, aborted, bridgeState>>

\* The network, an abort() or the idle timeout end a receive(); the user ends the session.
Drops ==
    /\ where = "open" /\ ~sending /\ \E how \in {"error", "left"} : SessionEnds(how)
    /\ UNCHANGED <<sessionFixed, to_broker, to_client, incoming, taken, peer_closed, failure,
                   sent, sending, aborted, bridgeState>>

Aborts ==
    /\ ~aborted /\ where # "over" /\ aborted' = TRUE
    /\ UNCHANGED <<sessionFixed, to_broker, to_client, clientState, bridgeState>>

----------------------------------------------------------------------------
(* The broker's end: serve() and relay(). *)

BridgeTo(next) == bridge' = next /\ UNCHANGED <<sessionFixed, clientState, aborted>>

AcceptsStream ==
    /\ bridge = "handshake" /\ to_broker # <<>> /\ BridgeTo("authenticating")
    /\ UNCHANGED <<to_broker, to_client, drawn, backend, backend_at>>

\* Mutant: the session port is opened first and the token compared afterwards.
AuthenticatesLast ==
    /\ bridge = "authenticating" /\ to_broker # <<>>
    /\ to_broker' = Tail(to_broker) /\ backend' = <<"cookie">> /\ BridgeTo("relaying")
    /\ to_client' = Append(to_client, "accepted")
    /\ UNCHANGED <<drawn, backend_at>>

\* The whole message and the right token, or a denial; bytes behind it wait their turn.
authenticate ==
    /\ bridge = "authenticating" /\ to_broker # <<>>
    /\ to_broker' = Tail(to_broker)
    /\ IF Head(to_broker) = "token" /\ token = "right"
       THEN BridgeTo("authenticated") /\ UNCHANGED to_client
       ELSE to_client' = to_client \o <<"denied", "gone">> /\ BridgeTo("closed")
    /\ UNCHANGED <<drawn, backend, backend_at>>

\* The cookie is read, the session port connected and shown the cookie; only then is the
\* client told.
OpensSession ==
    /\ bridge = "authenticated"
    /\ \/ /\ backend' = <<"cookie">> /\ to_client' = Append(to_client, "accepted")
          /\ BridgeTo("relaying")
       \/ \E why \in {"no cookie", "no session"} : to_client' = to_client \o <<why, "gone">>
          /\ BridgeTo("closed") /\ UNCHANGED backend
    /\ UNCHANGED <<to_broker, drawn, backend_at>>

RelaysInput ==
    /\ bridge = "relaying" /\ to_broker # <<>>
    /\ to_broker' = Tail(to_broker)
    /\ backend' = IF Head(to_broker) = "ping" THEN backend ELSE Append(backend, Head(to_broker))
    /\ BridgeTo("relaying") /\ UNCHANGED <<to_client, drawn, backend_at>>

\* relay_outbound(): what the session port draws goes on in order.
RelaysDrawing ==
    /\ bridge = "relaying" /\ backend_at = "open" /\ drawn < MaxDrawn
    /\ drawn' = drawn + 1 /\ to_client' = Append(to_client, "drawing")
    /\ BridgeTo("relaying") /\ UNCHANGED <<to_broker, backend, backend_at>>

Pings ==
    /\ kind = "wss" /\ bridge = "relaying" /\ to_client = <<>> /\ to_broker = <<>>
    /\ drawn < MaxDrawn
    /\ to_client' = <<"ping">>
    /\ BridgeTo("relaying") /\ UNCHANGED <<to_broker, drawn, backend, backend_at>>

BackendEnds ==
    /\ bridge = "relaying" /\ backend_at = "open" /\ backend_at' \in {"closed", "failed"}
    /\ UNCHANGED <<sessionFixed, to_broker, to_client, clientState, aborted, bridge, drawn, backend>>

\* An orderly end is a FIN behind everything written; any other is a rapid close, which
\* overtakes what is under way.
BridgeCloses ==
    /\ bridge = "relaying" /\ (backend_at # "open" \/ where = "over")
    /\ to_client' = IF backend_at = "closed" THEN Append(to_client, "fin") ELSE <<"gone">>
    /\ BridgeTo("closed") /\ UNCHANGED <<to_broker, drawn, backend, backend_at>>

BrokerSessionDone == where = "over" /\ UNCHANGED brokerVars

ClientTurn ==
    \/ BeginsHandshake \/ SendsToken \/ ReadsAnswer \/ GivesUp
    \/ ReceivesDecoded \/ ReceivesClosed \/ ReadsSome \/ SendGoesOn \/ SendFails

BridgeTurn ==
    \/ AcceptsStream \/ authenticate \/ OpensSession \/ RelaysInput \/ RelaysDrawing
    \/ Pings \/ BackendEnds \/ BridgeCloses

BrokerSessionNext ==
    ClientTurn \/ BridgeTurn \/ Connects \/ Sends \/ Drops \/ Aborts \/ BrokerSessionDone

\* The client's deadlines pass; nothing is assumed of the broker.
BrokerSessionFairness == WF_brokerVars(ClientTurn)

BrokerSessionSpec ==
    BrokerSessionInit /\ [][BrokerSessionNext]_brokerVars /\ BrokerSessionFairness

----------------------------------------------------------------------------
(* Properties. *)

\* The token goes only to a broker whose certificate was trusted, ahead of everything
\* else; and the session port sees its cookie first, nothing of a client whose token is
\* not the right one, and of another what it sent behind the token, in that order.
ProxiedOnlyAfterProof ==
    /\ sent # <<>> => verdict /\ Head(sent) = "token"
    /\ backend # <<>> => Head(backend) = "cookie" /\ verdict /\ token = "right"
    /\ backend # <<>> => IsPrefix(Tail(backend), Tail(sent))

\* "A session that ends this way delivered every pixel it was ever going to deliver":
\* an orderly end is reported once all the drawing has been read.  Violated over
\* WebSocket by a close frame read together with the frames before it.
OrderlyMeansWhole == ended = "orderly" => taken = drawn

\* Over QUIC the end of the stream comes behind all of it.
OrderlyMeansWholeQuic == kind = "quic" => OrderlyMeansWhole

\* No send to a broker that does not read keeps the session loop for ever: over QUIC each
\* has its deadline.  (Over TCP a send waits for as long as the far end does.)
SendEnds == (sending /\ kind = "quic") ~> ~sending

\* A connect() that has begun comes to an end by itself over QUIC, and over either once
\* it is cancelled.  (Over TCP a far end that never answers the TLS handshake is waited
\* for until then.)
ConnectReturns ==
    (where \in {"handshaking", "trusted", "authenticating"} /\ (kind = "quic" \/ aborted))
        ~> (where \in {"open", "over"})

\* Both ways of the stream: nothing of a session is proxied before the proof, and over
\* QUIC nothing of it is missing at an orderly end.
BrokerStreamOrdered == ProxiedOnlyAfterProof /\ OrderlyMeansWholeQuic

\* No call of the transport keeps its caller for ever, where the code sees to it.
CallsReturn == SendEnds /\ ConnectReturns
=============================================================================
