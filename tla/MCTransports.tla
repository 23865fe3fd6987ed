---------------------------- MODULE MCTransports ----------------------------
(* Four independent components checked in one run: the socket, the store of known    *)
(* brokers, the broker's handshake and stream, and the fetching of fonts.  A         *)
(* behaviour is of one of them; the others stay in an initial state of theirs.       *)
EXTENDS TcpSocket, KnownBrokers, BrokerSession, FontFetch
CONSTANTS c1, c2, k1, f1
VARIABLE subject
vars == <<subject, socketVars, brokersVars, brokerVars, fontVars>>
Init ==
    /\ subject \in {"socket", "store", "session", "fonts"}
    /\ SocketInit /\ BrokersInit /\ BrokerSessionInit /\ FontInit
    /\ \A b \in Brokers : certificate[b] = k1
    /\ seed[c2] = NoCert
    /\ subject # "socket" => ~windows
    /\ subject # "store" =>
        /\ \A b \in Brokers : file[b] = NoCert
        /\ seed[c1] = NoCert
        /\ \A c \in Clients : ~policy[c].accept_new /\ ~policy[c].prompt
    /\ subject # "session" => kind = "wss" /\ ~verdict /\ token = "none" /\ ~silent
    /\ subject # "fonts" => ~shared /\ \A f \in Fonts : guest[f] = "right"
Next ==
    \/ subject = "socket" /\ SocketNext /\ UNCHANGED <<subject, brokersVars, brokerVars, fontVars>>
    \/ subject = "store" /\ BrokersNext /\ UNCHANGED <<subject, socketVars, brokerVars, fontVars>>
    \/ subject = "session" /\ BrokerSessionNext /\ UNCHANGED <<subject, socketVars, brokersVars, fontVars>>
    \/ subject = "fonts" /\ FontNext /\ UNCHANGED <<subject, socketVars, brokersVars, brokerVars>>
MCSpec == Init /\ [][Next]_vars /\ SocketFairness /\ BrokerSessionFairness /\ FontFairness
=============================================================================
