------------------------------ MODULE TcpSocket ------------------------------
(* The blocking TCP socket (tcp_socket.cpp): one thread connects through the        *)
(* addresses a name resolved to, reads and closes; another may abort() at any        *)
(* moment.  Descriptor numbers are the kernel's: a closed one is handed to whoever   *)
(* opens next, in this object or anywhere else in the process.                       *)
EXTENDS Naturals

CONSTANTS Descriptors,     \* the numbers the kernel has to give
          MaxAddresses,    \* how many addresses a name resolves to
          MaxConnects      \* bound: how often the owner connects anew

None == "no descriptor"

ASSUME SocketAssumption ==
    MaxAddresses \in Nat /\ MaxConnects \in Nat /\ None \notin Descriptors

VARIABLES
    windows,
    holder,               \* whose each descriptor is: "free", "ours", "theirs"
    shut,                 \* the descriptors shutdown() has reached
    socket_, aborted_, peer_closed_, connection_reset_,
    at, candidate, left,  \* connect(): how far, with which descriptor, addresses to go
    connects, result

socketOwner == <<at, candidate, left, connects, result>>
socketEnd   == <<peer_closed_, connection_reset_>>
socketVars  == <<windows, holder, shut, socket_, aborted_, socketEnd, socketOwner>>

SocketInit ==
    /\ windows \in BOOLEAN
    /\ holder = [d \in Descriptors |-> "free"] /\ shut = {}
    /\ socket_ = None /\ aborted_ = FALSE
    /\ peer_closed_ = FALSE /\ connection_reset_ = FALSE
    /\ at = "idle" /\ candidate = None /\ left = 0 /\ connects = 0 /\ result = "none"

SocketTypeOK ==
    /\ holder \in [Descriptors -> {"free", "ours", "theirs"}] /\ shut \subseteq Descriptors
    /\ socket_ \in Descriptors \cup {None} /\ candidate \in Descriptors \cup {None}
    /\ at \in {"idle", "resolved", "opened", "published", "connecting", "connected", "refused"}
    /\ left \in 0 .. MaxAddresses
    /\ result \in {"none", "connected", "cancelled", "failed", "closed"}

\* close(2): the number is free again, and its next owner finds it open.
Released(d) ==
    /\ holder' = IF d = None THEN holder ELSE [holder EXCEPT ![d] = "free"]
    /\ shut' = shut \ {d}

Ends(how) == at' = "idle" /\ candidate' = None /\ result' = how /\ UNCHANGED <<left, connects>>

----------------------------------------------------------------------------
(* The owner. *)

\* connect() closes what it had and forgets how that ended; getaddrinfo() may find nothing.
Resolves ==
    /\ at = "idle" /\ connects < MaxConnects
    /\ connects' = connects + 1
    /\ Released(socket_) /\ socket_' = None
    /\ peer_closed_' = FALSE /\ connection_reset_' = FALSE
    /\ at' = "resolved" /\ left' \in 0 .. MaxAddresses
    /\ result' = "none" /\ UNCHANGED <<windows, aborted_, candidate>>

OpensCandidate ==
    /\ at = "resolved" /\ left > 0 /\ left' = left - 1
    /\ \/ \E d \in Descriptors :
            /\ holder[d] = "free" /\ holder' = [holder EXCEPT ![d] = "ours"]
            /\ candidate' = d /\ at' = "opened"
       \/ UNCHANGED <<holder, candidate, at>>                \* socket() failed
    /\ UNCHANGED <<windows, shut, socket_, aborted_, socketEnd, connects, result>>

\* Mutant: published without asking whether abort() came first.
PublishesAnyway ==
    /\ at = "opened" /\ at' = "published" /\ socket_' = candidate
    /\ UNCHANGED <<windows, holder, shut, aborted_, socketEnd, candidate, left, connects, result>>

\* Under the mutex: from here on abort() reaches it, and an abort() before wins.
Publishes ==
    /\ at = "opened"
    /\ \/ aborted_ /\ Released(candidate) /\ Ends("cancelled") /\ UNCHANGED socket_
       \/ ~aborted_ /\ at' = "published" /\ socket_' = candidate
          /\ UNCHANGED <<holder, shut, candidate, left, connects, result>>
    /\ UNCHANGED <<windows, aborted_, socketEnd>>

Begins ==
    /\ at = "published" /\ at' = "connecting"
    /\ UNCHANGED <<windows, holder, shut, socket_, aborted_, socketEnd, candidate, left,
                   connects, result>>

\* The peer, the kernel or the ten seconds decide; a descriptor shut before the call may
\* connect all the same, one shut or closed during it does not.
connect_bounded ==
    /\ at = "connecting"
    /\ \/ candidate \notin shut /\ holder[candidate] = "ours" /\ at' = "connected"
       \/ at' = "refused"
    /\ UNCHANGED <<windows, holder, shut, socket_, aborted_, socketEnd, candidate, left,
                   connects, result>>
ShutTooEarly ==
    /\ at = "published" /\ candidate \in shut /\ at' = "connected"
    /\ UNCHANGED <<windows, holder, shut, socket_, aborted_, socketEnd, candidate, left,
                   connects, result>>

\* Mutant: a candidate that connected is taken, cancelled or not.
TakesAnyway ==
    /\ at = "connected" /\ Ends("connected")
    /\ UNCHANGED <<windows, holder, shut, socket_, aborted_, socketEnd>>

\* Connected, and asked once more under the mutex.
Connected ==
    /\ at = "connected"
    /\ Ends(IF aborted_ THEN "cancelled" ELSE "connected")
    /\ UNCHANGED <<windows, holder, shut, socket_, aborted_, socketEnd>>

\* Windows compares first: abort() may have closed it, and the number may be another's.
Refused ==
    /\ at = "refused"
    /\ Released(IF windows /\ socket_ # candidate THEN None ELSE candidate)
    /\ socket_' = None
    /\ IF aborted_ THEN Ends("cancelled")
       ELSE at' = "resolved" /\ candidate' = None /\ UNCHANGED <<left, connects, result>>
    /\ UNCHANGED <<windows, aborted_, socketEnd>>

Exhausted ==
    /\ at = "resolved" /\ left = 0 /\ Ends("failed")
    /\ UNCHANGED <<windows, holder, shut, socket_, aborted_, socketEnd>>

\* receive(): data and silence change nothing here; an end says which end it was.  A
\* descriptor this side shut down reads as an orderly end too.
Receives ==
    /\ at = "idle" /\ result = "connected"
    /\ \/ peer_closed_' = TRUE /\ UNCHANGED connection_reset_
       \/ socket_ \notin shut /\ connection_reset_' \in BOOLEAN /\ UNCHANGED peer_closed_
    /\ UNCHANGED <<windows, holder, shut, socket_, aborted_, socketOwner>>

SocketCloses ==
    /\ at = "idle" /\ socket_ # None
    /\ Released(socket_) /\ socket_' = None /\ result' = "closed"
    /\ UNCHANGED <<windows, aborted_, socketEnd, at, candidate, left, connects>>

----------------------------------------------------------------------------
(* The others. *)

\* Mutant: closing instead of shutting down, as close() does.
AbortCloses ==
    /\ ~aborted_ /\ aborted_' = TRUE
    /\ Released(socket_) /\ socket_' = None
    /\ UNCHANGED <<windows, socketEnd, socketOwner>>

\* abort(): shut down, not closed; Windows closes.
Abort ==
    /\ ~aborted_ /\ aborted_' = TRUE
    /\ IF windows THEN Released(socket_) /\ socket_' = None
       ELSE shut' = shut \cup ({socket_} \ {None}) /\ UNCHANGED <<holder, socket_>>
    /\ UNCHANGED <<windows, socketEnd, socketOwner>>

\* Any other part of the process opens and closes descriptors of its own.
SomeoneElse ==
    /\ \E d \in Descriptors :
         \/ holder[d] = "free" /\ holder' = [holder EXCEPT ![d] = "theirs"]
         \/ holder[d] = "theirs" /\ holder' = [holder EXCEPT ![d] = "free"]
    /\ UNCHANGED <<windows, shut, socket_, aborted_, socketEnd, socketOwner>>

ConnectStep ==
    \/ OpensCandidate \/ Publishes \/ Begins \/ connect_bounded \/ ShutTooEarly
    \/ Connected \/ Refused \/ Exhausted

SocketNext ==
    ConnectStep \/ Resolves \/ Receives \/ SocketCloses \/ Abort \/ SomeoneElse

SocketFairness == WF_socketVars(ConnectStep)

SocketSpec == SocketInit /\ [][SocketNext]_socketVars /\ SocketFairness

----------------------------------------------------------------------------
(* Properties. *)

\* No call names a descriptor that is someone else's by now: what connect() works on and
\* what abort() and close() would act on is this socket's.  On Windows abort() closes, and
\* only what socket_ holds is safe.
ItsOwnDescriptor ==
    /\ socket_ # None => holder[socket_] = "ours"
    /\ candidate # None /\ ~windows => holder[candidate] = "ours"

\* Nothing outlives an abort(): a connect() that says yes afterwards has a descriptor that
\* was shut down behind it, and no later address is tried.
AbortIsFinal ==
    [][aborted_ => /\ socket_' \in {socket_, None}
                   /\ result' = "connected" => result = "connected"]_socketVars

\* abort() from another thread: final, and never at a descriptor that is someone else's.
AbortIsSafe == [](SocketTypeOK /\ ItsOwnDescriptor) /\ AbortIsFinal
============================================================================
