------------------------ MODULE DesktopController ------------------------
(* The connected desktop of src/src/desktop_session.cpp: one Session over however *)
(* many connections it takes.  DesktopController runs on the front end's event    *)
(* loop; a reconnect attempt runs on a worker thread which, through a ProfileLink,*)
(* resets and handshakes the desktop's own Session.  The server and the network   *)
(* may end the link at any step, the user may press anything between two polls.   *)
(*                                                                                *)
(* pc is where the front end's loop stands (sdl_main.cpp and x11_main.cpp run the *)
(* same loop over the controller):                                                *)
(*   start -> top -> poll -> events -> settle -> present -> top ... -> finish ->  *)
(*   ended, with "deferred" between a collected reconnect and the next "top".     *)
EXTENDS ReconnectPolicy

CONSTANTS
    FrontEnd,       \* which front end paints: "sdl" or "x11"
    Sizes,          \* display sizes the user or the window may ask for
    ValidSizes,     \* those valid_display_size() accepts
    NoSize,         \* no size: nothing deferred, nothing told
    ModifierMasks,  \* modifier masks; 0 is "nothing held"
    MaxRequests     \* bound: times the user presses the toolbar's Reconnect

ASSUME DesktopAssumption ==
    /\ FrontEnd \in {"sdl", "x11"}
    /\ ValidSizes \subseteq Sizes
    /\ NoSize \notin Sizes
    /\ 0 \in ModifierMasks
    /\ MaxRequests \in Nat

VARIABLES
    runs_handshake,   \* SessionLink::runs_handshake(): ProfileLink yes, OptionsLink no
    pc,               \* where the front end's loop stands
    live,             \* live_: a transport is connected and started
    connecting,       \* connecting_: an attempt runs on the worker
    established,      \* established_: this connection carried a session
    running,          \* running_
    schedule,         \* schedule_
    due,              \* the pending attempt's deadline has passed
    link,             \* the SessionLink's transport and what the server knows of us
    attempt,          \* the attempt on the worker thread
    session,          \* session_
    deferred_size,    \* deferred_size_
    last_modifiers,   \* last_modifiers_
    secure_attention, \* the shell offers Ctrl+Alt+Del
    dirty,            \* dirty_
    full,             \* expose_requested or full_redraw (x11_main.cpp)
    fits,             \* the front end has a picture of its window's size
    end,              \* end_
    quit,             \* the window was closed or the application told to quit
    \* History: what the properties compare the code with.
    chosen,           \* the last size asked for
    torn,             \* the frame shown was read while the worker was writing it
    requests,         \* Reconnects pressed so far
    font_ssh          \* the last connection's font fetch waits for an ssh that lives on

loopVars == <<pc, running, end, quit>>
linkVars == <<live, connecting, established, link, attempt, session, secure_attention>>
scheduleVars == <<schedule, due>>
inputVars == <<deferred_size, last_modifiers, chosen>>
paintVars == <<dirty, full, fits, torn>>
otherVars == <<runs_handshake, requests, font_ssh>>
vars == <<loopVars, linkVars, scheduleVars, inputVars, paintVars, otherVars>>

----------------------------------------------------------------------------
\* "up" carries messages; the others are how receive() finds it ended.
Ends == {"fin", "reset", "error"}

NoLink == [state |-> "none", forward |-> FALSE, size |-> NoSize, modifiers |-> 0]
Links == [state : {"none", "up"} \cup Ends, forward : BOOLEAN,
          size : Sizes \cup {NoSize}, modifiers : ModifierMasks]

Failures == {"connect_failed", "refused", "missing_credential"}
NoAttempt == [stage |-> "none", size |-> NoSize]

\* Waits of a worker that hear no cancel: on its way an answer to a question, which a
\* cancel may fail to wake, or a command that closed its output and lives on; the latter
\* again when the connect fetches fonts.
Unheard == {"asking", "fetching"}
Running == {"routing", "handshake", "answered"} \cup Unheard
Attempts == [stage : {"none", "ok"} \cup Running \cup Failures,
             size : Sizes \cup {NoSize}]
Done(a) == a.stage \in {"ok"} \cup Failures

\* The parts of Session the controller and the worker share.  "sender" says which
\* transport the sender callback captured: none, the worker's, the link's own, or
\* one that no longer exists.
Sessions == [messages : 0..1, server_closed : BOOLEAN, negotiated : BOOLEAN,
             sender : {"none", "attempt", "current", "stale"}, size : ValidSizes]

Reset(s) == [s EXCEPT !.messages = 0, !.server_closed = FALSE, !.negotiated = FALSE]
Orphaned(s) == IF s.sender = "none" THEN s ELSE [s EXCEPT !.sender = "stale"]

DesktopEnds == [status : {"ok", "failed"}, user_ended : BOOLEAN, refused_no_data : BOOLEAN]

Delivered(l) == l.state = "up"

----------------------------------------------------------------------------
\* teardown() cancels an attempt in flight and joins its worker: it goes on only when
\* the worker is through.  (What a cancelled worker still does is WorkerStep.)
Joined == attempt.stage \notin Running

\* The link's transport and the attempt are dropped together.  Callers also orphan the
\* session's sender.
Teardown == Joined /\ link' = NoLink /\ attempt' = NoAttempt

update_secure_attention ==
    secure_attention' = (live' /\ ~connecting' /\ session'.negotiated)

\* Mutant: the desktop goes on whatever the schedule says.
ConnectionEndedGoesOn(outcome, s, sched) ==
    /\ live' = FALSE
    /\ established' = FALSE
    /\ Teardown
    /\ session' = Orphaned(s)
    /\ last_modifiers' = 0
    /\ update_secure_attention
    /\ schedule' = ScheduleEnded(sched, outcome)
    /\ due' = FALSE
    /\ running' = running

\* Mutant: the shell is not told that the link is gone.
ConnectionEndedSilently(outcome, s, sched) ==
    /\ live' = FALSE
    /\ established' = FALSE
    /\ Teardown
    /\ session' = Orphaned(s)
    /\ last_modifiers' = 0
    /\ UNCHANGED secure_attention
    /\ schedule' = ScheduleEnded(sched, outcome)
    /\ due' = FALSE
    /\ running' = schedule'.pending

connection_ended(outcome, s, sched) ==
    /\ live' = FALSE
    /\ established' = FALSE
    /\ Teardown
    /\ session' = Orphaned(s)
    /\ last_modifiers' = 0
    /\ update_secure_attention
    /\ schedule' = ScheduleEnded(sched, outcome)
    /\ due' = FALSE
    /\ running' = schedule'.pending

\* The observations observe_end() gathers from the transport and the session.
Observed(s) ==
    [connected |-> TRUE, connect_failure |-> "none", message_count |-> s.messages,
     server_closed |-> s.server_closed, peer_closed |-> link.state = "fin",
     connection_reset |-> link.state = "reset", reached_deadline |-> FALSE,
     through_forward |-> link.forward]

\* start_connection()'s own result when the handshake could not be sent.
ResetOrRefused(state) ==
    classify_connection(
        [connected |-> TRUE, connect_failure |-> "none", message_count |-> 0,
         server_closed |-> FALSE, peer_closed |-> state = "fin",
         connection_reset |-> state = "reset", reached_deadline |-> FALSE,
         through_forward |-> FALSE])

observe_end(s, sched) ==
    LET result == Observed(s)
        orderly == result.peer_closed \/ result.server_closed
    IN  /\ connection_ended(classify_connection(result), s, sched)
        /\ end' = [end EXCEPT
                     !.status = IF orderly /\ s.messages > 0 THEN "ok" ELSE "failed",
                     !.refused_no_data = orderly /\ s.messages = 0]

\* Mutant: a session that was handshaken on the worker keeps the worker's sender.
StartConnectionUnbound(l, s) ==
    /\ live' = TRUE
    /\ established' = FALSE
    /\ link' = l
    /\ session' = s
    /\ end' = [end EXCEPT !.status = "ok", !.refused_no_data = FALSE]
    /\ update_secure_attention

\* start_connection() once the handshake is out: l is the transport now, s the
\* session its sender is bound to.
start_connection(l, s) ==
    /\ live' = TRUE
    /\ established' = FALSE
    /\ link' = l
    /\ session' = [s EXCEPT !.sender = "current"]
    /\ end' = [end EXCEPT !.status = "ok", !.refused_no_data = FALSE]
    /\ update_secure_attention

\* Mutant: any size is adopted.
AdoptAnySize(size) ==
    /\ session' = [session EXCEPT !.size = size]
    /\ link' = IF live /\ Delivered(link) THEN [link EXCEPT !.size = size] ELSE link
    /\ dirty' = TRUE /\ full' = TRUE

\* A size change: refused when invalid, otherwise adopted, and requested of the server
\* on a live connection.
adopt_display_size(size) ==
    IF size \notin ValidSizes \/ size = session.size
    THEN UNCHANGED <<session, link, dirty, full>>
    ELSE /\ session' = [session EXCEPT !.size = size]
         /\ link' = IF live /\ Delivered(link) THEN [link EXCEPT !.size = size] ELSE link
         /\ dirty' = TRUE /\ full' = TRUE

\* Mutant: a size is adopted although the worker has the session.
ApplyDisplaySizeAtOnce(size) ==
    adopt_display_size(size) /\ UNCHANGED deferred_size

\* It is deferred while the worker owns the session.
apply_display_size(size) ==
    \/ /\ connecting
       /\ deferred_size' = size
       /\ UNCHANGED <<session, link, dirty, full>>
    \/ /\ ~connecting
       /\ adopt_display_size(size)
       /\ UNCHANGED deferred_size

\* RP_MODIFIERS_CHANGED reaches the server only over a live connection.
SendModifiers(mask) ==
    link' = IF live /\ Delivered(link) THEN [link EXCEPT !.modifiers = mask] ELSE link

----------------------------------------------------------------------------
\* The first connection is up before the desktop is: a ProfileLink hands over the
\* Session its handshake already ran on, an OptionsLink's has nothing sent yet.
Init ==
    /\ runs_handshake \in BOOLEAN
    /\ pc = "start" /\ running = TRUE /\ quit = FALSE
    /\ live = FALSE /\ connecting = FALSE /\ established = FALSE
    /\ schedule = NewSchedule /\ due = FALSE
    /\ attempt = NoAttempt
    /\ \E size \in ValidSizes :
         \/ /\ runs_handshake
            /\ link \in [state : {"up"}, forward : BOOLEAN, size : {size}, modifiers : {0}]
            /\ session \in [messages : {1}, server_closed : BOOLEAN, negotiated : BOOLEAN,
                            sender : {"current"}, size : {size}]
         \/ /\ ~runs_handshake
            /\ link = [NoLink EXCEPT !.state = "up"]
            /\ session = [messages |-> 0, server_closed |-> FALSE, negotiated |-> FALSE,
                          sender |-> "none", size |-> size]
    /\ deferred_size = NoSize /\ last_modifiers = 0 /\ chosen = NoSize
    /\ secure_attention = FALSE
    /\ dirty = TRUE /\ full = TRUE /\ fits = FALSE /\ torn = FALSE
    /\ end = [status |-> "ok", user_ended |-> FALSE, refused_no_data |-> FALSE]
    /\ requests = 0 /\ font_ssh = FALSE

\* start(): the handshake of the first connection, unless the connect already ran
\* it.  A handshake that cannot be sent leaves no desktop to show: start() throws.
Start ==
    /\ pc = "start"
    /\ UNCHANGED <<running, quit, connecting, scheduleVars, inputVars, paintVars, otherVars>>
    /\ \/ /\ runs_handshake
          /\ start_connection(link, session)
          /\ pc' = "top"
          /\ UNCHANGED attempt
       \/ /\ ~runs_handshake /\ Delivered(link)
          /\ start_connection([link EXCEPT !.size = session.size], session)
          /\ pc' = "top"
          /\ UNCHANGED attempt
       \/ /\ ~runs_handshake /\ ~Delivered(link)
          /\ Teardown
          /\ session' = Orphaned(session)
          /\ pc' = "ended"
          /\ UNCHANGED <<live, established, secure_attention, end>>

----------------------------------------------------------------------------
\* The top of the loop: advance().

Top == pc = "top" /\ running /\ ~quit

\* take_result() lets go of the connection before: its font fetcher's worker is joined.
FetcherJoined == ~font_ssh

CollectFailure ==
    /\ Top /\ connecting /\ attempt.stage \in Failures /\ FetcherJoined
    /\ connecting' = FALSE
    /\ connection_ended(attempt.stage, session, schedule)
    /\ end' = [end EXCEPT !.status = "failed"]
    /\ dirty' = TRUE
    /\ UNCHANGED <<pc, quit, deferred_size, chosen, full, fits, torn, otherVars>>

\* The connection may have ended again before it is collected; an OptionsLink's
\* session is reset and its handshake sent now, which may then fail.
CollectSuccess ==
    /\ Top /\ connecting /\ attempt.stage = "ok" /\ FetcherJoined
    /\ connecting' = FALSE
    /\ \E state \in {"up"} \cup Ends, forward \in {FALSE, runs_handshake} :
         LET s == IF runs_handshake THEN session ELSE Reset(session)
             told == IF runs_handshake THEN attempt.size ELSE s.size
             l == [state |-> state, forward |-> forward, size |-> told, modifiers |-> 0]
         IN  \/ /\ start_connection(l, s)
                /\ attempt' = NoAttempt
                /\ UNCHANGED <<running, scheduleVars, last_modifiers>>
             \/ /\ ~runs_handshake /\ state # "up"
                /\ connection_ended(ResetOrRefused(state), s, schedule)
                /\ UNCHANGED end
    /\ dirty' = TRUE
    /\ full' = TRUE
    /\ pc' = "deferred"
    /\ UNCHANGED <<quit, deferred_size, chosen, fits, torn, otherVars>>

\* The tail of collect_reconnect(): the size chosen while the worker had the session.
ApplyDeferred ==
    /\ pc = "deferred"
    /\ IF deferred_size = NoSize
       THEN UNCHANGED <<session, link, dirty, full, deferred_size>>
       ELSE /\ deferred_size' = NoSize
            /\ adopt_display_size(deferred_size)
    /\ pc' = "top"
    /\ UNCHANGED <<running, end, quit, live, connecting, established, attempt,
                   secure_attention, scheduleVars, last_modifiers, chosen, fits, torn,
                   otherVars>>

\* attempt_reconnect(): begin_connect() tears down before it builds.
AttemptReconnect ==
    /\ Top /\ ~connecting /\ schedule.pending /\ due
    /\ schedule' = ScheduleAttempted(schedule)
    /\ due' = FALSE
    /\ connecting' = TRUE
    /\ link' = NoLink
    /\ attempt' \in [stage : {"routing"} \cup (IF runs_handshake THEN {} ELSE {"refused"}),
                     size : {NoSize}]
    /\ session' = Orphaned(session)
    /\ UNCHANGED <<loopVars, live, established, secure_attention, inputVars, paintVars,
                   otherVars>>

AdvanceNothing ==
    /\ Top
    /\ ~(connecting /\ Done(attempt))
    /\ ~(~connecting /\ schedule.pending /\ due)
    /\ pc' = "poll"
    /\ UNCHANGED <<running, end, quit, linkVars, scheduleVars, inputVars, paintVars, otherVars>>

UserQuit ==
    /\ pc = "top" /\ running /\ quit
    /\ end' = [end EXCEPT !.user_ended = TRUE]
    /\ running' = FALSE
    /\ UNCHANGED <<pc, quit, linkVars, scheduleVars, inputVars, paintVars, otherVars>>

\* Mutant: what is up or on its way is left behind.
FinishWithoutTeardown ==
    /\ pc = "top" /\ ~running
    /\ pc' = "ended"
    /\ UNCHANGED <<running, end, quit, linkVars, scheduleVars, inputVars, paintVars, otherVars>>

\* finish(), then the controller's destructor.  A worker that is still on its way is
\* waited for first.
Finish ==
    /\ pc = "top" /\ ~running
    /\ Teardown
    /\ session' = Orphaned(session)
    /\ pc' = "ended"
    /\ UNCHANGED <<running, end, quit, live, connecting, established, secure_attention,
                   scheduleVars, inputVars, paintVars, otherVars>>

Terminated == pc = "ended" /\ UNCHANGED vars

----------------------------------------------------------------------------
surface_changed == dirty /\ ~connecting

\* run_handshake() ingests on the worker: the server's drawing lands on the surface.
WorkerWrites == attempt.stage \in {"handshake", "answered"}

\* sdl_main.cpp uploads the surface when it changed or there is no texture; x11_main.cpp
\* copies it into its shadow when it changed or when everything is to be redrawn.
ReadsSurface == surface_changed \/ ~fits \/ (FrontEnd = "x11" /\ full)

\* A changed surface is presented by this turn of the loop; only x11_main.cpp may put
\* off a burst of drawing, and not over an expose or while it is idle.
MustPresent == surface_changed /\ (FrontEnd = "sdl" \/ pc = "poll" \/ full)

\* Mutant: presented() forgets that the worker has the surface.
PresentedAlways ==
    \/ /\ torn' = IF ReadsSurface THEN WorkerWrites ELSE torn
       /\ dirty' = FALSE
       /\ full' = FALSE /\ fits' = TRUE
    \/ ~MustPresent /\ UNCHANGED paintVars

\* Painting.  The shell, in which anything may have changed, may need it at any time.
PresentOrNot ==
    \/ /\ torn' = IF ReadsSurface THEN WorkerWrites ELSE torn
       /\ dirty' = (dirty /\ connecting)
       /\ full' = FALSE /\ fits' = TRUE
    \/ ~MustPresent /\ UNCHANGED paintVars

Present ==
    /\ pc = "present"
    /\ PresentOrNot
    /\ pc' = "top"
    /\ UNCHANGED <<running, end, quit, linkVars, scheduleVars, inputVars, otherVars>>

\* No transport: show the state, then block on events, the wake or the deadline.
IdleWait ==
    /\ pc = "poll" /\ ~live
    /\ PresentOrNot
    /\ pc' = "events"
    /\ UNCHANGED <<running, end, quit, linkVars, scheduleVars, inputVars, otherVars>>

----------------------------------------------------------------------------
\* receive(): one poll of a live connection.
Arrivals == {"nothing", "part", "drawing", "acknowledgement", "close"}

Ingest(s, arrival) ==
    CASE arrival \in {"nothing", "part"} -> s
      [] arrival = "drawing" -> [s EXCEPT !.messages = 1]
      [] arrival = "acknowledgement" -> [s EXCEPT !.messages = 1, !.negotiated = TRUE]
      [] arrival = "close" -> [s EXCEPT !.messages = 1, !.server_closed = TRUE]

\* Bytes that arrived before the peer's FIN are still read.
Receive(arrival) ==
    LET s == Ingest(session, arrival)
        answered == ~established /\ s.messages > 0
        sched == IF answered THEN ScheduleEstablished(schedule) ELSE schedule
    IN  /\ pc = "poll" /\ live
        /\ UNCHANGED <<quit, connecting, deferred_size, chosen, full, fits, torn, otherVars>>
        /\ \/ link.state = "up"
           \/ link.state = "fin" /\ arrival # "nothing"
        /\ \/ /\ s.server_closed
              /\ observe_end(s, sched)
              /\ dirty' = TRUE
              /\ pc' = "top"
           \/ /\ ~s.server_closed
              /\ session' = s
              /\ established' = (established \/ answered)
              /\ schedule' = sched
              /\ UNCHANGED <<live, link, attempt, due, running, end, last_modifiers>>
              /\ update_secure_attention
              /\ dirty' = (dirty \/ arrival # "nothing")
              /\ pc' = "events"

ReceiveEnd ==
    /\ pc = "poll" /\ live /\ link.state \in Ends
    /\ UNCHANGED <<quit, connecting, deferred_size, chosen, full, fits, torn, otherVars>>
    /\ observe_end(session, schedule)
    /\ dirty' = TRUE
    /\ pc' = "top"

\* A stream the framer or the segment decoder cannot follow: ingest() throws through
\* the event loop, which tears the link down on its way out.
ReceiveUndecodable ==
    /\ pc = "poll" /\ live /\ link.state \in {"up", "fin"}
    /\ Teardown
    /\ session' = Orphaned(session)
    /\ pc' = "ended"
    /\ UNCHANGED <<running, end, quit, live, connecting, established, secure_attention,
                   scheduleVars, inputVars, paintVars, otherVars>>

----------------------------------------------------------------------------
\* Window events, in any number, before after_events().

\* A key event first brings the server's modifiers up to date, then sends the key.
KeyEvent(mask) ==
    /\ pc = "events"
    /\ IF mask = last_modifiers THEN UNCHANGED link ELSE SendModifiers(mask)
    /\ last_modifiers' = mask
    /\ UNCHANGED <<loopVars, live, connecting, established, attempt, session,
                   secure_attention, scheduleVars, deferred_size, chosen, paintVars, otherVars>>

FocusLost ==
    /\ pc = "events"
    /\ last_modifiers' = 0
    /\ SendModifiers(0)
    /\ UNCHANGED <<loopVars, live, connecting, established, attempt, session,
                   secure_attention, scheduleVars, deferred_size, chosen, paintVars, otherVars>>

WindowExposed ==
    /\ pc = "events"
    /\ dirty' = TRUE
    /\ full' = TRUE
    /\ UNCHANGED <<loopVars, linkVars, scheduleVars, inputVars, fits, torn, otherVars>>

\* The desktop is scaled into the window: sdl_main.cpp's texture serves any size of it,
\* x11_main.cpp must compose the whole window again.
WindowResized ==
    /\ pc = "events"
    /\ dirty' = TRUE
    /\ fits' = (fits /\ FrontEnd = "sdl")
    /\ UNCHANGED <<loopVars, linkVars, scheduleVars, inputVars, full, torn, otherVars>>

CloseWindow ==
    /\ pc = "events"
    /\ quit' = TRUE
    /\ UNCHANGED <<pc, running, end, linkVars, scheduleVars, inputVars, paintVars, otherVars>>

----------------------------------------------------------------------------
\* after_events(): the toolbar's action, then a settled resize.

\* Repaint, statistics and Ctrl+Alt+Del change nothing here; full screen repaints.
ActNone ==
    /\ pc = "events" /\ pc' = "settle"
    /\ dirty' \in {dirty, TRUE}
    /\ UNCHANGED <<running, end, quit, linkVars, scheduleVars, inputVars, full, fits, torn,
                   otherVars>>

\* A chord is sent between its own modifiers and the ones held.
ActShortcut ==
    /\ pc = "events" /\ pc' = "settle"
    /\ SendModifiers(last_modifiers)
    /\ UNCHANGED <<running, end, quit, live, connecting, established, attempt, session,
                   secure_attention, scheduleVars, inputVars, paintVars, otherVars>>

ActDisconnect ==
    /\ pc = "events" /\ pc' = "settle"
    /\ end' = [end EXCEPT !.user_ended = TRUE]
    /\ running' = FALSE
    /\ UNCHANGED <<quit, linkVars, scheduleVars, inputVars, paintVars, otherVars>>

\* Mutant: only a connection that is up is torn down first.
ActReconnectOverAttempt ==
    /\ pc = "events"
    /\ requests < MaxRequests
    /\ requests' = requests + 1
    /\ live' = FALSE /\ connecting' = FALSE /\ established' = FALSE
    /\ IF live THEN pc' = "joining" /\ UNCHANGED scheduleVars
       ELSE pc' = "settle" /\ schedule' = ScheduleRequested(schedule) /\ due' = TRUE
    /\ UNCHANGED <<runs_handshake, font_ssh, running, end, quit, link, attempt, session,
                   secure_attention, inputVars, paintVars>>

\* Reconnect: whatever is up or on its way is torn down first; a fresh attempt is due
\* now.
ActReconnect ==
    /\ pc = "events"
    /\ requests < MaxRequests
    /\ requests' = requests + 1
    /\ IF live \/ connecting
       THEN /\ live' = FALSE /\ connecting' = FALSE /\ established' = FALSE
            /\ pc' = "joining"
            /\ UNCHANGED scheduleVars
       ELSE /\ UNCHANGED <<live, connecting, established>>
            /\ pc' = "settle"
            /\ schedule' = ScheduleRequested(schedule)
            /\ due' = TRUE
    /\ UNCHANGED <<runs_handshake, font_ssh, running, end, quit, link, attempt, session,
                   secure_attention, inputVars, paintVars>>

\* teardown() has returned.
ReconnectTornDown ==
    /\ pc = "joining" /\ pc' = "settle"
    /\ UNCHANGED <<live, connecting, established>>
    /\ Teardown
    /\ session' = Orphaned(session)
    /\ update_secure_attention
    /\ dirty' = TRUE
    /\ schedule' = ScheduleRequested(schedule)
    /\ due' = TRUE
    /\ UNCHANGED <<running, end, quit, inputVars, full, fits, torn, otherVars>>

ActDisplaySize(size) ==
    /\ pc = "events" /\ pc' = "settle"
    /\ apply_display_size(size)
    /\ chosen' = size
    /\ UNCHANGED <<running, end, quit, live, connecting, established, attempt,
                   secure_attention, scheduleVars, last_modifiers, fits, torn, otherVars>>

\* Fit to window: the settler may hand over a size other than the desktop's.
Settle ==
    /\ pc = "settle" /\ pc' = "present"
    /\ \/ \E size \in Sizes \ {session.size} :
            apply_display_size(size) /\ chosen' = size
       \/ UNCHANGED <<session, link, dirty, full, deferred_size, chosen>>
    /\ UNCHANGED <<running, end, quit, live, connecting, established, attempt,
                   secure_attention, scheduleVars, last_modifiers, fits, torn, otherVars>>

----------------------------------------------------------------------------
\* The worker of an attempt, and the world outside the process.

OnRoute == attempt.stage \in {"routing", "asking"}

\* A question or a command on the way: no cancel need end the wait.
WorkerAsks ==
    /\ attempt.stage = "routing"
    /\ attempt' = [attempt EXCEPT !.stage = "asking"]
    /\ UNCHANGED session

\* The route is up and the handshake begins on the desktop's own Session.
WorkerHandshakes ==
    /\ runs_handshake /\ OnRoute
    /\ session' = [Reset(session) EXCEPT !.sender = "attempt"]
    /\ attempt' = [stage |-> "handshake", size |-> session.size]

\* Messages before app_server's answer: they may end the handshake.
WorkerHears ==
    /\ attempt.stage = "handshake"
    /\ \E closed \in BOOLEAN :
         session' = [session EXCEPT !.messages = 1, !.server_closed = closed]
    /\ UNCHANGED attempt

\* RP_INIT_CONNECTION came back and RP_UPDATE_DISPLAY_MODE went out.
WorkerAnswered ==
    /\ attempt.stage = "handshake"
    /\ \E closed, negotiated \in BOOLEAN :
         session' = [session EXCEPT !.messages = 1, !.server_closed = closed,
                                    !.negotiated = negotiated]
    /\ attempt' = [stage |-> "answered", size |-> session.size]

\* The font replay behind the answer may still acknowledge or close.
FontReplay ==
    /\ attempt.stage = "answered"
    /\ \E closed, negotiated \in BOOLEAN :
         session' = [session EXCEPT !.server_closed = @ \/ closed,
                                    !.negotiated = @ \/ negotiated]

\* The fonts the replay named are fetched over ssh.
WorkerFetches ==
    /\ FontReplay
    /\ attempt' = [attempt EXCEPT !.stage = "fetching"]

WorkerDone ==
    /\ \/ FontReplay
       \/ attempt.stage = "fetching" /\ UNCHANGED session
       \/ ~runs_handshake /\ OnRoute /\ UNCHANGED session
    /\ attempt' = [attempt EXCEPT !.stage = "ok"]

WorkerFails ==
    /\ attempt.stage \in Running
    /\ attempt' \in [stage : Failures, size : {NoSize}]
    /\ session' = IF OnRoute THEN session ELSE Orphaned(session)

WorkerStep ==
    /\ \/ WorkerAsks \/ WorkerHandshakes \/ WorkerHears \/ WorkerAnswered
       \/ WorkerFetches \/ WorkerDone \/ WorkerFails
    /\ UNCHANGED <<loopVars, live, connecting, established, link, secure_attention,
                   scheduleVars, inputVars, paintVars, otherVars>>

\* While a connection is up its fonts are fetched in the background; the ssh that does it
\* may close its output and live on, and is then waited for without a bound.
FontSshLingers ==
    /\ runs_handshake /\ live /\ ~font_ssh
    /\ font_ssh' = TRUE
    /\ UNCHANGED <<loopVars, linkVars, scheduleVars, inputVars, paintVars, runs_handshake,
                   requests>>

FontSshExits ==
    /\ font_ssh
    /\ font_ssh' = FALSE
    /\ UNCHANGED <<loopVars, linkVars, scheduleVars, inputVars, paintVars, runs_handshake,
                   requests>>

LinkEnds ==
    /\ link.state = "up"
    /\ \E state \in Ends : link' = [link EXCEPT !.state = state]
    /\ UNCHANGED <<loopVars, live, connecting, established, attempt, session,
                   secure_attention, scheduleVars, inputVars, paintVars, otherVars>>

DeadlinePasses ==
    /\ schedule.pending /\ ~due
    /\ due' = TRUE
    /\ UNCHANGED <<loopVars, linkVars, schedule, inputVars, paintVars, otherVars>>

----------------------------------------------------------------------------
AfterEvents ==
    \/ ActNone \/ ActShortcut \/ ActDisconnect \/ ActReconnect
    \/ \E size \in Sizes : ActDisplaySize(size)

LoopStep ==
    \/ Start \/ CollectFailure \/ CollectSuccess \/ ApplyDeferred \/ AttemptReconnect
    \/ AdvanceNothing \/ UserQuit \/ Finish
    \/ IdleWait \/ ReceiveEnd \/ ReceiveUndecodable
    \/ \E arrival \in Arrivals : Receive(arrival)
    \/ AfterEvents \/ ReconnectTornDown \/ Settle \/ Present

WindowEvent ==
    \/ \E mask \in ModifierMasks : KeyEvent(mask)
    \/ FocusLost \/ WindowExposed \/ WindowResized \/ CloseWindow

Next ==
    \/ LoopStep \/ WindowEvent \/ WorkerStep \/ LinkEnds \/ DeadlinePasses
    \/ FontSshLingers \/ FontSshExits \/ Terminated

Spec == Init /\ [][Next]_vars

\* The loop turns wherever it does not wait for a worker (its own waits are bounded and
\* woken), every wait of an attempt is bounded but those that hear no cancel, and time
\* passes.  Nothing is assumed of the user, the server, or a command that lives on.
FairSpec ==
    Spec /\ WF_vars(LoopStep)
         /\ WF_vars(WorkerStep /\ attempt.stage \notin Unheard /\ attempt' # attempt)
         /\ WF_vars(DeadlinePasses)
----------------------------------------------------------------------------
\* Properties.

\* Every variable holds a value of the type its field has.
TypeOK ==
    /\ runs_handshake \in BOOLEAN
    /\ pc \in {"start", "top", "deferred", "poll", "events", "joining", "settle",
            "present", "ended"}
    /\ live \in BOOLEAN /\ connecting \in BOOLEAN /\ established \in BOOLEAN
    /\ running \in BOOLEAN /\ quit \in BOOLEAN
    /\ schedule \in ReconnectSchedule /\ due \in BOOLEAN
    /\ link \in Links /\ attempt \in Attempts /\ session \in Sessions
    /\ deferred_size \in Sizes \cup {NoSize} /\ chosen \in Sizes \cup {NoSize}
    /\ last_modifiers \in ModifierMasks
    /\ secure_attention \in BOOLEAN
    /\ dirty \in BOOLEAN /\ full \in BOOLEAN /\ fits \in BOOLEAN /\ torn \in BOOLEAN
    /\ end \in DesktopEnds
    /\ requests \in 0..MaxRequests /\ font_ssh \in BOOLEAN

\* A running desktop is in exactly one phase -- connected, connecting, or waiting for
\* a scheduled attempt -- so it is never left with nothing to bring it back (the
\* "lost" branch of idle_wait_ms) and never builds a connection next to another.
OnePhase ==
    running /\ pc \notin {"start", "joining", "ended"} =>
        \/ live /\ ~connecting /\ ~schedule.pending
        \/ ~live /\ connecting /\ ~schedule.pending
        \/ ~live /\ ~connecting /\ schedule.pending

\* begin_connect() always follows teardown(): while a worker builds a connection the
\* old transport (and the ssh forward under it) is gone, and nobody but the
\* connecting phase, or the join that ends it, has a worker.
OneSubstrate ==
    /\ attempt.stage # "none" => (connecting \/ pc = "joining") /\ link.state = "none"
    /\ connecting /\ pc # "ended" => attempt.stage # "none"

\* A live connection's Session sends through the link's own transport: the sender
\* never refers to a transport teardown() destroyed or the worker still owns.
SenderIsCurrent ==
    /\ live /\ pc # "ended" => session.sender = "current"
    /\ session.sender = "current" => link.state # "none"
    /\ session.sender = "attempt" =>
          attempt.stage \in {"handshake", "answered", "fetching", "ok"}

\* Whatever the order of size changes, outages and deferred sizes, the server of a
\* live connection was told the size the canvas has.
ServerKnowsSize == live /\ Delivered(link) => link.size = session.size

\* Ctrl+Alt+Del is offered exactly while a live connection's server acknowledged it:
\* update_secure_attention() is called wherever either can change.
SecureAttentionTracksLink ==
    pc \notin {"start", "joining", "ended"} => (secure_attention <=> live /\ session.negotiated)

\* A pending attempt has budget left, or the user asked for it.
PendingWithinBudget ==
    schedule.pending =>
        \/ schedule.attempts = 0
        \/ Enabled /\ schedule.attempts < MaxAttempts

\* The controller's pieces agree wherever the loop stands: connecting_, the schedule, the
\* link, the worker's attempt, the session's sender and size, and what the shell says.
ControllerConsistent ==
    /\ TypeOK /\ OnePhase /\ OneSubstrate /\ SenderIsCurrent
    /\ ServerKnowsSize /\ SecureAttentionTracksLink /\ PendingWithinBudget

\* From the start of an attempt to the end of its worker nobody else changes the session,
\* not even a loop that has cancelled it: it gets the session back by the join.
SessionLeftToWorker ==
    [][runs_handshake /\ attempt.stage \in Running /\ session' # session => WorkerStep]_vars

\* The server sent this client away: RP_CLOSE_CONNECTION in band, or the reset that
\* is app_server's eviction.
SentAway ==
    \/ session'.server_closed
    \/ link.state = "reset" /\ ~(link.forward /\ session'.messages = 0)

\* A client that was sent away does not come back by itself: it would evict its
\* successor in a loop.
RefusalIsFinal ==
    [][pc = "poll" /\ live /\ ~live' /\ SentAway => ~running']_vars

\* The size waiting for the worker to hand the session back is the last one asked for.
DeferredIsLatest == deferred_size # NoSize => deferred_size = chosen

\* The server of a live connection knows the modifiers held locally.
ModifiersInSync == live /\ Delivered(link) => link.modifiers = last_modifiers

\* No frame is read from the surface while the reconnect's worker is writing it: "the
\* front end must not read the surface".  Violated: see the findings.
NoTornFrame == ~torn

\* A frame that was read while the worker was drawing into it does not stay: the surface
\* is still marked for the present that follows the attempt.
TornIsRepainted == torn => dirty

\* What the loop or an outage waits for when it hears nothing: a worker in a wait without
\* a bound, or the font fetcher the last connection left behind.
WaitsUnheard ==
    \/ attempt.stage \in Unheard
    \/ font_ssh /\ connecting /\ Done(attempt)

\* Every outage ends, connected again or with the desktop over, or its attempt is in one
\* of the waits that nothing bounds, for ever.
OutageEnds == (connecting \/ schedule.pending) ~> (live \/ ~running \/ []WaitsUnheard)

\* Closing the window or Disconnect ends the desktop, with nothing left up or on its
\* way; the only thing that can keep it is the join of a worker, or of the font fetcher,
\* in one of those waits.
Released == pc = "ended" /\ link.state = "none" /\ attempt.stage = "none"
JoinHangs ==
    /\ WaitsUnheard
    /\ pc = "joining" \/ (pc = "top" /\ (~running \/ Done(attempt)))
QuitReleases == (quit \/ ~running) ~> (Released \/ []JoinHangs)

\* "Bounded: cancel wakes every wait in it", says the toolbar's Reconnect of its teardown.
\* Violated by a worker in one of those waits.
TeardownBounded == (pc = "joining") ~> (pc = "settle")

\* The desktop implements the promise about outages.
OutagePhase ==
    IF ~running \/ pc = "ended" THEN "over"
    ELSE IF live \/ pc = "start" THEN "up" ELSE "down"
AttemptBudget == IF Enabled /\ MaxAttempts > 0 THEN MaxAttempts ELSE 1

O == INSTANCE Outage WITH Budget <- AttemptBudget, phase <- OutagePhase,
                          tries <- schedule.attempts
OutagePromise == O!Spec
============================================================================
