--------------------- MODULE DesktopControllerProofs ---------------------
(* The safety of the connected desktop, for every configuration: what each       *)
(* operator of DesktopController returns or leaves behind, that TypeOK is an     *)
(* invariant, the inductive invariant Inv, the properties that follow from it,   *)
(* the action properties, and that the desktop implements Outage.                *)
EXTENDS DesktopController, TLAPS

\* What the module assumes of its constants.
LEMMA ConstantTypes ==
    /\ Enabled \in BOOLEAN /\ MaxAttempts \in Nat
    /\ ValidSizes \subseteq Sizes /\ NoSize \notin Sizes
    /\ 0 \in ModifierMasks /\ MaxRequests \in Nat
BY ConfigAssumption, DesktopAssumption DEF ConfigAssumption, DesktopAssumption

----------------------------------------------------------------------------
\* What the operators return.

\* classify_connection() always names an outcome.
LEMMA ClassifyType ==
    ASSUME NEW result \in ConnectionResult
    PROVE  classify_connection(result) \in ConnectionOutcome
BY DEF classify_connection, NeverConnected, ResetOutcome, ConnectionOutcome,
    ConnectionResult, ConnectFailure

\* The operations of ReconnectSchedule keep its type.
LEMMA ScheduleEndedType ==
    ASSUME NEW s \in ReconnectSchedule, NEW outcome \in ConnectionOutcome
    PROVE  ScheduleEnded(s, outcome) \in ReconnectSchedule
BY ConstantTypes DEF ScheduleEnded, ReconnectSchedule, should_retry, outcome_is_retriable

\* The same of the operations that need no outcome.
LEMMA ScheduleTypes ==
    ASSUME NEW s \in ReconnectSchedule
    PROVE  /\ ScheduleRequested(s) \in ReconnectSchedule
           /\ ScheduleAttempted(s) \in ReconnectSchedule
           /\ ScheduleEstablished(s) \in ReconnectSchedule
<1>2. ScheduleRequested(s) \in ReconnectSchedule
  <2>1. [s EXCEPT !.attempts = 0] \in ReconnectSchedule
    BY DEF ReconnectSchedule
  <2> QED
    BY <2>1 DEF ScheduleRequested, ReconnectSchedule
<1>3. ScheduleAttempted(s) \in ReconnectSchedule
  <2> s.attempts \in Nat
    BY DEF ReconnectSchedule
  <2>1. s.attempts + 1 \in Nat
    OBVIOUS
  <2>4. [s EXCEPT !.pending = FALSE] \in ReconnectSchedule
    BY DEF ReconnectSchedule
  <2>2. \A t \in ReconnectSchedule : \A n \in Nat : [t EXCEPT !.attempts = n] \in ReconnectSchedule
    BY DEF ReconnectSchedule
  <2>3. ScheduleAttempted(s) = [[s EXCEPT !.pending = FALSE] EXCEPT !.attempts = s.attempts + 1]
    BY DEF ScheduleAttempted, ReconnectSchedule
  <2> QED
    BY <2>1, <2>2, <2>3, <2>4
<1>4. ScheduleEstablished(s) \in ReconnectSchedule
  <2>1. [s EXCEPT !.attempts = 0] \in ReconnectSchedule
    BY DEF ReconnectSchedule
  <2> QED
    BY <2>1 DEF ScheduleEstablished, ReconnectSchedule
<1> QED
  BY <1>2, <1>3, <1>4

\* Every way the controller and the worker change a Session's fields.
LEMMA SessionTypes ==
    ASSUME NEW s \in Sessions, NEW closed \in BOOLEAN, NEW negotiated \in BOOLEAN
    PROVE  /\ Orphaned(s) \in Sessions
           /\ Reset(s) \in Sessions
           /\ [s EXCEPT !.messages = 1] \in Sessions
           /\ [s EXCEPT !.messages = 1, !.server_closed = closed] \in Sessions
           /\ [s EXCEPT !.messages = 1, !.negotiated = negotiated] \in Sessions
           /\ [s EXCEPT !.server_closed = closed, !.negotiated = negotiated] \in Sessions
           /\ [s EXCEPT !.messages = 1, !.server_closed = closed,
                        !.negotiated = negotiated] \in Sessions
<1> DEFINE zero == [s EXCEPT !.messages = 0]
           one  == [s EXCEPT !.messages = 1]
<1>1. zero \in Sessions /\ one \in Sessions
  BY DEF Sessions
<1>2. Orphaned(s) \in Sessions
  BY DEF Orphaned, Sessions
<1>3. \A t \in Sessions : \A c, n \in BOOLEAN :
        /\ [t EXCEPT !.server_closed = c] \in Sessions
        /\ [t EXCEPT !.negotiated = n] \in Sessions
        /\ [t EXCEPT !.server_closed = c, !.negotiated = n] \in Sessions
  BY DEF Sessions
<1>4. Reset(s) \in Sessions
  BY <1>1, <1>3 DEF Reset
<1>5. /\ [one EXCEPT !.server_closed = closed] \in Sessions
      /\ [one EXCEPT !.negotiated = negotiated] \in Sessions
      /\ [one EXCEPT !.server_closed = closed, !.negotiated = negotiated] \in Sessions
  BY <1>1, <1>3
<1> QED
  BY <1>1, <1>2, <1>3, <1>4, <1>5

----------------------------------------------------------------------------
\* What the operators that several actions share leave behind.

\* teardown() leaves an empty link and no attempt.
LEMMA TeardownTypes == Teardown => link' \in Links /\ attempt' \in Attempts
BY ConstantTypes DEF Teardown, NoLink, NoAttempt, Links, Attempts

\* connection_ended() leaves the desktop without a live connection.
LEMMA EndedTypes ==
    ASSUME NEW outcome \in ConnectionOutcome, NEW s \in Sessions,
           NEW sched \in ReconnectSchedule, connection_ended(outcome, s, sched)
    PROVE  /\ live' = FALSE /\ established' = FALSE /\ link' \in Links
           /\ attempt' \in Attempts /\ session' \in Sessions
           /\ last_modifiers' \in ModifierMasks /\ secure_attention' = FALSE
           /\ schedule' \in ReconnectSchedule /\ due' = FALSE /\ running' \in BOOLEAN
<1> USE DEF connection_ended
<1>1. link' \in Links /\ attempt' \in Attempts
  BY TeardownTypes
<1>2. session' \in Sessions
  BY SessionTypes
<1>3. schedule' \in ReconnectSchedule
  BY ScheduleEndedType
<1>4. running' \in BOOLEAN
  BY <1>3 DEF ReconnectSchedule
<1> QED
  BY <1>1, <1>2, <1>3, <1>4, ConstantTypes DEF update_secure_attention

\* observe_end() gathers a well-formed ConnectionResult.
LEMMA ObservedType ==
    ASSUME link \in Links, NEW s \in Sessions
    PROVE  Observed(s) \in ConnectionResult
BY DEF Observed, ConnectionResult, ConnectFailure, Links, Sessions

\* observe_end() leaves what connection_ended() leaves, and a desktop end.
LEMMA ObservedTypes ==
    ASSUME TypeOK, NEW s \in Sessions, NEW sched \in ReconnectSchedule,
           observe_end(s, sched)
    PROVE  /\ live' = FALSE /\ established' = FALSE /\ link' \in Links
           /\ attempt' \in Attempts /\ session' \in Sessions
           /\ last_modifiers' \in ModifierMasks /\ secure_attention' = FALSE
           /\ schedule' \in ReconnectSchedule /\ due' = FALSE /\ running' \in BOOLEAN
           /\ end' \in DesktopEnds
<1>1. classify_connection(Observed(s)) \in ConnectionOutcome
  BY ObservedType, ClassifyType DEF TypeOK
<1>2. end' \in DesktopEnds
  <2>1. \A status \in {"ok", "failed"} : [end EXCEPT !.status = status] \in DesktopEnds
    BY DEF TypeOK, DesktopEnds
  <2>2. \A e \in DesktopEnds : \A b \in BOOLEAN :
          [e EXCEPT !.refused_no_data = b] \in DesktopEnds
    BY DEF DesktopEnds
  <2> QED
    BY <2>1, <2>2 DEF observe_end
<1> QED
  BY <1>1, <1>2, EndedTypes DEF observe_end

\* start_connection() leaves a live connection.
LEMMA StartedTypes ==
    ASSUME TypeOK, NEW l \in Links, NEW s \in Sessions, start_connection(l, s)
    PROVE  /\ live' = TRUE /\ established' = FALSE /\ link' \in Links
           /\ session' \in Sessions /\ end' \in DesktopEnds
           /\ secure_attention' \in BOOLEAN
<1>1. session' \in Sessions
  BY DEF start_connection, Sessions
<1>2. end' \in DesktopEnds
  <2>1. [end EXCEPT !.status = "ok"] \in DesktopEnds
    BY DEF TypeOK, DesktopEnds
  <2> QED
    BY <2>1 DEF start_connection, DesktopEnds
<1> QED
  BY <1>1, <1>2 DEF start_connection, update_secure_attention

\* Only a valid size is ever adopted.
LEMMA AdoptedTypes ==
    ASSUME TypeOK, NEW size \in Sizes, adopt_display_size(size)
    PROVE  session' \in Sessions /\ link' \in Links /\ dirty' \in BOOLEAN /\ full' \in BOOLEAN
<1>1. size \in ValidSizes => [session EXCEPT !.size = size] \in Sessions
  BY DEF TypeOK, Sessions
<1>2. [link EXCEPT !.size = size] \in Links
  BY DEF TypeOK, Links
<1> QED
  BY <1>1, <1>2 DEF adopt_display_size, TypeOK

\* apply_display_size() adopts or defers.
LEMMA AppliedTypes ==
    ASSUME TypeOK, NEW size \in Sizes, apply_display_size(size)
    PROVE  /\ session' \in Sessions /\ link' \in Links /\ dirty' \in BOOLEAN
           /\ full' \in BOOLEAN /\ deferred_size' \in Sizes \cup {NoSize}
BY AdoptedTypes DEF apply_display_size, TypeOK

\* Sending modifiers changes what the server knows and nothing else.
LEMMA SentTypes ==
    ASSUME TypeOK, NEW mask \in ModifierMasks, SendModifiers(mask)
    PROVE  link' \in Links
BY DEF SendModifiers, TypeOK, Links

\* Painting changes the paint flags only.
LEMMA PresentedTypes ==
    ASSUME TypeOK, PresentOrNot
    PROVE  /\ dirty' \in BOOLEAN /\ full' \in BOOLEAN
           /\ fits' \in BOOLEAN /\ torn' \in BOOLEAN
<1>1. WorkerWrites \in BOOLEAN
  BY DEF WorkerWrites
<1>2. (dirty /\ connecting) \in BOOLEAN
  BY DEF TypeOK
<1>3. CASE torn' = (IF ReadsSurface THEN WorkerWrites ELSE torn)
           /\ dirty' = (dirty /\ connecting) /\ full' = FALSE /\ fits' = TRUE
  <2>1. torn' \in BOOLEAN
    <3>1. CASE ReadsSurface
      BY <1>1, <1>3, <3>1
    <3>2. CASE ~ReadsSurface
      BY <1>3, <3>2 DEF TypeOK
    <3> QED
      BY <3>1, <3>2
  <2> QED
    BY <1>2, <1>3, <2>1
<1>4. CASE UNCHANGED paintVars
  BY <1>4 DEF TypeOK, paintVars
<1> QED
  BY <1>3, <1>4 DEF PresentOrNot

----------------------------------------------------------------------------
\* A desktop is built well-typed.
THEOREM TypeInit == Init => TypeOK
<1> SUFFICES ASSUME Init PROVE TypeOK
  OBVIOUS
<1> USE ConstantTypes DEF Init
<1>1. schedule \in ReconnectSchedule
  BY DEF NewSchedule, ReconnectSchedule, ConnectionOutcome
<1>2. attempt \in Attempts
  BY DEF NoAttempt, Attempts
<1>3. link \in Links
  BY DEF NoLink, Links, Ends
<1>4. session \in Sessions
  <2>1. PICK size \in ValidSizes :
          \/ session \in [messages : {1}, server_closed : BOOLEAN, negotiated : BOOLEAN,
                          sender : {"current"}, size : {size}]
          \/ session = [messages |-> 0, server_closed |-> FALSE, negotiated |-> FALSE,
                        sender |-> "none", size |-> size]
    OBVIOUS
  <2>2. CASE session \in [messages : {1}, server_closed : BOOLEAN, negotiated : BOOLEAN,
                          sender : {"current"}, size : {size}]
    BY <2>2 DEF Sessions
  <2>3. CASE session = [messages |-> 0, server_closed |-> FALSE, negotiated |-> FALSE,
                        sender |-> "none", size |-> size]
    BY <2>3 DEF Sessions
  <2> QED
    BY <2>1, <2>2, <2>3
<1>5. end \in DesktopEnds
  BY DEF DesktopEnds
<1>6. requests \in 0..MaxRequests
  OBVIOUS
<1> QED
  BY <1>1, <1>2, <1>3, <1>4, <1>5, <1>6 DEF TypeOK

\* Every action of the loop, the window, the worker and the network keeps the types.
THEOREM TypeStep == TypeOK /\ [Next]_vars => TypeOK'
<1> SUFFICES ASSUME TypeOK, [Next]_vars PROVE TypeOK'
  OBVIOUS
<1> USE ConstantTypes DEF Top
<1> USE DEF loopVars, linkVars, scheduleVars, inputVars, paintVars, otherVars
<1>1. CASE Start
  <2>1. CASE runs_handshake \/ Delivered(link)
    <3>1. link' \in Links /\ session' \in Sessions /\ end' \in DesktopEnds
          /\ live' \in BOOLEAN /\ established' \in BOOLEAN /\ secure_attention' \in BOOLEAN
      <4>1. [link EXCEPT !.size = session.size] \in Links
        BY DEF TypeOK, Links, Sessions
      <4> QED
        BY <1>1, <2>1, <4>1, StartedTypes DEF Start, TypeOK
    <3> QED
      BY <1>1, <2>1, <3>1 DEF Start, TypeOK
  <2>2. CASE ~(runs_handshake \/ Delivered(link))
    <3>1. Teardown /\ session' = Orphaned(session) /\ pc' = "ended"
          /\ UNCHANGED <<live, established, secure_attention, end>>
          /\ UNCHANGED <<running, quit, connecting, scheduleVars, inputVars, paintVars,
                         otherVars>>
      BY <1>1, <2>2 DEF Start
    <3>2. link' \in Links /\ attempt' \in Attempts /\ session' \in Sessions
      BY <3>1, TeardownTypes, SessionTypes DEF TypeOK
    <3> QED
      BY <3>1, <3>2 DEF TypeOK
  <2> QED
    BY <2>1, <2>2
<1>2. CASE CollectFailure
  <2>1. attempt.stage \in ConnectionOutcome
    BY <1>2 DEF CollectFailure, Failures, ConnectionOutcome
  <2>2. end' \in DesktopEnds
    BY <1>2 DEF CollectFailure, TypeOK, DesktopEnds
  <2> QED
    BY <1>2, <2>1, <2>2, EndedTypes DEF CollectFailure, TypeOK
<1>3. CASE CollectSuccess
  <2>1. PICK state \in {"up"} \cup Ends, forward \in {FALSE, runs_handshake} :
          LET s == IF runs_handshake THEN session ELSE Reset(session)
              told == IF runs_handshake THEN attempt.size ELSE s.size
              l == [state |-> state, forward |-> forward, size |-> told, modifiers |-> 0]
          IN  \/ /\ start_connection(l, s)
                 /\ attempt' = NoAttempt
                 /\ UNCHANGED <<running, scheduleVars, last_modifiers>>
              \/ /\ ~runs_handshake /\ state # "up"
                 /\ connection_ended(ResetOrRefused(state), s, schedule)
                 /\ UNCHANGED end
    BY <1>3 DEF CollectSuccess
  <2> DEFINE s == IF runs_handshake THEN session ELSE Reset(session)
             told == IF runs_handshake THEN attempt.size ELSE s.size
             l == [state |-> state, forward |-> forward, size |-> told, modifiers |-> 0]
  <2>2. s \in Sessions
    BY SessionTypes DEF TypeOK
  <2>3. l \in Links
    BY <2>2 DEF TypeOK, Links, Attempts, Sessions
  <2>4. ResetOrRefused(state) \in ConnectionOutcome
    <3> DEFINE r == [connected |-> TRUE, connect_failure |-> "none", message_count |-> 0,
                     server_closed |-> FALSE, peer_closed |-> state = "fin",
                     connection_reset |-> state = "reset", reached_deadline |-> FALSE,
                     through_forward |-> FALSE]
    <3>1. r \in ConnectionResult
      BY DEF ConnectionResult, ConnectFailure
    <3> HIDE DEF r
    <3>2. classify_connection(r) \in ConnectionOutcome
      BY <3>1, ClassifyType
    <3> QED
      BY <3>2 DEF ResetOrRefused, r
  <2>5. NoAttempt \in Attempts
    BY DEF NoAttempt, Attempts
  <2>6. CASE start_connection(l, s) /\ attempt' = NoAttempt
             /\ UNCHANGED <<running, scheduleVars, last_modifiers>>
    BY <1>3, <2>2, <2>3, <2>5, <2>6, StartedTypes DEF CollectSuccess, TypeOK
  <2>7. CASE connection_ended(ResetOrRefused(state), s, schedule) /\ UNCHANGED end
    BY <1>3, <2>2, <2>4, <2>7, EndedTypes DEF CollectSuccess, TypeOK
  <2> QED
    BY <2>1, <2>6, <2>7
<1>4. CASE ApplyDeferred
  <2>1. deferred_size # NoSize => deferred_size \in Sizes
    BY DEF TypeOK
  <2> QED
    BY <1>4, <2>1, AdoptedTypes DEF ApplyDeferred, TypeOK
<1>5. CASE AttemptReconnect
  <2>1. link' \in Links /\ attempt' \in Attempts
    BY <1>5 DEF AttemptReconnect, NoLink, Links, Attempts, Running, Failures
  <2> QED
    BY <1>5, <2>1, ScheduleTypes, SessionTypes DEF AttemptReconnect, TypeOK
<1>6. CASE AdvanceNothing
  BY <1>6 DEF AdvanceNothing, TypeOK
<1>7. CASE UserQuit
  <2>1. end' \in DesktopEnds
    BY <1>7 DEF UserQuit, TypeOK, DesktopEnds
  <2>2. /\ running' \in BOOLEAN
        /\ UNCHANGED <<pc, quit, linkVars, scheduleVars, inputVars, paintVars, otherVars>>
    BY <1>7 DEF UserQuit
  <2> QED
    BY <2>1, <2>2 DEF TypeOK
<1>8. CASE Finish
  <2>1. link' \in Links /\ attempt' \in Attempts /\ session' \in Sessions
    BY <1>8, TeardownTypes, SessionTypes DEF Finish, TypeOK
  <2>2. /\ pc' = "ended"
        /\ UNCHANGED <<running, end, quit, live, connecting, established, secure_attention,
                       scheduleVars, inputVars, paintVars, otherVars>>
    BY <1>8 DEF Finish
  <2> QED
    BY <2>1, <2>2 DEF TypeOK
<1>9. CASE IdleWait \/ Present
  BY <1>9, PresentedTypes DEF IdleWait, Present, TypeOK
<1>10. CASE ReceiveEnd
  BY <1>10, ObservedTypes DEF ReceiveEnd, TypeOK
<1>11. CASE ReceiveUndecodable
  <2>1. link' \in Links /\ attempt' \in Attempts /\ session' \in Sessions
    BY <1>11, TeardownTypes, SessionTypes DEF ReceiveUndecodable, TypeOK
  <2>2. /\ pc' = "ended"
        /\ UNCHANGED <<running, end, quit, live, connecting, established, secure_attention,
                       scheduleVars, inputVars, paintVars, otherVars>>
    BY <1>11 DEF ReceiveUndecodable
  <2> QED
    BY <2>1, <2>2 DEF TypeOK
<1>12. ASSUME NEW arrival \in Arrivals, Receive(arrival) PROVE TypeOK'
  <2> DEFINE s == Ingest(session, arrival)
             answered == ~established /\ s.messages > 0
             sched == IF answered THEN ScheduleEstablished(schedule) ELSE schedule
  <2>1. s \in Sessions
    BY SessionTypes DEF Ingest, Arrivals, TypeOK
  <2>2. sched \in ReconnectSchedule
    BY ScheduleTypes DEF TypeOK
  <2>3. CASE s.server_closed
    BY <1>12, <2>1, <2>2, <2>3, ObservedTypes DEF Receive, TypeOK
  <2>4. CASE ~s.server_closed
    <3>1. session' = s /\ schedule' = sched /\ established' = (established \/ answered)
          /\ UNCHANGED <<live, link, attempt, due, running, end, last_modifiers>>
          /\ update_secure_attention /\ dirty' = (dirty \/ arrival # "nothing")
          /\ pc' = "events"
          /\ UNCHANGED <<quit, connecting, deferred_size, chosen, full, fits, torn, otherVars>>
      BY <1>12, <2>4 DEF Receive
    <3> QED
      BY <2>1, <2>2, <3>1 DEF TypeOK, update_secure_attention
  <2> QED
    BY <2>3, <2>4
<1>13. CASE ActNone
  <2>1. dirty' \in BOOLEAN
    BY <1>13 DEF ActNone, TypeOK
  <2> QED
    BY <1>13, <2>1 DEF ActNone, TypeOK
<1>14. CASE ActShortcut
  <2>1. link' \in Links
    BY <1>14, SentTypes DEF ActShortcut, TypeOK
  <2> QED
    BY <1>14, <2>1 DEF ActShortcut, TypeOK
<1>15. CASE ActDisconnect
  <2>1. end' \in DesktopEnds
    BY <1>15 DEF ActDisconnect, TypeOK, DesktopEnds
  <2>2. /\ running' \in BOOLEAN /\ pc' = "settle" /\ UNCHANGED quit
        /\ UNCHANGED <<live, connecting, established, link, attempt, session, secure_attention>>
        /\ UNCHANGED <<schedule, due, last_modifiers, deferred_size, chosen>>
        /\ UNCHANGED <<dirty, full, fits, torn, runs_handshake, requests, font_ssh>>
    BY <1>15 DEF ActDisconnect
  <2> QED
    BY <2>1, <2>2 DEF TypeOK
<1>16. CASE ActReconnect
  <2>1. requests' \in 0..MaxRequests
    BY <1>16 DEF ActReconnect, TypeOK
  <2>2. schedule' \in ReconnectSchedule
    BY <1>16, ScheduleTypes DEF ActReconnect, TypeOK
  <2>3. /\ live' \in BOOLEAN /\ connecting' \in BOOLEAN /\ established' \in BOOLEAN
        /\ pc' \in {"joining", "settle"} /\ due' \in BOOLEAN
    BY <1>16 DEF ActReconnect, TypeOK
  <2>4. /\ UNCHANGED <<runs_handshake, font_ssh, running, end, quit, link, attempt, session>>
        /\ UNCHANGED <<secure_attention, deferred_size, last_modifiers, chosen>>
        /\ UNCHANGED <<dirty, full, fits, torn>>
    BY <1>16 DEF ActReconnect
  <2> QED
    BY <2>1, <2>2, <2>3, <2>4 DEF TypeOK
<1>26. CASE ReconnectTornDown
  <2>1. link' \in Links /\ attempt' \in Attempts /\ session' \in Sessions
    <3>1. Teardown /\ session' = Orphaned(session)
      BY <1>26 DEF ReconnectTornDown
    <3> QED
      BY <3>1, TeardownTypes, SessionTypes DEF TypeOK
  <2>2. schedule' \in ReconnectSchedule
    BY <1>26, ScheduleTypes DEF ReconnectTornDown, TypeOK
  <2> QED
    BY <1>26, <2>1, <2>2 DEF ReconnectTornDown, TypeOK, update_secure_attention
<1>17. ASSUME NEW size \in Sizes, ActDisplaySize(size) PROVE TypeOK'
  BY <1>17, AppliedTypes DEF ActDisplaySize, TypeOK
<1>18. CASE Settle
  <2>1. CASE UNCHANGED <<session, link, dirty, full, deferred_size, chosen>>
    BY <1>18, <2>1 DEF Settle, TypeOK
  <2>2. ASSUME NEW size \in Sizes, apply_display_size(size), chosen' = size PROVE TypeOK'
    BY <1>18, <2>2, AppliedTypes DEF Settle, TypeOK
  <2> QED
    BY <1>18, <2>1, <2>2 DEF Settle
<1>19. ASSUME NEW mask \in ModifierMasks, KeyEvent(mask) PROVE TypeOK'
  BY <1>19, SentTypes DEF KeyEvent, TypeOK
<1>20. CASE FocusLost
  BY <1>20, SentTypes DEF FocusLost, TypeOK
<1>21. CASE WindowExposed \/ WindowResized \/ CloseWindow
  <2>3. CASE WindowResized
    BY <2>3 DEF WindowResized, TypeOK
  <2>1. CASE WindowExposed
    BY <2>1 DEF WindowExposed, TypeOK
  <2>2. CASE CloseWindow
    BY <2>2 DEF CloseWindow, TypeOK
  <2> QED
    BY <1>21, <2>1, <2>2, <2>3
<1>22. CASE WorkerStep
  <2>1. session' \in Sessions /\ attempt' \in Attempts
    <3>1. CASE WorkerHandshakes
      <4>1. [Reset(session) EXCEPT !.sender = "attempt"] \in Sessions
        <5>1. \A t \in Sessions : [t EXCEPT !.sender = "attempt"] \in Sessions
          BY DEF Sessions
        <5> QED
          BY <5>1, SessionTypes DEF TypeOK
      <4>2. [stage |-> "handshake", size |-> session.size] \in Attempts
        BY DEF TypeOK, Sessions, Attempts, Running
      <4> QED
        BY <3>1, <4>1, <4>2 DEF WorkerHandshakes
    <3>2. CASE WorkerHears
      BY <3>2, SessionTypes DEF WorkerHears, TypeOK
    <3>3. CASE WorkerAnswered
      <4>1. [stage |-> "answered", size |-> session.size] \in Attempts
        BY DEF TypeOK, Sessions, Attempts, Running
      <4> QED
        BY <3>3, <4>1, SessionTypes DEF WorkerAnswered, TypeOK
    <3>6. FontReplay => session' \in Sessions
      <4>2. session.server_closed \in BOOLEAN /\ session.negotiated \in BOOLEAN
        BY DEF TypeOK, Sessions
      <4>3. \A c, n \in BOOLEAN :
              [session EXCEPT !.server_closed = @ \/ c, !.negotiated = @ \/ n] \in Sessions
        BY <4>2, SessionTypes DEF TypeOK
      <4> QED
        BY <4>3 DEF FontReplay
    <3>7. \A stage \in {"asking", "fetching", "ok"} :
            [attempt EXCEPT !.stage = stage] \in Attempts
      BY DEF TypeOK, Attempts, Running, Unheard
    <3>4. CASE WorkerDone
      BY <3>4, <3>6, <3>7 DEF WorkerDone, TypeOK
    <3>8. CASE WorkerAsks
      BY <3>7, <3>8 DEF WorkerAsks, TypeOK
    <3>9. CASE WorkerFetches
      BY <3>6, <3>7, <3>9 DEF WorkerFetches
    <3>5. CASE WorkerFails
      <4>1. attempt' \in Attempts
        BY <3>5 DEF WorkerFails, Attempts
      <4> QED
        BY <3>5, <4>1, SessionTypes DEF WorkerFails, TypeOK
    <3> QED
      BY <1>22, <3>1, <3>2, <3>3, <3>4, <3>5, <3>8, <3>9 DEF WorkerStep
  <2> QED
    BY <1>22, <2>1 DEF WorkerStep, TypeOK
<1>23. CASE LinkEnds
  <2>1. link' \in Links
    BY <1>23 DEF LinkEnds, TypeOK, Links, Ends
  <2> QED
    BY <1>23, <2>1 DEF LinkEnds, TypeOK
<1>24. CASE DeadlinePasses
  BY <1>24 DEF DeadlinePasses, TypeOK
<1>25. CASE Terminated \/ UNCHANGED vars
  BY <1>25 DEF Terminated, TypeOK, vars
<1>27. CASE FontSshLingers \/ FontSshExits
  <2>1. font_ssh' \in BOOLEAN
    BY <1>27 DEF FontSshLingers, FontSshExits
  <2>2. UNCHANGED <<loopVars, linkVars, scheduleVars, inputVars, paintVars, runs_handshake,
                    requests>>
    BY <1>27 DEF FontSshLingers, FontSshExits
  <2> QED
    BY <2>1, <2>2 DEF TypeOK
<1> QED
  BY <1>1, <1>2, <1>3, <1>4, <1>5, <1>6, <1>7, <1>8, <1>9, <1>10, <1>11, <1>12, <1>13,
      <1>14,
     <1>15, <1>16, <1>17, <1>18, <1>19, <1>20, <1>21, <1>22, <1>23, <1>24, <1>25, <1>26,
     <1>27
  DEF Next, LoopStep, WindowEvent, AfterEvents

\* Every field of the desktop always holds a value of its type.
THEOREM TypeCorrect == Spec => []TypeOK
BY TypeInit, TypeStep, PTL DEF Spec

----------------------------------------------------------------------------
\* The inductive invariant: the properties of DesktopController, strengthened with
\* what holds at each place of the loop and with the size the worker handshook.

\* What the loop's position says of the phases.
Control ==
    /\ pc \in {"poll", "events", "joining"} => running
    /\ pc = "start" => /\ running /\ ~live /\ ~connecting
                       /\ ~schedule.pending /\ schedule.attempts = 0
                       /\ link.state # "none"
                       /\ runs_handshake => link.size = session.size
                       /\ session.sender \in {"none", "current"}
    /\ pc = "deferred" => ~connecting
    /\ pc = "joining" => ~live /\ ~connecting
    /\ ~(live /\ connecting)
    /\ live /\ pc # "ended" => link.state # "none"
    /\ connecting => schedule.attempts > 0

\* The session keeps the size its handshake announced until it is collected.
HandshakeSize ==
    runs_handshake /\ attempt.stage \in {"handshake", "answered", "fetching", "ok"} =>
        attempt.size = session.size

\* Whatever makes a present read more than what changed also marks the surface.
PaintOwed == ~fits \/ full \/ torn => dirty

Inv ==
    /\ TypeOK /\ Control /\ HandshakeSize /\ PaintOwed
    /\ OnePhase /\ OneSubstrate /\ SenderIsCurrent
    /\ ServerKnowsSize /\ SecureAttentionTracksLink /\ PendingWithinBudget

\* The invariant holds of a desktop just built.
THEOREM InvInit == Init => Inv
<1> SUFFICES ASSUME Init PROVE Inv
  OBVIOUS
<1>1. TypeOK
  BY TypeInit
<1>2. Control
  BY DEF Init, Control, NewSchedule, NoLink, NoAttempt
<1>3. /\ HandshakeSize /\ PaintOwed /\ OnePhase /\ OneSubstrate /\ ServerKnowsSize
      /\ SecureAttentionTracksLink /\ PendingWithinBudget
  BY DEF Init, HandshakeSize, PaintOwed, OnePhase, OneSubstrate, SecureAttentionTracksLink,
      PendingWithinBudget, NewSchedule, NoAttempt, ServerKnowsSize
<1>4. SenderIsCurrent
  BY DEF Init, SenderIsCurrent, NoLink
<1> QED
  BY <1>1, <1>2, <1>3, <1>4 DEF Inv

\* Every action preserves the invariant.
THEOREM InvStep == Inv /\ [Next]_vars => Inv'
<1> SUFFICES ASSUME Inv, [Next]_vars PROVE Inv'
  OBVIOUS
<1> TypeOK /\ TypeOK'
  BY TypeStep DEF Inv
<1> USE ConstantTypes DEF Top, Delivered
<1> USE DEF loopVars, linkVars, scheduleVars, inputVars, paintVars, otherVars
<1> USE DEF Inv, Control, HandshakeSize, PaintOwed, OnePhase, OneSubstrate, SenderIsCurrent,
    ServerKnowsSize, SecureAttentionTracksLink, PendingWithinBudget
<1>1. CASE Start
  BY <1>1 DEF Start, start_connection, Teardown, update_secure_attention, Orphaned, NoLink,
      NoAttempt, TypeOK, Sessions, Links, Attempts, ReconnectSchedule
<1>2. CASE CollectFailure
  BY <1>2 DEF CollectFailure, connection_ended, Teardown, update_secure_attention, Orphaned,
      NoLink, NoAttempt, ScheduleEnded, should_retry, TypeOK, Sessions, ReconnectSchedule
<1>3. CASE CollectSuccess
  <2>1. PICK state \in {"up"} \cup Ends, forward \in {FALSE, runs_handshake} :
          LET s == IF runs_handshake THEN session ELSE Reset(session)
              told == IF runs_handshake THEN attempt.size ELSE s.size
              l == [state |-> state, forward |-> forward, size |-> told, modifiers |-> 0]
          IN  \/ /\ start_connection(l, s)
                 /\ attempt' = NoAttempt
                 /\ UNCHANGED <<running, scheduleVars, last_modifiers>>
              \/ /\ ~runs_handshake /\ state # "up"
                 /\ connection_ended(ResetOrRefused(state), s, schedule)
                 /\ UNCHANGED end
    BY <1>3 DEF CollectSuccess
  <2> DEFINE s == IF runs_handshake THEN session ELSE Reset(session)
             told == IF runs_handshake THEN attempt.size ELSE s.size
             l == [state |-> state, forward |-> forward, size |-> told, modifiers |-> 0]
  <2>6. CASE start_connection(l, s) /\ attempt' = NoAttempt
             /\ UNCHANGED <<running, scheduleVars, last_modifiers>>
    BY <1>3, <2>6 DEF CollectSuccess, start_connection, update_secure_attention, NoAttempt,
        Ends, Reset, TypeOK, Sessions
  <2>7. CASE connection_ended(ResetOrRefused(state), s, schedule) /\ UNCHANGED end
    BY <1>3, <2>7 DEF CollectSuccess, connection_ended, Teardown, update_secure_attention,
        Orphaned, Reset, NoLink, NoAttempt, ScheduleEnded, should_retry, TypeOK, Sessions,
        ReconnectSchedule
  <2> QED
    BY <2>1, <2>6, <2>7
<1>4. CASE ApplyDeferred
  BY <1>4 DEF ApplyDeferred, adopt_display_size, TypeOK, Sessions, Links
<1>5. CASE AttemptReconnect
  BY <1>5 DEF AttemptReconnect, NoLink, Orphaned, ScheduleAttempted, TypeOK, Sessions,
      ReconnectSchedule, Failures
<1>6. CASE AdvanceNothing
  BY <1>6 DEF AdvanceNothing
<1>7. CASE UserQuit
  BY <1>7 DEF UserQuit
<1>8. CASE Finish
  BY <1>8 DEF Finish, Teardown, Orphaned, NoLink, NoAttempt, TypeOK, Sessions
<1>9. CASE IdleWait \/ Present
  <2>1. attempt.stage # "none" => connecting
    BY <1>9 DEF IdleWait, Present
  <2>2. PaintOwed'
    BY <1>9, <2>1 DEF IdleWait, Present, PresentOrNot, ReadsSurface, surface_changed,
        WorkerWrites
  <2>3. /\ PresentOrNot /\ pc \in {"poll", "present"} /\ pc' \in {"events", "top"}
        /\ pc = "present" => pc' = "top"
        /\ pc = "poll" => pc' = "events"
        /\ UNCHANGED <<running, end, quit, linkVars, scheduleVars, inputVars, otherVars>>
    BY <1>9 DEF IdleWait, Present
  <2> QED
    BY <2>2, <2>3
<1>10. CASE ReceiveEnd
  BY <1>10 DEF ReceiveEnd, observe_end, connection_ended, Teardown, update_secure_attention,
      Orphaned, NoLink, NoAttempt, ScheduleEnded, should_retry, TypeOK, Sessions,
      ReconnectSchedule
<1>11. CASE ReceiveUndecodable
  BY <1>11 DEF ReceiveUndecodable, Teardown, Orphaned, NoLink, NoAttempt, TypeOK, Sessions
<1>12. ASSUME NEW arrival \in Arrivals, Receive(arrival) PROVE Inv'
  <2> DEFINE s == Ingest(session, arrival)
             answered == ~established /\ s.messages > 0
             sched == IF answered THEN ScheduleEstablished(schedule) ELSE schedule
  <2>1. s.size = session.size /\ s.sender = session.sender /\ s \in Sessions
    <3>1. session \in Sessions
      BY DEF TypeOK
    <3>2. s \in Sessions
      BY <3>1, SessionTypes DEF Ingest, Arrivals
    <3>3. s \in {session, [session EXCEPT !.messages = 1],
                  [session EXCEPT !.messages = 1, !.negotiated = TRUE],
                  [session EXCEPT !.messages = 1, !.server_closed = TRUE]}
      BY DEF Ingest, Arrivals
    <3> HIDE DEF s
    <3>4. s.size = session.size /\ s.sender = session.sender
      BY <3>1, <3>3 DEF Sessions
    <3> QED
      BY <3>2, <3>4
  <2>2. /\ sched.pending = schedule.pending /\ sched \in ReconnectSchedule
        /\ sched.attempts \in {0, schedule.attempts}
    BY ScheduleTypes DEF ScheduleEstablished, TypeOK, ReconnectSchedule
  <2> HIDE DEF s, sched
  <2>3. CASE s.server_closed
    <3>1. /\ observe_end(s, sched) /\ live /\ pc = "poll" /\ pc' = "top" /\ dirty' = TRUE
          /\ UNCHANGED <<quit, connecting, deferred_size, chosen, full, fits, torn, otherVars>>
      BY <1>12, <2>3 DEF s, sched, Receive
    <3>2. /\ live' = FALSE /\ link' = NoLink /\ attempt' = NoAttempt
          /\ session' = Orphaned(s) /\ update_secure_attention
          /\ running' = schedule'.pending
          /\ \E outcome : schedule' = ScheduleEnded(sched, outcome)
      BY <3>1 DEF observe_end, connection_ended, Teardown
    <3>3. Orphaned(s).sender \in {"none", "stale"}
      BY <2>1 DEF Orphaned, Sessions
    <3>4. schedule'.pending => Enabled /\ schedule'.attempts < MaxAttempts
      BY <2>2, <3>2 DEF ScheduleEnded, should_retry, ReconnectSchedule
    <3> QED
      BY <3>1, <3>2, <3>3, <3>4 DEF update_secure_attention, NoLink, NoAttempt
  <2>4. CASE ~s.server_closed
    <3>1. session' = s /\ schedule' = sched
          /\ UNCHANGED <<live, link, attempt, due, running, end, last_modifiers>>
          /\ update_secure_attention /\ pc = "poll" /\ pc' = "events" /\ live
          /\ (dirty => dirty')
          /\ UNCHANGED <<quit, connecting, deferred_size, chosen, full, fits, torn, otherVars>>
      BY <1>12, <2>4 DEF s, sched, Receive
    <3> QED
      BY <2>1, <2>2, <3>1 DEF update_secure_attention
  <2> QED
    BY <2>3, <2>4
<1>13. CASE ActNone
  BY <1>13 DEF ActNone
<1>14. CASE ActDisconnect
  BY <1>14 DEF ActDisconnect
<1>15. CASE ActReconnect
  BY <1>15 DEF ActReconnect, ScheduleRequested, TypeOK, ReconnectSchedule
<1>26. CASE ReconnectTornDown
  BY <1>26 DEF ReconnectTornDown, Teardown, update_secure_attention, Orphaned, NoLink,
      NoAttempt, ScheduleRequested, TypeOK, Sessions, ReconnectSchedule
<1>16. ASSUME NEW size \in Sizes, ActDisplaySize(size) PROVE Inv'
  BY <1>16 DEF ActDisplaySize, apply_display_size, adopt_display_size, TypeOK, Sessions,
      Links
<1>17. CASE Settle
  BY <1>17 DEF Settle, apply_display_size, adopt_display_size, TypeOK, Sessions, Links
<1>18. ASSUME NEW mask \in ModifierMasks, KeyEvent(mask) PROVE Inv'
  BY <1>18 DEF KeyEvent, SendModifiers, TypeOK, Links
<1>19. CASE FocusLost
  BY <1>19 DEF FocusLost, SendModifiers, TypeOK, Links
<1>20. CASE WindowExposed \/ WindowResized \/ CloseWindow
  BY <1>20 DEF WindowExposed, WindowResized, CloseWindow
<1>21. CASE WorkerStep
  <2>1. UNCHANGED <<loopVars, live, connecting, established, link, secure_attention,
                    scheduleVars, inputVars, paintVars, otherVars>>
    BY <1>21 DEF WorkerStep
  <2>2. /\ attempt.stage # "none" /\ attempt'.stage # "none"
        /\ session'.size = session.size /\ SenderIsCurrent' /\ HandshakeSize'
    <3>1. CASE WorkerHandshakes
      BY <2>1, <3>1 DEF WorkerHandshakes, OnRoute, Reset, TypeOK, Sessions, Attempts
    <3>2. CASE WorkerHears
      BY <2>1, <3>2 DEF WorkerHears, TypeOK, Sessions, Attempts
    <3>3. CASE WorkerAnswered
      BY <2>1, <3>3 DEF WorkerAnswered, TypeOK, Sessions, Attempts
    <3>4. CASE WorkerDone
      BY <2>1, <3>4 DEF WorkerDone, FontReplay, OnRoute, TypeOK, Sessions, Attempts
    <3>5. CASE WorkerFails
      BY <2>1, <3>5 DEF WorkerFails, OnRoute, Failures, Running, Unheard, Orphaned, TypeOK,
          Sessions, Attempts
    <3>6. CASE WorkerAsks
      BY <2>1, <3>6 DEF WorkerAsks, TypeOK, Sessions, Attempts
    <3>7. CASE WorkerFetches
      BY <2>1, <3>7 DEF WorkerFetches, FontReplay, TypeOK, Sessions, Attempts
    <3> QED
      BY <1>21, <3>1, <3>2, <3>3, <3>4, <3>5, <3>6, <3>7 DEF WorkerStep
  <2> QED
    BY <2>1, <2>2
<1>22. CASE LinkEnds
  BY <1>22 DEF LinkEnds, Ends, TypeOK, Links
<1>23. CASE DeadlinePasses
  BY <1>23 DEF DeadlinePasses
<1>24. CASE Terminated \/ UNCHANGED vars
  BY <1>24 DEF Terminated, vars
<1>27. CASE FontSshLingers \/ FontSshExits
  BY <1>27 DEF FontSshLingers, FontSshExits
<1>25. CASE ActShortcut
  BY <1>25 DEF ActShortcut, SendModifiers, TypeOK, Links
<1> QED
  BY <1>1, <1>2, <1>3, <1>4, <1>5, <1>6, <1>7, <1>8, <1>9, <1>10, <1>11, <1>12, <1>13,
      <1>14, <1>15, <1>16, <1>17, <1>18, <1>19, <1>20, <1>21, <1>22, <1>23, <1>24, <1>25,
      <1>26, <1>27 DEF Next, LoopStep, WindowEvent, AfterEvents

\* The invariant always holds.
THEOREM InvAlways == Spec => []Inv
BY InvInit, InvStep, PTL DEF Spec

\* A running desktop is always in exactly one phase: connected, connecting, or
\* waiting for an attempt that is scheduled.
THEOREM AlwaysOnePhase == Spec => []OnePhase
<1>1. Inv => OnePhase
  BY DEF Inv
<1> QED
  BY <1>1, InvAlways, PTL

\* While a worker builds a connection the old one, and the forward under it, is gone.
THEOREM AlwaysOneSubstrate == Spec => []OneSubstrate
<1>1. Inv => OneSubstrate
  BY DEF Inv
<1> QED
  BY <1>1, InvAlways, PTL

\* The session of a live connection sends through the transport that is up.
THEOREM AlwaysSenderIsCurrent == Spec => []SenderIsCurrent
<1>1. Inv => SenderIsCurrent
  BY DEF Inv
<1> QED
  BY <1>1, InvAlways, PTL

\* The server of a live connection was told the canvas's size, whatever was deferred.
THEOREM AlwaysServerKnowsSize == Spec => []ServerKnowsSize
<1>1. Inv => ServerKnowsSize
  BY DEF Inv
<1> QED
  BY <1>1, InvAlways, PTL

\* The shell offers Ctrl+Alt+Del exactly while a live server acknowledged it.
THEOREM AlwaysSecureAttention == Spec => []SecureAttentionTracksLink
<1>1. Inv => SecureAttentionTracksLink
  BY DEF Inv
<1> QED
  BY <1>1, InvAlways, PTL

\* An attempt is pending only with budget left or on the user's request.
THEOREM AlwaysWithinBudget == Spec => []PendingWithinBudget
<1>1. Inv => PendingWithinBudget
  BY DEF Inv
<1> QED
  BY <1>1, InvAlways, PTL

\* All of these together: the controller's pieces agree at every moment.
THEOREM AlwaysConsistent == Spec => []ControllerConsistent
<1>1. Inv => ControllerConsistent
  BY DEF Inv, ControllerConsistent
<1> QED
  BY <1>1, InvAlways, PTL

----------------------------------------------------------------------------
\* With either front end, a frame that was read while the worker was drawing into it is
\* still marked for repainting.
THEOREM TornNeverStays == Spec => []TornIsRepainted
<1>1. Inv => TornIsRepainted
  BY DEF Inv, PaintOwed, TornIsRepainted
<1> QED
  BY <1>1, InvAlways, PTL

\* From the start of an attempt to the end of its worker only the worker changes the
\* Session.
THEOREM WorkerOwnsSession == Spec => SessionLeftToWorker
<1>1. Inv /\ [Next]_vars =>
        (runs_handshake /\ attempt.stage \in Running /\ session' # session => WorkerStep)
  <2> SUFFICES ASSUME Inv, [Next]_vars, attempt.stage \in Running, session' # session
               PROVE WorkerStep
    OBVIOUS
  <2>1. /\ connecting \/ pc = "joining"
        /\ connecting => ~live
        /\ pc = "joining" => ~connecting
        /\ attempt.stage \notin {"ok"} \cup Failures
        /\ ~Joined
    BY DEF Inv, OneSubstrate, Control, Running, Unheard, Failures, Joined
  <2> QED
    BY <2>1 DEF Next, LoopStep, WindowEvent, AfterEvents, Start, CollectFailure,
        CollectSuccess, ApplyDeferred, AttemptReconnect, AdvanceNothing, UserQuit, Finish,
        IdleWait, ReceiveEnd, ReceiveUndecodable, Receive, ActNone, ActShortcut,
        ActDisconnect, ActReconnect, ReconnectTornDown, Teardown, ActDisplaySize, Settle,
        Present, KeyEvent, FocusLost, WindowExposed, WindowResized, CloseWindow, LinkEnds,
        DeadlinePasses, FontSshLingers, FontSshExits, Terminated, vars, linkVars, loopVars,
        Inv, Control, apply_display_size, Top
<1> QED
  BY <1>1, InvAlways, PTL DEF Spec, SessionLeftToWorker

\* Being closed in band or evicted is classified as an ending that is not retried.
LEMMA SentAwayIsFinal ==
  ASSUME NEW s \in Sessions, link \in Links, NEW sched \in ReconnectSchedule,
         s.server_closed \/ (link.state = "reset" /\ ~(link.forward /\ s.messages = 0))
  PROVE  ~ScheduleEnded(sched, classify_connection(Observed(s))).pending
<1>1. classify_connection(Observed(s)) \in {"server_closed", "evicted"}
  BY DEF classify_connection, Observed, ResetOutcome, Sessions, Links
<1> QED
  BY <1>1 DEF ScheduleEnded, should_retry, outcome_is_retriable, ReconnectSchedule

\* A client the server sent away does not come back by itself.
THEOREM SentAwayStaysAway == Spec => RefusalIsFinal
<1>1. Inv /\ [Next]_vars => (pc = "poll" /\ live /\ ~live' /\ SentAway => ~running')
  <2> SUFFICES ASSUME Inv, [Next]_vars, pc = "poll", live, ~live', SentAway
               PROVE ~running'
    OBVIOUS
  <2>1. \/ ReceiveEnd \/ \E arrival \in Arrivals : Receive(arrival)
    BY DEF Next, LoopStep, WindowEvent, AfterEvents, WorkerStep, Start, CollectFailure,
        CollectSuccess, ApplyDeferred, AttemptReconnect, AdvanceNothing, UserQuit, Finish,
        IdleWait, ReceiveUndecodable, ActNone, ActShortcut, ActDisconnect, ActReconnect,
        ActDisplaySize, ReconnectTornDown, Settle, Present, KeyEvent, FocusLost,
        WindowExposed, WindowResized, CloseWindow, LinkEnds, DeadlinePasses, FontSshLingers,
        FontSshExits, Terminated, vars, linkVars, Top
  <2>2. PICK s \in Sessions, sched \in ReconnectSchedule : observe_end(s, sched)
    <3>1. CASE ReceiveEnd
      BY <3>1 DEF ReceiveEnd, Inv, TypeOK
    <3>2. ASSUME NEW arrival \in Arrivals, Receive(arrival)
          PROVE \E s \in Sessions, sched \in ReconnectSchedule : observe_end(s, sched)
      <4> DEFINE s == Ingest(session, arrival)
                 sched == IF ~established /\ s.messages > 0
                          THEN ScheduleEstablished(schedule) ELSE schedule
      <4>1. s \in Sessions
        BY SessionTypes DEF Ingest, Arrivals, Inv, TypeOK
      <4>2. sched \in ReconnectSchedule
        BY ScheduleTypes DEF Inv, TypeOK
      <4>3. observe_end(s, sched)
        BY <3>2 DEF Receive
      <4> QED
        BY <4>1, <4>2, <4>3
    <3> QED
      BY <2>1, <3>1, <3>2
  <2>3. running' = ScheduleEnded(sched, classify_connection(Observed(s))).pending
        /\ session' = Orphaned(s)
    BY <2>2 DEF observe_end, connection_ended
  <2>4. s.server_closed \/ (link.state = "reset" /\ ~(link.forward /\ s.messages = 0))
    <3>1. Orphaned(s).server_closed = s.server_closed /\ Orphaned(s).messages = s.messages
      BY DEF Orphaned, Sessions
    <3>2. session'.server_closed = s.server_closed /\ session'.messages = s.messages
      BY <2>3, <3>1
    <3>3. CASE session'.server_closed
      BY <3>2, <3>3
    <3>4. CASE link.state = "reset" /\ ~(link.forward /\ session'.messages = 0)
      BY <3>2, <3>4
    <3> QED
      BY <3>3, <3>4 DEF SentAway
  <2> QED
    BY <2>3, <2>4, SentAwayIsFinal DEF Inv, TypeOK
<1> QED
  BY <1>1, InvAlways, PTL DEF Spec, RefusalIsFinal

\* A pending attempt fits the budget the abstract specification grants.
LEMMA BudgetBound ==
    Inv => /\ AttemptBudget \in Nat \ {0}
           /\ schedule.pending => schedule.attempts < AttemptBudget
BY ConstantTypes DEF Inv, TypeOK, PendingWithinBudget, AttemptBudget, ReconnectSchedule

\* The desktop implements the promise about outages: at most AttemptBudget attempts
\* unless the user asks, and no way back once it is over.
THEOREM ImplementsOutage == Spec => OutagePromise
<1>1. Init => O!Init
  BY DEF Init, O!Init, OutagePhase, NewSchedule
<1>2. Inv /\ [Next]_vars => [O!Next]_(O!vars)
  <2> SUFFICES ASSUME Inv, [Next]_vars PROVE O!Next \/ UNCHANGED O!vars
    OBVIOUS
  <2> USE DEF OutagePhase, O!vars, O!Next, O!Lose, O!Ask, O!Try, O!Recover, O!Settled,
      O!Stop, Top
  <2> USE DEF loopVars, linkVars, scheduleVars, inputVars, paintVars, otherVars
  <2> USE DEF Inv, Control, OnePhase
  <2>1. CASE Start
    BY <2>1 DEF Start, start_connection
  <2>2. ASSUME NEW outcome, NEW s, connection_ended(outcome, s, schedule), running,
               pc \notin {"start", "ended"}, pc' \notin {"start", "ended"}
        PROVE O!Next \/ UNCHANGED O!vars
    BY <2>2 DEF connection_ended, ScheduleEnded, TypeOK, ReconnectSchedule
  <2>3. CASE CollectFailure
    BY <2>3, <2>2 DEF CollectFailure
  <2>4. CASE CollectSuccess
    BY <2>4, <2>2 DEF CollectSuccess, start_connection
  <2>5. CASE AttemptReconnect
    BY <2>5, BudgetBound DEF AttemptReconnect, ScheduleAttempted, TypeOK, ReconnectSchedule
  <2>6. CASE ReceiveEnd
    BY <2>6, <2>2 DEF ReceiveEnd, observe_end
  <2>7. ASSUME NEW arrival \in Arrivals, Receive(arrival) PROVE O!Next \/ UNCHANGED O!vars
    <3> DEFINE s == Ingest(session, arrival)
               answered == ~established /\ s.messages > 0
               sched == IF answered THEN ScheduleEstablished(schedule) ELSE schedule
    <3>1. sched.attempts \in {0, schedule.attempts} /\ sched \in ReconnectSchedule
          /\ sched.pending = schedule.pending
      BY ScheduleTypes DEF ScheduleEstablished, TypeOK, ReconnectSchedule
    <3> HIDE DEF s, sched
    <3>2. pc = "poll" /\ live /\ running /\ ~connecting /\ ~schedule.pending
      BY <2>7 DEF Receive
    <3>3. CASE s.server_closed
      <4>1. observe_end(s, sched) /\ pc' = "top"
        BY <2>7, <3>3 DEF Receive, s, sched
      <4>2. s \in Sessions
        BY SessionTypes DEF s, Ingest, Arrivals, TypeOK
      <4>3. ~running' /\ schedule'.attempts = sched.attempts
        BY <3>1, <3>3, <4>1, <4>2, SentAwayIsFinal DEF observe_end, connection_ended,
            ScheduleEnded, TypeOK, ReconnectSchedule
      <4> QED
        BY <3>1, <3>2, <4>1, <4>3
    <3>4. CASE ~s.server_closed
      <4>1. live' = live /\ running' = running /\ schedule' = sched /\ pc' = "events"
        BY <2>7, <3>4 DEF Receive, s, sched
      <4> QED
        BY <3>1, <3>2, <4>1
    <3> QED
      BY <3>3, <3>4
  <2>8. CASE ActReconnect
    BY <2>8 DEF ActReconnect, ScheduleRequested, TypeOK, ReconnectSchedule
  <2>17. CASE ReconnectTornDown
    BY <2>17 DEF ReconnectTornDown, ScheduleRequested, TypeOK, ReconnectSchedule
  <2>9. CASE UserQuit \/ ActDisconnect
    BY <2>9 DEF UserQuit, ActDisconnect
  <2>10. CASE Finish \/ ReceiveUndecodable
    BY <2>10 DEF Finish, ReceiveUndecodable
  <2>11. CASE \/ WorkerStep \/ LinkEnds \/ DeadlinePasses \/ FontSshLingers \/ FontSshExits
              \/ Terminated \/ UNCHANGED vars
    BY <2>11 DEF WorkerStep, LinkEnds, DeadlinePasses, FontSshLingers, FontSshExits,
        Terminated, vars
  <2>12. CASE WindowEvent
    BY <2>12 DEF WindowEvent, KeyEvent, FocusLost, WindowExposed, WindowResized,
        CloseWindow
  <2>13. CASE ApplyDeferred \/ AdvanceNothing \/ IdleWait \/ Present \/ Settle
    BY <2>13 DEF ApplyDeferred, AdvanceNothing, IdleWait, Present, Settle
  <2>14. CASE ActNone
    BY <2>14 DEF ActNone
  <2>15. CASE ActShortcut
    BY <2>15 DEF ActShortcut
  <2>16. ASSUME NEW size \in Sizes, ActDisplaySize(size) PROVE UNCHANGED O!vars
    BY <2>16 DEF ActDisplaySize
  <2> QED
    BY <2>1, <2>3, <2>4, <2>5, <2>6, <2>7, <2>8, <2>9, <2>10, <2>11, <2>12, <2>13, <2>14,
        <2>15, <2>16, <2>17
    DEF Next, LoopStep, AfterEvents
<1> QED
  BY <1>1, <1>2, InvAlways, PTL DEF Spec, OutagePromise, O!Spec
============================================================================
