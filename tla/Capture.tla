------------------------------- MODULE Capture -------------------------------
(* The headless client's loop (main.cpp): connect, receive until the capture window  *)
(* is over, reconnect under ReconnectSchedule, write the picture, exit.  Unlike the  *)
(* desktop it never calls established().                                             *)
(* Time is counted in steps of the base backoff.                                     *)
EXTENDS ReconnectPolicy

CONSTANTS Seconds,    \* --seconds
          Horizon    \* bound: how far the clock runs before the window is open

\* Later than any time that matters.
NoDeadline == Horizon + Seconds + (MaxAttempts + 2) * MaxBackoff

VARIABLES
    profile,       \* a profile launch: the window opens with the first connection
    clock, deadline, due,
    schedule,      \* ReconnectSchedule
    reconnects,
    doing,         \* "connect", "receive", "wait", "write", "exited"
    heard,         \* the messages of this connection, as zero or not
    drawn,         \* total_messages
    connected_at_all, orderly_end, session_began,
    status

headlessVars == <<profile, clock, deadline, due, schedule, reconnects, doing, heard, drawn,
                 connected_at_all, orderly_end, session_began, status>>
clockPart == <<profile, clock, deadline, due>>

CaptureInit ==
    /\ profile \in BOOLEAN
    /\ clock = 0 /\ due = 0
    /\ deadline = IF profile THEN NoDeadline ELSE Seconds
    /\ schedule = NewSchedule /\ reconnects = 0
    /\ doing = "connect" /\ heard = 0 /\ drawn = 0
    /\ connected_at_all = FALSE /\ orderly_end = FALSE /\ session_began = FALSE
    /\ status = "none"

Exits(with) == doing' = "exited" /\ status' = with

\* An attempt ended with `result`: what run_capture() makes of it.
Judged(result) ==
    LET outcome == classify_connection(result)
        next    == ScheduleEnded(schedule, outcome)
        at      == clock + backoff_for(schedule.attempts) \div BaseBackoff
    IN /\ drawn' = IF heard = 1 THEN 1 ELSE drawn
       /\ orderly_end' = (outcome \in {"server_closed", "completed"} \/ result.peer_closed)
       /\ IF result.connect_failure = "missing_credential" /\ reconnects = 0
          THEN Exits("no_credential") /\ UNCHANGED <<schedule, due>>
          ELSE /\ schedule' = next
               /\ due' = IF next.pending THEN at ELSE due
               /\ doing' = IF next.pending /\ at < deadline THEN "wait" ELSE "write"
               /\ UNCHANGED status

NoResult ==
    [connected |-> FALSE, connect_failure |-> "none", message_count |-> 0,
     server_closed |-> FALSE, peer_closed |-> FALSE, connection_reset |-> FALSE,
     reached_deadline |-> FALSE, through_forward |-> FALSE]

\* run_one_connection() up to an open link.  The session began with the handshake.
ConnectSucceeds ==
    /\ doing = "connect" /\ doing' = "receive"
    /\ connected_at_all' = TRUE /\ session_began' = TRUE
    /\ deadline' = IF deadline = NoDeadline THEN clock + Seconds ELSE deadline
    /\ UNCHANGED <<profile, clock, due, schedule, reconnects, heard, drawn, orderly_end, status>>

\* A failure the policy weighs; one it never sees: a malformed URL, a certificate nobody
\* trusts, a cause no retry changes.
ConnectFails ==
    /\ doing = "connect"
    /\ \/ \E failure \in ConnectFailure \ {"none"} :
             Judged([NoResult EXCEPT !.connect_failure = failure])
       \/ /\ \E with \in {"usage", "untrusted_broker", "failed"} : Exits(with)
          /\ UNCHANGED <<drawn, orderly_end, schedule, due>>
    /\ UNCHANGED <<profile, clock, deadline, reconnects, heard, connected_at_all, session_began>>

Hears ==
    /\ doing = "receive" /\ clock < deadline /\ heard' = 1
    /\ UNCHANGED <<clockPart, schedule, reconnects, doing, drawn, connected_at_all,
                   orderly_end, session_began, status>>

\* Nothing in this loop catches what ingest() throws: main() does.
IngestThrows ==
    /\ doing = "receive" /\ clock < deadline
    /\ Exits("usage")
    /\ UNCHANGED <<clockPart, schedule, reconnects, heard, drawn, connected_at_all,
                   orderly_end, session_began>>

\* RP_CLOSE_CONNECTION; the stream closed, reset or broken; or the window is over.
ReceiveEnds ==
    /\ doing = "receive"
    /\ \E forward \in BOOLEAN :
         LET result == [NoResult EXCEPT !.connected = TRUE, !.message_count = heard,
                                        !.through_forward = forward]
         IN \/ clock < deadline /\ \E how \in {"server_closed", "peer_closed", "connection_reset"} :
                  /\ how = "server_closed" => heard = 1
                  /\ Judged([result EXCEPT ![how] = TRUE])
            \/ clock < deadline /\ Judged(result)
            \/ clock >= deadline /\ Judged([result EXCEPT !.reached_deadline = TRUE])
    /\ UNCHANGED <<profile, clock, deadline, reconnects, heard, connected_at_all, session_began>>

\* Mutant: as the desktop does, the budget refills with a connection that carried a session.
ReconnectsAfresh ==
    /\ doing = "wait" /\ clock >= due
    /\ doing' = "connect" /\ heard' = 0
    /\ schedule' = ScheduleAttempted(IF heard = 1 THEN ScheduleEstablished(schedule) ELSE schedule)
    /\ reconnects' = reconnects + 1
    /\ UNCHANGED <<clockPart, drawn, connected_at_all, orderly_end, session_began, status>>

\* sleep_until(due) is over: the attempt is counted, the session reset.
Reconnects ==
    /\ doing = "wait" /\ clock >= due
    /\ doing' = "connect" /\ heard' = 0
    /\ schedule' = ScheduleAttempted(schedule) /\ reconnects' = reconnects + 1
    /\ UNCHANGED <<clockPart, drawn, connected_at_all, orderly_end, session_began, status>>

\* The picture is written, or cannot be; the exit status says how the capture ended.
WritesPicture ==
    /\ doing = "write"
    /\ \/ connected_at_all /\ orderly_end /\ drawn = 1 /\ Exits("ok")
       \/ Exits("failed")
    /\ UNCHANGED <<clockPart, schedule, reconnects, heard, drawn, connected_at_all,
                   orderly_end, session_began>>

\* Connecting, receiving and sleeping take time.  (Past the deadline nothing is different.)
Passes ==
    /\ \/ doing \in {"connect", "receive"}
          /\ clock < IF deadline = NoDeadline THEN Horizon ELSE deadline
       \/ doing = "wait" /\ clock < due
    /\ clock' = clock + 1
    /\ UNCHANGED <<profile, deadline, due, schedule, reconnects, doing, heard, drawn,
                   connected_at_all, orderly_end, session_began, status>>

Exited == doing = "exited" /\ UNCHANGED headlessVars

CaptureNext ==
    \/ ConnectSucceeds \/ ConnectFails \/ Hears \/ IngestThrows \/ ReceiveEnds
    \/ Reconnects \/ WritesPicture \/ Passes \/ Exited

CaptureSpec == CaptureInit /\ [][CaptureNext]_headlessVars

----------------------------------------------------------------------------
(* Properties. *)

\* --reconnect-max-attempts bounds the reconnects of the whole run, however many of the
\* connections in between went well.
CaptureBounded == reconnects <= IF Enabled THEN MaxAttempts ELSE 0

\* Status 2 says "Bad arguments, or anything else that threw before the session began".
UsageBeforeSession == status = "usage" => ~session_began
=============================================================================
