------------------------- MODULE ReconnectPolicy -------------------------
(* The reconnect decision of src/src/reconnect.cpp: what an ending means, which   *)
(* endings may be retried, how long a retry waits, and the bookkeeping of one     *)
(* outage (ReconnectSchedule).  Pure operators; DesktopController drives them     *)
(* over time.                                                                     *)
EXTENDS Integers

CONSTANTS
    Enabled,      \* ReconnectConfig::enabled
    MaxAttempts,  \* ReconnectConfig::max_attempts
    BaseBackoff,  \* ReconnectConfig::base_backoff, in milliseconds
    MaxBackoff    \* ReconnectConfig::max_backoff, in milliseconds

\* parse_reconnect_argument admits a count of zero or more and a base of one or more.
ASSUME ConfigAssumption ==
    /\ Enabled \in BOOLEAN
    /\ MaxAttempts \in Nat
    /\ BaseBackoff \in Nat \ {0}
    /\ MaxBackoff \in Nat \ {0}

ConnectionOutcome ==
    {"server_closed", "evicted", "refused", "missing_credential",
     "transport_dropped", "connect_failed", "completed"}

\* The transports' failures, up to what the policy tells apart.
ConnectFailure == {"none", "missing_credential", "quic_alpn_refused", "other"}

\* The message count only matters as zero or not: 1 stands for any number.
ConnectionResult ==
    [connected : BOOLEAN, connect_failure : ConnectFailure, message_count : 0..1,
     server_closed : BOOLEAN, peer_closed : BOOLEAN, connection_reset : BOOLEAN,
     reached_deadline : BOOLEAN, through_forward : BOOLEAN]

NeverConnected(failure) ==
    CASE failure = "missing_credential" -> "missing_credential"
      [] failure = "quic_alpn_refused"  -> "refused"
      [] OTHER                          -> "connect_failed"

\* A reset is app_server's eviction, except where it can only be ssh failing to
\* open the remote end of a forward.
ResetOutcome(result) ==
    IF result.through_forward /\ result.message_count = 0
    THEN "connect_failed" ELSE "evicted"

\* Mutant: an ending that carried messages counts as a drop before the reset is looked at.
ClassifyDropFirst(result) ==
    IF ~result.connected THEN NeverConnected(result.connect_failure)
    ELSE IF result.server_closed THEN "server_closed"
    ELSE IF result.message_count > 0 THEN "transport_dropped"
    ELSE IF result.connection_reset THEN ResetOutcome(result)
    ELSE "refused"

classify_connection(result) ==
    IF ~result.connected THEN NeverConnected(result.connect_failure)
    ELSE IF result.server_closed THEN "server_closed"
    ELSE IF result.connection_reset THEN ResetOutcome(result)
    ELSE IF result.reached_deadline THEN "completed"
    ELSE IF result.message_count = 0 THEN "refused"
    ELSE "transport_dropped"

outcome_is_retriable(outcome) == outcome \in {"transport_dropped", "connect_failed"}

\* Mutant: one attempt more than configured.
ShouldRetryOneMore(outcome, attempts) ==
    Enabled /\ MaxAttempts > 0 /\ attempts <= MaxAttempts /\ outcome_is_retriable(outcome)

should_retry(outcome, attempts) ==
    /\ Enabled
    /\ MaxAttempts > 0
    /\ attempts < MaxAttempts
    /\ outcome_is_retriable(outcome)

Least(a, b) == IF a <= b THEN a ELSE b

\* base_backoff doubled n times; doubling stops once the cap is reached.
Doubled[n \in Nat] ==
    IF n = 0 THEN BaseBackoff
    ELSE IF Doubled[n - 1] >= MaxBackoff THEN MaxBackoff ELSE 2 * Doubled[n - 1]

backoff_for(attempts) == Least(Doubled[attempts], MaxBackoff)

----------------------------------------------------------------------------
\* ReconnectSchedule, the fields its operations write.  When the pending attempt
\* is due is kept by the modules that have a clock.
ReconnectSchedule ==
    [attempts : Nat, pending : BOOLEAN, gave_up : BOOLEAN, exhausted : BOOLEAN,
     last_outcome : ConnectionOutcome]

NewSchedule ==
    [attempts |-> 0, pending |-> FALSE, gave_up |-> FALSE, exhausted |-> FALSE,
     last_outcome |-> "completed"]

\* Mutant: every ending starts counting attempts afresh, as a request does.
ScheduleEndedAfresh(s, outcome) ==
    [s EXCEPT !.last_outcome = outcome, !.attempts = 0,
              !.pending = should_retry(outcome, 0), !.gave_up = ~should_retry(outcome, 0)]

ScheduleEnded(s, outcome) ==
    IF should_retry(outcome, s.attempts)
    THEN [s EXCEPT !.last_outcome = outcome, !.pending = TRUE,
                   !.gave_up = FALSE, !.exhausted = FALSE]
    ELSE [s EXCEPT !.last_outcome = outcome, !.pending = FALSE, !.gave_up = TRUE,
                   !.exhausted = /\ Enabled
                                 /\ outcome_is_retriable(outcome)
                                 /\ s.attempts >= MaxAttempts]

ScheduleRequested(s) ==
    [s EXCEPT !.attempts = 0, !.pending = TRUE, !.gave_up = FALSE, !.exhausted = FALSE]

ScheduleAttempted(s) == [s EXCEPT !.pending = FALSE, !.attempts = @ + 1]

ScheduleEstablished(s) ==
    [s EXCEPT !.attempts = 0, !.gave_up = FALSE, !.exhausted = FALSE]
============================================================================
