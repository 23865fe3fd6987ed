---------------------------- MODULE ConnectWalk ----------------------------
(* One connection attempt as its worker thread walks it: connect_impl() in        *)
(* src/src/connect_flow.cpp calling open_connection() in managed_transport.cpp.   *)
(* The routes of the plan are tried in order, each standing up what it needs (a   *)
(* command over ssh, a forward) before a transport connects and the RP handshake  *)
(* runs on it.  The token may be cancelled between any two steps.                 *)
(*                                                                                *)
(* pc is where the worker stands.  At "asking" it waits for the user's decision   *)
(* about a broker's certificate; AsyncConnect carries the question across.        *)
EXTENDS ConnectFlow

CONSTANTS
    Plans,        \* the launch plans profiles give
    FetchFonts    \* ConnectOptions::fetch_fonts

ASSUME WalkAssumption ==
    /\ \A plan \in Plans : plan \in Seq(Routes) /\ plan # <<>>
    /\ FetchFonts \in BOOLEAN

VARIABLES
    pc,            \* where the worker stands
    plan,          \* LaunchPlan::steps
    cancelled,     \* CancelToken::cancelled()
    first,         \* first_step of the next open_connection()
    index,         \* the route being walked
    creds,         \* fetched: the broker's credentials, and whether it offers QUIC
    fetch_failed,  \* fetch_failed: this open_connection()'s broker fetch failed
    children,         \* the ssh children of this attempt
    transport,     \* the transport of the route
    check,         \* BrokerCheck::state the transport was refused with
    asked,         \* this transport's certificate question was asked
    flow,          \* the worker's ConnectFlow
    result,        \* ConnectResult, or at which point the attempt failed
    \* History: what the properties compare the code with.
    fetches,       \* broker commands started by this open_connection()
    late_spawns,   \* children forked after the cancel
    decided        \* the trust decision or the handshake already settled the attempt

substrateVars == <<creds, fetch_failed, fetches>>
routeVars == <<transport, check, asked, decided>>
walkVars == <<pc, plan, cancelled, first, index, substrateVars, children, routeVars, flow,
              result, late_spawns>>

FailPoints == {"preflight", "substrate", "transport", "trust", "protocol", "exception"}
Results == {"none", "ok", "cancelled"} \cup FailPoints

Step == plan[index]
LastRoute == index = Len(plan)

----------------------------------------------------------------------------
\* How an attempt ends: the scope is left, and with it everything it owns.
Ended(outcome, f) ==
    /\ result' = outcome
    /\ flow' = f
    /\ pc' = "unwind"
    /\ UNCHANGED <<plan, cancelled, first, index, substrateVars, children, transport, check,
                   asked, late_spawns>>

finish_cancelled == Ended("cancelled", begin_disconnect(flow))
FailWith(point, f) == Ended(point, fail(f))

\* open_connection() gives up a route and goes on to the next of the plan.
RouteFailed(f) ==
    /\ flow' = step_failed(f, index)
    /\ index' = index + 1
    /\ pc' = "route"

\* connect_impl() gives up a broker route that came up and starts over behind it.
fall_back(f) ==
    /\ flow' = step_failed(f, index)
    /\ first' = index + 1
    /\ transport' = "none"
    /\ pc' = "loop"
    /\ UNCHANGED <<plan, cancelled, index, substrateVars, children, check, asked, result,
                   late_spawns>>

can_fall_back == Step.kind = "broker" /\ ~LastRoute

----------------------------------------------------------------------------
WalkInit ==
    /\ pc = "preflight" /\ plan \in Plans /\ cancelled = FALSE
    /\ first = 1 /\ index = 1
    /\ creds = "none" /\ fetch_failed = FALSE /\ fetches = 0
    /\ children = {}
    /\ transport = "none" /\ check = "none" /\ asked = FALSE /\ decided = FALSE
    /\ flow = NewFlow(plan)
    /\ result = "none" /\ late_spawns = 0

\* No ssh on PATH, or an identity file ssh will not use; a direct route runs no ssh.
Preflight ==
    /\ pc = "preflight"
    /\ UNCHANGED decided
    /\ \/ /\ \E i \in DOMAIN plan : plan[i].kind # "direct"
          /\ FailWith("preflight",
                      enter(begin_step(flow), 1,
                            CHOOSE k \in first_stage(flow.stages[1]) : TRUE))
       \/ /\ pc' = "loop"
          /\ UNCHANGED <<plan, cancelled, first, index, substrateVars, children, transport,
                         check, asked, flow, result, late_spawns>>

\* The top of connect_impl()'s loop: a fresh open_connection() from first_step.
Loop ==
    /\ pc = "loop"
    /\ IF cancelled THEN finish_cancelled /\ UNCHANGED decided
       ELSE /\ pc' = "route"
            /\ index' = first
            /\ creds' = "none" /\ fetch_failed' = FALSE /\ fetches' = 0
            /\ UNCHANGED <<plan, cancelled, first, children, routeVars, flow, result,
                           late_spawns>>

\* What a broker route does once this open_connection() has credentials.
BrokerReady(offer, f) ==
    IF Step.quic /\ offer # "quic" THEN RouteFailed(f)
    ELSE pc' = "transport" /\ flow' = f /\ UNCHANGED index

\* A cancelled attempt never goes on to another route.
WalkEnds == cancelled \/ index > Len(plan)

\* The top of open_connection()'s loop.
Route ==
    /\ pc = "route"
    /\ UNCHANGED <<plan, cancelled, first, substrateVars, children, routeVars, result,
                   late_spawns>>
    /\ IF WalkEnds
       THEN pc' = "no_route" /\ UNCHANGED <<index, flow>>
       ELSE LET began == begin_step(flow) IN
            \/ /\ Step.kind = "broker"
               /\ LET f == enter(began, index, "contacting_broker") IN
                  IF fetch_failed THEN RouteFailed(f)
                  ELSE IF creds # "none" THEN BrokerReady(creds, f)
                  ELSE pc' = "command" /\ flow' = f /\ UNCHANGED index
            \/ /\ Step.kind = "direct"
               /\ pc' = "transport" /\ flow' = began /\ UNCHANGED index
            \/ /\ Step.kind = "tunnel"
               /\ IF Step.cookie
                  THEN pc' = "spawn" /\ flow' = enter(began, index, "starting_tunnel")
                  ELSE pc' = "command" /\ flow' = enter(began, index, "fetching_cookie")
               /\ UNCHANGED index

NoRoute ==
    /\ pc = "no_route"
    /\ UNCHANGED decided
    /\ IF cancelled THEN finish_cancelled ELSE FailWith("substrate", flow)

----------------------------------------------------------------------------
\* A command over ssh (SystemCommandRunner::run): the broker's credentials, the
\* tunnel's session cookie, or the server's fonts on a connection that is up.
Job == IF transport # "none" THEN "fonts"
       ELSE IF Step.kind = "broker" THEN "broker" ELSE "cookie"

\* Mutant: the broker's failure is not remembered for its other route.
FetchFailureForgotten == UNCHANGED fetch_failed

\* A fetch that fails because of the cancel is not the broker's answer.
RememberFetchFailure ==
    fetch_failed' = (fetch_failed \/ (Job = "broker" /\ ~cancelled))

CommandFailed ==
    \/ /\ Job \in {"broker", "cookie"}
       /\ RememberFetchFailure
       /\ RouteFailed(flow)
       /\ UNCHANGED <<first, creds, transport, check, asked, decided, result>>
    \/ /\ Job = "fonts"
       /\ pc' = "fetched"
       /\ UNCHANGED <<first, index, creds, fetch_failed, transport, check, asked, decided,
                      flow, result>>

CommandSucceeded ==
    /\ UNCHANGED <<first, fetch_failed, transport, check, asked, decided, result>>
    /\ \/ /\ Job = "broker"
          /\ \E offer \in {"quic", "plain"} :
               creds' = offer /\ BrokerReady(offer, flow)
       \/ /\ Job = "cookie"
          /\ flow' = enter(flow, index, "starting_tunnel")
          /\ pc' = "spawn"
          /\ UNCHANGED <<index, creds>>
       \/ /\ Job = "fonts"
          /\ pc' = "fetched"
          /\ UNCHANGED <<index, creds, flow>>

\* run() looks at the token, forks, and reads until the end of file, the timeout,
\* too much output, or the token again; the child is reaped before it returns.
CommandStarts ==
    /\ pc = "command"
    /\ UNCHANGED <<plan, cancelled, children, fetches, late_spawns>>
    /\ \/ cancelled /\ CommandFailed
       \/ /\ ~cancelled
          /\ pc' = "fork"
          /\ UNCHANGED <<first, index, creds, fetch_failed, routeVars, flow, result>>

Forked(kind) ==
    /\ children' = children \cup {kind}
    /\ late_spawns' = IF cancelled THEN late_spawns + 1 ELSE late_spawns

CommandForks ==
    /\ pc = "fork"
    /\ pc' = IF cancelled THEN "killing" ELSE "running"
    /\ Forked("command")
    /\ fetches' = IF Job = "broker" THEN fetches + 1 ELSE fetches
    /\ UNCHANGED <<plan, cancelled, first, index, creds, fetch_failed, routeVars, flow,
                   result>>

\* The token is looked at before anything is read, and then each time round.
CommandEnds ==
    /\ \/ pc \in {"running", "killing"} /\ CommandFailed
       \/ pc = "running" /\ CommandSucceeded
    /\ children' = children \ {"command"}
    /\ UNCHANGED <<plan, cancelled, fetches, late_spawns>>

----------------------------------------------------------------------------
\* The tunnel's own ssh: spawn() does not look at the token, wait_ready() does.
SpawnTunnel ==
    /\ pc = "spawn"
    /\ \/ /\ Forked("tunnel")
          /\ flow' = enter(flow, index, "waiting_for_forward")
          /\ pc' = "forward"
          /\ UNCHANGED index
       \/ /\ RouteFailed(flow)
          /\ UNCHANGED <<children, late_spawns>>
    /\ UNCHANGED <<plan, cancelled, first, substrateVars, routeVars, result>>

\* ssh reports the forward listening; or refuses, exits, times out or is cancelled,
\* and is reaped.  Its readiness is looked at before the token.
ForwardSettles ==
    /\ pc = "forward"
    /\ \/ /\ pc' = "transport"
          /\ UNCHANGED <<children, flow, index>>
       \/ /\ children' = children \ {"tunnel"}
          /\ RouteFailed(flow)
    /\ UNCHANGED <<plan, cancelled, first, substrateVars, routeVars, result, late_spawns>>

----------------------------------------------------------------------------
\* make_transport() and the abort hook: from here on a cancel aborts the transport.
MakeTransport ==
    /\ pc = "transport"
    /\ LET f == enter(flow, index, IF Step.kind = "broker" THEN "authenticating"
                                   ELSE "connecting_transport")
       IN  \/ /\ transport' = "made"
              /\ check' = "none" /\ asked' = FALSE
              /\ flow' = f
              /\ pc' = "connect"
              /\ UNCHANGED <<plan, cancelled, first, index, substrateVars, children, decided,
                             result, late_spawns>>
           \/ /\ Step.kind = "broker"   \* this build lacks the transport
              /\ IF can_fall_back THEN fall_back(f) ELSE FailWith("transport", f)
              /\ UNCHANGED decided

\* A certificate that was not accepted is a decision about this host.
\* Mutant: it is one more reason to try the next route.
TrustRefusedFallsBack ==
    IF cancelled THEN finish_cancelled /\ decided' = TRUE
    ELSE IF can_fall_back THEN fall_back(flow) /\ decided' = TRUE
    ELSE FailWith("trust", flow) /\ decided' = TRUE

TrustRefused ==
    /\ decided' = TRUE
    /\ IF cancelled THEN finish_cancelled ELSE FailWith("trust", flow)

\* Transport::connect() inside connect_with_broker_trust().  A broker whose
\* certificate the store does not know, or knows otherwise, is asked about once; a
\* second refusal by the store is final.
Connect ==
    /\ pc = "connect"
    /\ \/ /\ ~cancelled
          /\ transport' = "up"
          /\ flow' = enter(flow, index, "handshake")
          /\ pc' = "handshake"
          /\ UNCHANGED <<plan, cancelled, first, index, substrateVars, children, check, asked,
                         decided, result, late_spawns>>
       \/ /\ ~cancelled /\ Step.kind = "broker" /\ ~asked
          /\ check' \in {"unknown", "changed"}
          /\ pc' = "asking"
          /\ UNCHANGED <<plan, cancelled, first, index, substrateVars, children, transport,
                         asked, decided, flow, result, late_spawns>>
       \/ Step.kind = "broker" /\ asked /\ TrustRefused
       \/ IF cancelled THEN finish_cancelled /\ UNCHANGED decided
          ELSE IF can_fall_back THEN fall_back(flow) /\ UNCHANGED decided
          ELSE FailWith("transport", flow) /\ UNCHANGED decided

\* resolve_broker_trust(): each question has one answer that accepts.
Accepts(choice) ==
    \/ check = "unknown" /\ choice = "trust"
    \/ check = "changed" /\ choice = "replace"

\* Accepted and recorded, the transport connects afresh, against the new record.
TrustDecided(choice) ==
    \/ /\ Accepts(choice)
       /\ asked' = TRUE
       /\ pc' = "connect"
       /\ UNCHANGED <<plan, cancelled, first, index, substrateVars, children, transport,
                      check, decided, flow, result, late_spawns>>
    \/ TrustRefused   \* refused, or the record could not be written

----------------------------------------------------------------------------
\* run_handshake(): RP_UPDATE_DISPLAY_MODE went out, or nothing came of it.
Handshake ==
    /\ pc = "handshake"
    /\ \/ /\ ~cancelled
          /\ flow' = enter(flow, index, "requesting_display")
          /\ pc' = IF Step.kind # "direct" /\ FetchFonts THEN "replay" ELSE "connected"
          /\ UNCHANGED <<plan, cancelled, first, index, substrateVars, children, routeVars,
                         result, late_spawns>>
       \/ \E f \in {flow, enter(flow, index, "requesting_display")} :
            IF cancelled THEN Ended("cancelled", begin_disconnect(f)) /\ UNCHANGED decided
            ELSE FailWith("protocol", f) /\ decided' = TRUE

\* collect_font_replay(), and the fetch of the fonts this host lacks.
FontReplay ==
    /\ pc = "replay"
    /\ \/ /\ pc' \in {"connected", "command"}
          /\ flow' = IF pc' = "connected" THEN flow
                     ELSE enter(add_stage(flow, index, "fetching_fonts"), index,
                                "fetching_fonts")
          /\ UNCHANGED <<plan, cancelled, first, index, substrateVars, children, routeVars,
                         result, late_spawns>>
       \/ IF cancelled THEN finish_cancelled /\ UNCHANGED decided
          ELSE FailWith("protocol", flow) /\ decided' = TRUE

FontsFetched ==
    /\ pc = "fetched"
    /\ UNCHANGED decided
    /\ IF cancelled THEN finish_cancelled
       ELSE /\ pc' = "connected"
            /\ UNCHANGED <<plan, cancelled, first, index, substrateVars, children, transport,
                           check, asked, flow, result, late_spawns>>

\* An exception (out of memory, a thread that cannot start) on the way.
Throws ==
    /\ pc \in {"handshake", "replay", "fetched"}
    /\ FailWith("exception", flow)
    /\ UNCHANGED decided

\* Success: everything moves into the result, out of the scope.
Connected ==
    /\ pc = "connected"
    /\ flow' = connected(flow)
    /\ result' = "ok"
    /\ pc' = "returned"
    /\ UNCHANGED <<plan, cancelled, first, index, substrateVars, children, routeVars,
                   late_spawns>>

\* Leaving the scope destroys the transport, and the tunnel kills and reaps its ssh.
\* Mutant: the tunnel's ssh is left to itself.
ReleaseTransport == transport' = "none" /\ UNCHANGED children

Release == transport' = "none" /\ children' = {}

Unwind ==
    /\ pc = "unwind"
    /\ Release
    /\ pc' = "returned"
    /\ UNCHANGED <<plan, cancelled, first, index, substrateVars, check, asked, decided,
                   flow, result, late_spawns>>

WalkStep ==
    \/ Preflight \/ Loop \/ Route \/ NoRoute
    \/ CommandStarts \/ CommandForks \/ CommandEnds \/ SpawnTunnel \/ ForwardSettles
    \/ MakeTransport \/ Connect \/ Handshake \/ FontReplay \/ FontsFetched \/ Throws
    \/ Connected \/ Unwind

WalkTypeOK ==
    /\ pc \in {"preflight", "loop", "route", "no_route", "command", "fork", "running",
               "killing", "spawn", "forward", "transport", "connect", "asking", "asked", "checking",
               "blocking", "asleep", "handshake", "replay", "fetched", "connected",
               "unwind", "returned", "settled", "exited"}
    /\ plan \in Plans /\ cancelled \in BOOLEAN
    /\ first \in 1..Len(plan) + 1 /\ index \in 1..Len(plan) + 1
    /\ creds \in {"none", "quic", "plain"} /\ fetch_failed \in BOOLEAN /\ fetches \in Nat
    /\ children \subseteq {"command", "tunnel"}
    /\ transport \in {"none", "made", "up"} /\ check \in {"none", "unknown", "changed"}
    /\ asked \in BOOLEAN /\ decided \in BOOLEAN
    /\ flow \in [state : FlowState, stages : [DOMAIN plan -> [StageKind -> Listed]]]
    /\ result \in Results /\ late_spawns \in Nat
============================================================================
