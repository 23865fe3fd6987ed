---------------------------- MODULE ConnectFlow ----------------------------
(* The progress checklist of src/src/connect_flow.cpp (class ConnectFlow) and the *)
(* plan of routes it is laid out from (plan_launch in profile_launch.cpp): what   *)
(* the connect screen shows while an attempt walks its routes.  Pure operators on *)
(* a flow record; ConnectWalk drives them.                                        *)
EXTENDS Sequences, Integers

StageKind ==
    {"contacting_broker", "authenticating", "fetching_cookie", "starting_tunnel",
     "waiting_for_forward", "connecting_transport", "handshake", "requesting_display",
     "fetching_fonts"}
StageState == {"pending", "active", "done", "failed", "skipped"}
Listed == StageState \cup {"absent"}   \* of a kind of stage in a route that may lack it
FlowState == {"idle", "connecting", "connected", "failed", "disconnecting"}

\* The order of a route's stages, in which StageKind has them too.
Rank(kind) ==
    CASE kind = "contacting_broker"    -> 1 [] kind = "authenticating"    -> 2
      [] kind = "fetching_cookie"      -> 3 [] kind = "starting_tunnel"   -> 4
      [] kind = "waiting_for_forward"  -> 5 [] kind = "connecting_transport" -> 6
      [] kind = "handshake"            -> 7 [] kind = "requesting_display" -> 8
      [] kind = "fetching_fonts"       -> 9

\* A route of the plan; "cookie" says whether cookie_source already supplied it.
Routes == [kind : {"broker", "tunnel", "direct"}, quic : BOOLEAN, cookie : BOOLEAN]
broker_step == [kind |-> "broker", quic |-> FALSE, cookie |-> FALSE]
quic_step == [kind |-> "broker", quic |-> TRUE, cookie |-> FALSE]
tunnel_step(cookie) == [kind |-> "tunnel", quic |-> FALSE, cookie |-> cookie]
direct_step(cookie) == [kind |-> "direct", quic |-> FALSE, cookie |-> cookie]

Modes == {"wss", "quic", "ssh", "direct", "automatic"}

\* Only automatic mode has anywhere to fall back to; QUIC needs TLS.
plan_launch(mode, cookie, wss_available, quic_available) ==
    CASE mode = "wss"    -> <<broker_step>>
      [] mode = "quic"   -> <<quic_step>>
      [] mode = "ssh"    -> <<tunnel_step(cookie)>>
      [] mode = "direct" -> <<direct_step(cookie)>>
      [] mode = "automatic" ->
           IF ~wss_available THEN <<tunnel_step(cookie)>>
           ELSE (IF quic_available THEN <<quic_step>> ELSE <<>>)
                \o <<broker_step, tunnel_step(cookie)>>

route_stages(step) ==
    CASE step.kind = "broker" ->
           {"contacting_broker", "authenticating", "handshake", "requesting_display"}
      [] step.kind = "direct" -> {"connecting_transport", "handshake", "requesting_display"}
      [] step.kind = "tunnel" ->
           (IF step.cookie THEN {} ELSE {"fetching_cookie"})
           \cup {"starting_tunnel", "waiting_for_forward", "connecting_transport",
                 "handshake", "requesting_display"}

----------------------------------------------------------------------------
\* stages_, by route and kind: each route has a stage of a kind at most once.

NewFlow(plan) ==
    [state |-> "idle",
     stages |-> [i \in DOMAIN plan |->
                   [k \in StageKind |->
                      IF k \in route_stages(plan[i]) THEN "pending" ELSE "absent"]]]

Stages(flow) == (DOMAIN flow.stages) \X StageKind
InState(flow, state) == {p \in Stages(flow) : flow.stages[p[1]][p[2]] = state}
Active(flow) == InState(flow, "active")

\* The order of stages_: by route, and by kind within one.
Before(p, q) == p[1] < q[1] \/ (p[1] = q[1] /\ Rank(p[2]) < Rank(q[2]))

\* A route's first stage.
first_stage(row) ==
    {k \in StageKind : /\ row[k] # "absent"
                       /\ \A j \in StageKind : row[j] # "absent" => Rank(k) <= Rank(j)}

\* Some of the stages move to a state.
Marked(flow, places, state) ==
    [flow EXCEPT !.stages =
        [i \in DOMAIN flow.stages |->
            [k \in StageKind |-> IF <<i, k>> \in places THEN state ELSE flow.stages[i][k]]]]

begin_step(flow) == [flow EXCEPT !.state = "connecting"]

\* Earlier stages of the same route are behind; a stage the route lacks is ignored.
enter(flow, step, kind) ==
    LET row == flow.stages[step]
        Behind(k) == Rank(k) < Rank(kind) /\ row[k] \in {"active", "pending"}
    IN  IF row[kind] = "absent" THEN flow
        ELSE [state |-> "connecting",
              stages |-> [flow.stages EXCEPT ![step] =
                 [k \in StageKind |-> IF k = kind THEN "active"
                                      ELSE IF Behind(k) THEN "done" ELSE row[k]]]]

\* A stage learned only underway; the one there is comes behind the route's others.
add_stage(flow, step, kind) ==
    IF flow.stages[step][kind] # "absent" THEN flow
    ELSE [flow EXCEPT !.stages[step] = [@ EXCEPT ![kind] = "pending"]]

\* The route's stages when it is given up, those in "failing" having failed.
GivenUp(flow, step, failing) ==
    [flow EXCEPT !.stages[step] =
        [k \in StageKind |-> IF k \in failing THEN "failed"
                             ELSE IF flow.stages[step][k] = "pending" THEN "skipped"
                             ELSE flow.stages[step][k]]]

step_failed(flow, step) ==
    LET running == {k \in StageKind : flow.stages[step][k] = "active"}
    IN  GivenUp(flow, step, IF running # {} THEN running ELSE first_stage(flow.stages[step]))

\* active_stage(): the first of them.
active_stage(flow) == {p \in Active(flow) : \A q \in Active(flow) : ~Before(q, p)}

connected(flow) == [Marked(flow, active_stage(flow), "done") EXCEPT !.state = "connected"]

fail(flow) == [Marked(flow, active_stage(flow), "failed") EXCEPT !.state = "failed"]

begin_disconnect(flow) ==
    [Marked(flow, active_stage(flow) \cup InState(flow, "pending"), "skipped")
        EXCEPT !.state = "disconnecting"]

finish_disconnect(flow) == [flow EXCEPT !.state = "idle"]
============================================================================
