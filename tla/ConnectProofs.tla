--------------------------- MODULE ConnectProofs ---------------------------
(* What AsyncConnect promises, for every set of launch plans: the checklist shows  *)
(* one stage at a time and tells the end, finished() means torn down, a cancel     *)
(* wins over a success, and the walk implements RouteFallback.                     *)
EXTENDS AsyncConnect, TLAPS

----------------------------------------------------------------------------
\* The inductive invariant, in parts.

AskingPoints == {"asking", "asked", "checking", "blocking", "asleep"}
CommandPoints == {"command", "fork", "running", "killing"}
\* A route is on the way; the worker is between routes; the walk is over.
OnRoute == CommandPoints \cup AskingPoints
           \cup {"spawn", "forward", "transport", "connect", "handshake", "replay", "fetched",
                 "connected"}
Walked == {"unwind", "returned", "settled", "exited"}

\* Which route, and what of it stands, where the worker is.
RouteInv ==
    /\ pc \in OnRoute => index \in DOMAIN plan
    /\ pc = "preflight" => first = 1 /\ index = 1
    /\ pc = "loop" => first >= index
    /\ pc \in OnRoute \cup {"route", "no_route"} => first <= index
    /\ pc = "no_route" => cancelled \/ index > Len(plan)
    /\ pc \in AskingPoints => Step.kind = "broker"
    /\ pc \in {"spawn", "forward"} => Step.kind = "tunnel"
    /\ pc \in CommandPoints /\ transport = "none" => Step.kind # "direct"
    /\ pc \in {"preflight", "loop", "route", "no_route", "spawn", "forward", "transport"}
         => transport = "none"
    /\ pc \in AskingPoints \cup {"connect"} => transport = "made"
    /\ pc \in {"handshake", "replay", "fetched", "connected"} => transport = "up"
    /\ pc \in CommandPoints => transport \in {"none", "up"}

\* Nothing is settled while the walk goes on, and something is once it is over.
ResultInv ==
    /\ pc \notin Walked => result = "none" /\ ~decided
    /\ pc \in Walked => result # "none" /\ (pc = "unwind" => result # "ok")
    /\ pc \in Walked \ {"unwind"} /\ result # "ok" => children = {} /\ transport = "none"
    /\ pc \in Walked \ {"unwind"} /\ result = "ok" /\ opc # "over" => transport = "up"

\* A broker command has been started at most once, and never again.
FetchInv ==
    /\ fetches <= 1
    /\ pc \in {"command", "fork"} /\ Job = "broker" => fetches = 0
    /\ fetches = 1 =>
         \/ creds # "none" \/ fetch_failed \/ cancelled
         \/ pc \in {"running", "killing"} /\ Job = "broker"

\* A child forked after the cancel: the walk has only its end before it.
LateInv ==
    /\ late_spawns <= 1
    /\ late_spawns = 1 =>
         /\ cancelled
         /\ pc \in {"killing", "forward", "transport", "connect", "fetched", "route",
                    "no_route"} \cup Walked
         /\ pc \in {"transport", "connect"} => Step.kind = "tunnel"

\* What the owner has, the worker has handed over.
OwnerInv ==
    /\ finished <=> pc = "exited"
    /\ opc = "over" => finished
    /\ opc # "over" => outcome = "none"
    /\ outcome = "desktop" => result = "ok" /\ ~cancelled /\ transport = "up"

\* The types of everything but the checklist.
Flags ==
    /\ cancelled \in BOOLEAN /\ fetch_failed \in BOOLEAN /\ asked \in BOOLEAN
    /\ decided \in BOOLEAN /\ finished \in BOOLEAN
Points == {"preflight", "loop", "route", "no_route"} \cup OnRoute \cup Walked
Places ==
    /\ plan \in Plans
    /\ first \in 1..Len(plan) + 1 /\ index \in 1..Len(plan) + 1
    /\ shown \in 0..Len(plan) /\ question \in 0..Len(plan)
    /\ fetches \in Nat /\ late_spawns \in Nat
Things ==
    /\ creds \in {"none", "quic", "plain"}
    /\ transport \in {"none", "made", "up"} /\ check \in {"none", "unknown", "changed"}
    /\ result \in Results
    /\ owner \in {"screen", "link"}
    /\ opc \in {"poll", "prompt", "act", "notify", "join", "over"}
    /\ answer \in {"none"} \cup TrustChoices
    /\ outcome \in {"none", "desktop", "error", "cancelled"}
Types == /\ Flags /\ Places /\ Things
         /\ pc \in Points /\ children \subseteq {"command", "tunnel"}

WalkInv == Types /\ RouteInv /\ ResultInv /\ FetchInv /\ LateInv /\ OwnerInv

----------------------------------------------------------------------------
\* The checklist.

Quiet(f) == \A i \in DOMAIN f.stages, k \in StageKind : f.stages[i][k] # "active"
Running(f, i, k) ==
    \A j \in DOMAIN f.stages, l \in StageKind : f.stages[j][l] = "active" <=> j = i /\ l = k
NothingPending(f) ==
    \A i \in DOMAIN f.stages, k \in StageKind : f.stages[i][k] # "pending"
HasFailed(f, i) == \E k \in StageKind : f.stages[i][k] = "failed"
\* Every stage its route has is on the list.
Complete(f) ==
    \A i \in DOMAIN plan : \A k \in route_stages(plan[i]) : f.stages[i][k] # "absent"

\* The stage that runs where the worker stands; a direct route reaches its transport
\* with none.
StageNow ==
    CASE pc \in CommandPoints ->
           IF Job = "broker" THEN {"contacting_broker"}
           ELSE IF Job = "cookie" THEN {"fetching_cookie"} ELSE {"fetching_fonts"}
      [] pc = "spawn" -> {"starting_tunnel"}
      [] pc = "forward" -> {"waiting_for_forward"}
      [] pc = "transport" ->
           IF Step.kind = "broker" THEN {"contacting_broker"} ELSE {"waiting_for_forward"}
      [] pc \in {"connect"} \cup AskingPoints ->
           IF Step.kind = "broker" THEN {"authenticating"} ELSE {"connecting_transport"}
      [] pc = "handshake" -> {"handshake"}
      [] pc = "replay" -> {"requesting_display"}
      [] pc = "fetched" -> {"fetching_fonts"}
      [] pc = "connected" -> {"requesting_display", "fetching_fonts"}

StageInv ==
    /\ pc \in OnRoute => IF pc = "transport" /\ Step.kind = "direct" THEN Quiet(flow)
                         ELSE \E k \in StageNow : Running(flow, index, k)
    /\ pc \notin OnRoute => Quiet(flow)

\* Before the walk is over every route that was given up shows what failed.
GivenUpInv ==
    pc \notin Walked =>
        /\ Complete(flow)
        /\ \A i \in DOMAIN plan : i < first \/ i < index => HasFailed(flow, i)

EndInv ==
    pc \in Walked =>
        CASE result = "ok" -> flow.state = "connected"
          [] result = "cancelled" ->
               /\ flow.state = IF pc = "exited" THEN "idle" ELSE "disconnecting"
               /\ NothingPending(flow)
          [] OTHER -> flow.state = "failed" /\ \E i \in DOMAIN plan : HasFailed(flow, i)

Checklists(D) == [state : FlowState, stages : [D -> [StageKind -> Listed]]]

FlowInv == flow \in Checklists(DOMAIN plan) /\ StageInv /\ GivenUpInv /\ EndInv

----------------------------------------------------------------------------
\* The operations of the checklist, one lemma each.

LEMMA BeginStepFacts ==
    ASSUME NEW D, NEW f \in Checklists(D)
    PROVE  /\ begin_step(f) \in Checklists(D)
           /\ begin_step(f).stages = f.stages
BY DEF begin_step, Checklists, FlowState

\* What enter() does to the other stages.
LEMMA EnterFacts ==
    ASSUME NEW D, NEW f \in Checklists(D), NEW i \in D, NEW k \in StageKind
    PROVE  /\ enter(f, i, k) \in Checklists(D)
           /\ \A j \in D \ {i} : enter(f, i, k).stages[j] = f.stages[j]
           /\ \A j \in D, l \in StageKind :
                 f.stages[j][l] # "absent" => enter(f, i, k).stages[j][l] # "absent"
<1>1. CASE f.stages[i][k] = "absent"
  <2>1. enter(f, i, k) = f
    BY <1>1 DEF enter
  <2> QED
    BY <2>1
<1>2. CASE f.stages[i][k] # "absent"
  <2> DEFINE row == [l \in StageKind |->
                IF l = k THEN "active"
                ELSE IF Rank(l) < Rank(k) /\ f.stages[i][l] \in {"active", "pending"}
                     THEN "done" ELSE f.stages[i][l]]
  <2>1. enter(f, i, k) = [state |-> "connecting", stages |-> [f.stages EXCEPT ![i] = row]]
    BY <1>2 DEF enter
  <2>2. f.stages \in [D -> [StageKind -> Listed]]
    BY DEF Checklists
  <2>3. row \in [StageKind -> Listed]
    BY <2>2 DEF Listed, StageState
  <2>4. \A l \in StageKind : f.stages[i][l] # "absent" => row[l] # "absent"
    OBVIOUS
  <2> HIDE DEF row
  <2> QED
    BY <2>1, <2>2, <2>3, <2>4 DEF Checklists, FlowState
<1> QED
  BY <1>1, <1>2

\* What enter() starts is all that runs, if what ran before came earlier in the route.
LEMMA EnterRuns ==
    ASSUME NEW D, NEW f \in Checklists(D), NEW i \in D, NEW k \in StageKind,
           f.stages[i][k] # "absent",
           \A j \in D, l \in StageKind :
              f.stages[j][l] = "active" => j = i /\ (l = k \/ Rank(l) < Rank(k))
    PROVE  Running(enter(f, i, k), i, k)
<1> DEFINE row == [l \in StageKind |->
              IF l = k THEN "active"
              ELSE IF Rank(l) < Rank(k) /\ f.stages[i][l] \in {"active", "pending"}
                   THEN "done" ELSE f.stages[i][l]]
<1>1. enter(f, i, k) = [state |-> "connecting", stages |-> [f.stages EXCEPT ![i] = row]]
  BY DEF enter
<1>2. f.stages \in [D -> [StageKind -> Listed]]
  BY DEF Checklists
<1>3. \A l \in StageKind : row[l] = "active" <=> l = k
  BY <1>2
<1> HIDE DEF row
<1>4. enter(f, i, k).stages = [f.stages EXCEPT ![i] = row]
  BY <1>1
<1>5. \A j \in D : enter(f, i, k).stages[j] = IF j = i THEN row ELSE f.stages[j]
  BY <1>2, <1>4
<1>6. DOMAIN enter(f, i, k).stages = D
  BY <1>2, <1>4
<1> QED
  BY <1>3, <1>5, <1>6 DEF Running

LEMMA AddStageFacts ==
    ASSUME NEW D, NEW f \in Checklists(D), NEW i \in D, NEW k \in StageKind
    PROVE  /\ add_stage(f, i, k) \in Checklists(D)
           /\ \A j \in D \ {i} : add_stage(f, i, k).stages[j] = f.stages[j]
           /\ \A j \in D, l \in StageKind :
                 /\ f.stages[j][l] # "absent" => add_stage(f, i, k).stages[j][l] # "absent"
                 /\ add_stage(f, i, k).stages[j][l] = "active" <=> f.stages[j][l] = "active"
           /\ add_stage(f, i, k).stages[i][k] # "absent"
<1>1. f.stages \in [D -> [StageKind -> Listed]]
  BY DEF Checklists
<1>2. CASE f.stages[i][k] # "absent"
  BY <1>2 DEF add_stage
<1>3. CASE f.stages[i][k] = "absent"
  <2>1. add_stage(f, i, k)
          = [f EXCEPT !.stages = [f.stages EXCEPT ![i] = [f.stages[i] EXCEPT ![k] = "pending"]]]
    BY <1>3 DEF add_stage, Checklists
  <2>2. [f.stages[i] EXCEPT ![k] = "pending"] \in [StageKind -> Listed]
    BY <1>1 DEF Listed, StageState
  <2>3. /\ add_stage(f, i, k) \in Checklists(D)
        /\ add_stage(f, i, k).stages
              = [f.stages EXCEPT ![i] = [f.stages[i] EXCEPT ![k] = "pending"]]
    BY <1>1, <2>1, <2>2 DEF Checklists
  <2> QED
    BY <1>1, <1>3, <2>3
<1> QED
  BY <1>2, <1>3

\* A route given up while a stage of it ran shows that stage failed.
LEMMA StepFailedFacts ==
    ASSUME NEW D, NEW f \in Checklists(D), NEW i \in D, NEW k \in StageKind,
           Running(f, i, k)
    PROVE  /\ step_failed(f, i) \in Checklists(D)
           /\ Quiet(step_failed(f, i))
           /\ HasFailed(step_failed(f, i), i)
           /\ \A j \in D \ {i} : step_failed(f, i).stages[j] = f.stages[j]
           /\ \A j \in D, l \in StageKind :
                 f.stages[j][l] # "absent" => step_failed(f, i).stages[j][l] # "absent"
<1> DEFINE row == [l \in StageKind |->
              IF l \in {k} THEN "failed"
              ELSE IF f.stages[i][l] = "pending" THEN "skipped" ELSE f.stages[i][l]]
<1>1. f.stages \in [D -> [StageKind -> Listed]]
  BY DEF Checklists
<1>2. {l \in StageKind : f.stages[i][l] = "active"} = {k}
  BY <1>1 DEF Running
<1>3. step_failed(f, i) = [f EXCEPT !.stages = [f.stages EXCEPT ![i] = row]]
  BY <1>2 DEF step_failed, GivenUp, Checklists
<1>4. /\ row \in [StageKind -> Listed]
      /\ \A l \in StageKind : /\ row[l] # "active"
                              /\ f.stages[i][l] # "absent" => row[l] # "absent"
      /\ row[k] = "failed"
  BY <1>1, <1>2 DEF Listed, StageState
<1> HIDE DEF row
<1>5. /\ step_failed(f, i) \in Checklists(D)
      /\ step_failed(f, i).stages = [f.stages EXCEPT ![i] = row]
  BY <1>1, <1>3, <1>4 DEF Checklists
<1> QED
  BY <1>1, <1>4, <1>5 DEF Running, Quiet, HasFailed

----------------------------------------------------------------------------
\* The operations on the running stage, whichever it is.

\* active_stage() is the stage that runs; without one it is none.
LEMMA ActiveStageFacts ==
    ASSUME NEW D \in SUBSET Int, NEW f \in Checklists(D)
    PROVE  /\ Quiet(f) => active_stage(f) = {}
           /\ \A i \in D, k \in StageKind : Running(f, i, k) => active_stage(f) = {<<i, k>>}
<1>1. DOMAIN f.stages = D
  BY DEF Checklists
<1>2. ASSUME Quiet(f)
      PROVE  active_stage(f) = {}
  BY <1>1, <1>2 DEF Quiet, active_stage, Active, InState, Stages
<1>3. ASSUME NEW i \in D, NEW k \in StageKind, Running(f, i, k)
      PROVE  active_stage(f) = {<<i, k>>}
  <2>1. \A p \in Stages(f) : f.stages[p[1]][p[2]] = "active" <=> p = <<i, k>>
    BY <1>1, <1>3 DEF Running, Stages
  <2>2. <<i, k>> \in Stages(f)
    BY <1>1 DEF Stages
  <2>3. Active(f) = {<<i, k>>}
    BY <2>1, <2>2 DEF Active, InState
  <2>4. ~Before(<<i, k>>, <<i, k>>)
    <3>1. Rank(k) \in Int
      BY DEF Rank, StageKind
    <3> QED
      BY <3>1 DEF Before
  <2> QED
    BY <2>3, <2>4 DEF active_stage
<1> QED
  BY <1>2, <1>3

AtMostOne(f) == Quiet(f) \/ \E i \in DOMAIN f.stages, k \in StageKind : Running(f, i, k)

\* What is left of a checklist when some of its stages move to a state.
LEMMA MarkedFacts ==
    ASSUME NEW D, NEW f \in Checklists(D), NEW places, NEW state \in Listed
    PROVE  /\ Marked(f, places, state) \in Checklists(D)
           /\ \A i \in D, k \in StageKind :
                 Marked(f, places, state).stages[i][k]
                   = IF <<i, k>> \in places THEN state ELSE f.stages[i][k]
<1> DEFINE rows == [i \in D |-> [k \in StageKind |->
                      IF <<i, k>> \in places THEN state ELSE f.stages[i][k]]]
<1>1. f.stages \in [D -> [StageKind -> Listed]]
  BY DEF Checklists
<1>2. Marked(f, places, state) = [f EXCEPT !.stages = rows]
  BY <1>1 DEF Marked
<1>3. rows \in [D -> [StageKind -> Listed]]
  BY <1>1
<1>4. \A i \in D, k \in StageKind :
         rows[i][k] = IF <<i, k>> \in places THEN state ELSE f.stages[i][k]
  OBVIOUS
<1> HIDE DEF rows
<1>5. Marked(f, places, state).stages = rows /\ Marked(f, places, state) \in Checklists(D)
  BY <1>2, <1>3 DEF Checklists
<1> QED
  BY <1>4, <1>5

\* Once the running stage is marked with something else, none runs.
LEMMA MarkedActiveIsQuiet ==
    ASSUME NEW D \in SUBSET Int, NEW f \in Checklists(D), AtMostOne(f),
           NEW g \in Checklists(D),
           \A i \in D, k \in StageKind :
              g.stages[i][k] = "active"
                => f.stages[i][k] = "active" /\ <<i, k>> \notin active_stage(f)
    PROVE  Quiet(g)
<1>1. DOMAIN f.stages = D /\ DOMAIN g.stages = D
  BY DEF Checklists
<1>2. CASE Quiet(f)
  BY <1>1, <1>2 DEF Quiet
<1>3. ASSUME NEW i \in D, NEW k \in StageKind, Running(f, i, k)
      PROVE  Quiet(g)
  <2>1. <<i, k>> \in active_stage(f)
    <3>1. active_stage(f) = {<<i, k>>}
      BY <1>3, ActiveStageFacts
    <3> QED
      BY <3>1
  <2>2. \A j \in D, l \in StageKind : f.stages[j][l] = "active" => j = i /\ l = k
    BY <1>1, <1>3 DEF Running
  <2> QED
    BY <1>1, <2>1, <2>2 DEF Quiet
<1> QED
  BY <1>1, <1>2, <1>3 DEF AtMostOne

LEMMA FailFacts ==
    ASSUME NEW D \in SUBSET Int, NEW f \in Checklists(D), AtMostOne(f)
    PROVE  /\ fail(f) \in Checklists(D) /\ fail(f).state = "failed" /\ Quiet(fail(f))
           /\ \A i \in D : HasFailed(f, i) => HasFailed(fail(f), i)
           /\ \A i \in D, k \in StageKind : Running(f, i, k) => HasFailed(fail(f), i)
<1>1. "failed" \in Listed \ {"active"} /\ "failed" \in FlowState
  BY DEF Listed, StageState, FlowState
<1>2. fail(f) = [Marked(f, active_stage(f), "failed") EXCEPT !.state = "failed"]
  BY DEF fail
<1>3. /\ fail(f) \in Checklists(D) /\ fail(f).state = "failed"
      /\ \A i \in D, k \in StageKind :
            fail(f).stages[i][k]
              = IF <<i, k>> \in active_stage(f) THEN "failed" ELSE f.stages[i][k]
  BY <1>1, <1>2, MarkedFacts DEF Checklists
<1>4. Quiet(fail(f))
  <2>1. \A i \in D, k \in StageKind :
           fail(f).stages[i][k] = "active"
             => f.stages[i][k] = "active" /\ <<i, k>> \notin active_stage(f)
    BY <1>3
  <2> QED
    BY <1>3, <2>1, MarkedActiveIsQuiet
<1>5. \A i \in D : HasFailed(f, i) => HasFailed(fail(f), i)
  BY <1>3 DEF HasFailed
<1>6. ASSUME NEW i \in D, NEW k \in StageKind, Running(f, i, k)
      PROVE  HasFailed(fail(f), i)
  <2>1. active_stage(f) = {<<i, k>>}
    BY <1>6, ActiveStageFacts
  <2> QED
    BY <1>3, <2>1 DEF HasFailed
<1> QED
  BY <1>3, <1>4, <1>5, <1>6

LEMMA ConnectedFacts ==
    ASSUME NEW D \in SUBSET Int, NEW f \in Checklists(D), AtMostOne(f)
    PROVE  /\ connected(f) \in Checklists(D) /\ connected(f).state = "connected"
           /\ Quiet(connected(f))
<1>1. "done" \in Listed \ {"active"} /\ "connected" \in FlowState
  BY DEF Listed, StageState, FlowState
<1>2. connected(f) = [Marked(f, active_stage(f), "done") EXCEPT !.state = "connected"]
  BY DEF connected
<1>3. /\ connected(f) \in Checklists(D) /\ connected(f).state = "connected"
      /\ \A i \in D, k \in StageKind :
            connected(f).stages[i][k]
              = IF <<i, k>> \in active_stage(f) THEN "done" ELSE f.stages[i][k]
  BY <1>1, <1>2, MarkedFacts DEF Checklists
<1>4. \A i \in D, k \in StageKind :
         connected(f).stages[i][k] = "active"
           => f.stages[i][k] = "active" /\ <<i, k>> \notin active_stage(f)
  BY <1>3
<1> QED
  BY <1>3, <1>4, MarkedActiveIsQuiet

\* A stopped attempt shows nothing running and nothing still to come.
LEMMA DisconnectFacts ==
    ASSUME NEW D \in SUBSET Int, NEW f \in Checklists(D), AtMostOne(f)
    PROVE  /\ begin_disconnect(f) \in Checklists(D)
           /\ begin_disconnect(f).state = "disconnecting"
           /\ Quiet(begin_disconnect(f)) /\ NothingPending(begin_disconnect(f))
<1> DEFINE places == active_stage(f) \cup InState(f, "pending")
<1>1. "skipped" \in Listed \ {"active"} /\ "disconnecting" \in FlowState
  BY DEF Listed, StageState, FlowState
<1>2. begin_disconnect(f) = [Marked(f, places, "skipped") EXCEPT !.state = "disconnecting"]
  BY DEF begin_disconnect
<1>3. active_stage(f) \subseteq places
  OBVIOUS
<1>4. \A i \in D, k \in StageKind : f.stages[i][k] = "pending" => <<i, k>> \in places
  BY DEF InState, Stages, Checklists
<1> HIDE DEF places
<1>5. /\ begin_disconnect(f) \in Checklists(D)
      /\ begin_disconnect(f).state = "disconnecting"
      /\ \A i \in D, k \in StageKind :
            begin_disconnect(f).stages[i][k]
              = IF <<i, k>> \in places THEN "skipped" ELSE f.stages[i][k]
  BY <1>1, <1>2, MarkedFacts DEF Checklists
<1>6. Quiet(begin_disconnect(f))
  <2>1. \A i \in D, k \in StageKind :
           begin_disconnect(f).stages[i][k] = "active"
             => f.stages[i][k] = "active" /\ <<i, k>> \notin active_stage(f)
    BY <1>3, <1>5
  <2> QED
    BY <1>5, <2>1, MarkedActiveIsQuiet
<1>7. DOMAIN begin_disconnect(f).stages = D
  BY <1>5 DEF Checklists
<1>8. NothingPending(begin_disconnect(f))
  BY <1>4, <1>5, <1>7 DEF NothingPending
<1> QED
  BY <1>5, <1>6, <1>8

----------------------------------------------------------------------------
\* Where the worker stands.

LEMMA PlanFacts ==
    ASSUME NEW p \in Plans
    PROVE  /\ Len(p) \in Nat /\ Len(p) >= 1 /\ DOMAIN p = 1..Len(p)
           /\ \A i \in DOMAIN p : p[i] \in Routes
<1>1. p \in Seq(Routes) /\ p # <<>>
  BY WalkAssumption
<1> QED
  BY <1>1

LEMMA WalkInvInit == Init => WalkInv
<1> SUFFICES ASSUME Init PROVE WalkInv
  OBVIOUS
<1>1. Len(plan) \in Nat /\ Len(plan) >= 1 /\ 1 \in 1..Len(plan) + 1
  BY PlanFacts DEF Init, WalkInit
<1>2. pc = "preflight" /\ pc \notin OnRoute \cup Walked
  BY DEF Init, WalkInit, OnRoute, Walked, CommandPoints, AskingPoints
<1>3. Flags
  BY DEF Init, WalkInit, Flags
<1>4. Places
  BY <1>1 DEF Init, WalkInit, Places
<1>8. Things /\ pc \in Points /\ children \subseteq {"command", "tunnel"}
  BY <1>2 DEF Init, WalkInit, Things, Results, Points
<1>5. RouteInv
  BY <1>1, <1>2 DEF Init, WalkInit, RouteInv, OnRoute, AskingPoints, CommandPoints
<1>6. ResultInv /\ OwnerInv
  BY <1>2 DEF Init, WalkInit, ResultInv, OwnerInv
<1>7. FetchInv /\ LateInv
  BY <1>2 DEF Init, WalkInit, FetchInv, LateInv
<1> QED
  BY <1>3, <1>4, <1>5, <1>6, <1>7, <1>8 DEF WalkInv, Types

LEMMA FlagsStep == Flags /\ [Next]_vars => Flags'
<1> SUFFICES ASSUME Flags, [Next]_vars PROVE Flags'
  OBVIOUS
<1> USE DEF Flags, substrateVars, routeVars, ownerVars, relayVars
<1>1. CASE Walk
  <2> USE DEF Ended, RouteFailed, fall_back, FailWith, finish_cancelled
  <2>1. CASE Preflight \/ Loop \/ Route \/ NoRoute
    BY <1>1, <2>1 DEF Walk, Preflight, Loop, Route, NoRoute, BrokerReady
  <2>2. CASE CommandStarts \/ CommandForks \/ CommandEnds \/ SpawnTunnel \/ ForwardSettles
    BY <1>1, <2>2 DEF Walk, CommandStarts, CommandForks, CommandEnds, SpawnTunnel,
       ForwardSettles,
       CommandFailed, CommandSucceeded, RememberFetchFailure, BrokerReady
  <2>3. CASE MakeTransport \/ Connect
    BY <1>1, <2>3 DEF Walk, MakeTransport, Connect, TrustRefused
  <2>4. CASE Handshake \/ FontReplay \/ FontsFetched \/ Throws \/ Connected \/ Unwind
    BY <1>1, <2>4 DEF Walk, Handshake, FontReplay, FontsFetched, Throws, Connected, Unwind
  <2> QED
    BY <1>1, <2>1, <2>2, <2>3, <2>4 DEF Walk, WalkStep
<1>2. CASE (WorkerStep /\ ~Walk) \/ SpuriousWake
  BY <1>2 DEF WorkerStep, Ask, TakeMutex, LookAndBlock, FallAsleep, LookAndGo, Settle,
     FinishAttempt, SpuriousWake, Moves, TrustDecided, TrustRefused,
       Ended, FailWith, finish_cancelled
<1>3. CASE OwnerTurns \/ NoUserAction \/ ScreenAnswers \/ Cancel
  BY <1>3 DEF OwnerTurns, Poll, ScreenPrompt, LinkRejects, CancelNotifies, Join,
     NoUserAction, ScreenAnswers, Cancel, walkVars
<1>4. CASE UNCHANGED vars
  BY <1>4 DEF vars, walkVars
<1> QED
  BY <1>1, <1>2, <1>3, <1>4 DEF Next, WorkerStep, Terminated


LEMMA PlacesStep == WalkInv /\ [Next]_vars => Places'
<1> SUFFICES ASSUME WalkInv, [Next]_vars PROVE Places'
  OBVIOUS
<1> USE DEF WalkInv, Types, Places, RouteInv, OnRoute, Walked, CommandPoints, AskingPoints,
   substrateVars, routeVars, ownerVars, relayVars
<1>p. Len(plan) \in Nat /\ Len(plan) >= 1 /\ DOMAIN plan = 1..Len(plan)
  BY PlanFacts DEF Types, Places
<1>1. CASE Walk
  <2> USE DEF Ended, RouteFailed, fall_back, FailWith, finish_cancelled
  <2>1. CASE Preflight
    BY <1>p, <1>1, <2>1 DEF Walk, Preflight
  <2>2. CASE Loop
    BY <1>p, <1>1, <2>2 DEF Walk, Loop
  <2>3. CASE Route
    BY <1>p, <1>1, <2>3 DEF Walk, Route, WalkEnds, BrokerReady
  <2>4. CASE NoRoute
    BY <1>p, <1>1, <2>4 DEF Walk, NoRoute
  <2>5. CASE CommandStarts
    BY <1>p, <1>1, <2>5 DEF Walk, CommandStarts, CommandFailed, RememberFetchFailure
  <2>6. CASE CommandForks
    BY <1>p, <1>1, <2>6 DEF Walk, CommandForks, Forked
  <2>7. CASE CommandEnds
    BY <1>p, <1>1, <2>7 DEF Walk, CommandEnds, CommandFailed, CommandSucceeded,
       RememberFetchFailure, BrokerReady
  <2>8. CASE SpawnTunnel \/ ForwardSettles
    BY <1>p, <1>1, <2>8 DEF Walk, SpawnTunnel, ForwardSettles, Forked
  <2>9. CASE MakeTransport
    <3>1. index + 1 \in 1..Len(plan) + 1
      BY <1>p, <2>9 DEF MakeTransport
    <3>2. first' \in 1..Len(plan) + 1 /\ UNCHANGED <<plan, index, fetches, late_spawns>>
      BY <2>9, <3>1 DEF MakeTransport
    <3> QED
      BY <1>1, <3>2 DEF Walk
  <2>10. CASE Connect
    <3>1. index + 1 \in 1..Len(plan) + 1
      BY <1>p, <2>10 DEF Connect
    <3>2. first' \in 1..Len(plan) + 1 /\ UNCHANGED <<plan, index, fetches, late_spawns>>
      BY <2>10, <3>1 DEF Connect, TrustRefused
    <3> QED
      BY <1>1, <3>2 DEF Walk
  <2>11. CASE Handshake \/ FontReplay
    BY <1>p, <1>1, <2>11 DEF Walk, Handshake, FontReplay
  <2>12. CASE FontsFetched \/ Throws \/ Connected \/ Unwind
    BY <1>p, <1>1, <2>12 DEF Walk, FontsFetched, Throws, Connected, Unwind, Release
  <2> QED
    BY <1>1, <2>1, <2>2, <2>3, <2>4, <2>5, <2>6, <2>7, <2>8, <2>9, <2>10, <2>11, <2>12
       DEF Walk, WalkStep
<1>2. CASE Ask
  BY <1>p, <1>2 DEF Ask
<1>3. CASE TakeMutex \/ LookAndBlock \/ FallAsleep \/ SpuriousWake
  BY <1>p, <1>3 DEF TakeMutex, LookAndBlock, FallAsleep, SpuriousWake, Moves
<1>4. CASE LookAndGo
  BY <1>p, <1>4 DEF LookAndGo, TrustDecided, TrustRefused, Ended, FailWith, finish_cancelled
<1>5. CASE Settle \/ FinishAttempt
  BY <1>p, <1>5 DEF Settle, FinishAttempt, Release
<1>6. CASE Poll \/ NoUserAction \/ ScreenPrompt
  BY <1>p, <1>6 DEF Poll, NoUserAction, OutcomeTaken, ScreenPrompt, walkVars
<1>10. CASE Cancel
  BY <1>p, <1>10 DEF Cancel, walkVars
<1>7. CASE LinkRejects \/ ScreenAnswers \/ CancelNotifies
  BY <1>p, <1>7 DEF LinkRejects, ScreenAnswers, CancelNotifies, answer_trust, Notified
<1>8. CASE Join
  BY <1>p, <1>8 DEF Join, Release
<1>9. CASE UNCHANGED vars
  BY <1>9 DEF vars, walkVars
<1> QED
  BY <1>1, <1>2, <1>3, <1>4, <1>5, <1>6, <1>7, <1>8, <1>9, <1>10 DEF Next, WorkerStep,
     OwnerTurns, Terminated

LEMMA ThingsStep == WalkInv /\ [Next]_vars => Things'
<1> SUFFICES ASSUME WalkInv, [Next]_vars PROVE Things'
  OBVIOUS
<1> USE DEF WalkInv, Types, Things, substrateVars, routeVars, ownerVars, relayVars
<1>p. Len(plan) \in Nat /\ Len(plan) >= 1 /\ DOMAIN plan = 1..Len(plan)
  BY PlanFacts DEF Types, Places
<1>1. CASE Walk
  <2> USE DEF Ended, RouteFailed, fall_back, FailWith, finish_cancelled
  <2>1. CASE Preflight
    BY <1>p, <1>1, <2>1 DEF Walk, Preflight, Results, FailPoints, TrustChoices
  <2>2. CASE Loop
    BY <1>p, <1>1, <2>2 DEF Walk, Loop, Results, FailPoints, TrustChoices
  <2>3. CASE Route
    BY <1>p, <1>1, <2>3 DEF Walk, Route, WalkEnds, BrokerReady, Results, FailPoints,
       TrustChoices
  <2>4. CASE NoRoute
    BY <1>p, <1>1, <2>4 DEF Walk, NoRoute, Results, FailPoints, TrustChoices
  <2>5. CASE CommandStarts
    BY <1>p, <1>1, <2>5 DEF Walk, CommandStarts, CommandFailed, RememberFetchFailure,
       Results, FailPoints, TrustChoices
  <2>6. CASE CommandForks
    BY <1>p, <1>1, <2>6 DEF Walk, CommandForks, Forked, Results, FailPoints, TrustChoices
  <2>7. CASE CommandEnds
    BY <1>p, <1>1, <2>7 DEF Walk, CommandEnds, CommandFailed, CommandSucceeded,
       RememberFetchFailure, BrokerReady, Results, FailPoints, TrustChoices
  <2>8. CASE SpawnTunnel \/ ForwardSettles
    BY <1>p, <1>1, <2>8 DEF Walk, SpawnTunnel, ForwardSettles, Forked, Results, FailPoints,
       TrustChoices
  <2>9. CASE MakeTransport
    BY <1>p, <1>1, <2>9 DEF Walk, MakeTransport, can_fall_back, LastRoute, Results,
       FailPoints, TrustChoices
  <2>10. CASE Connect
    BY <1>p, <1>1, <2>10 DEF Walk, Connect, TrustRefused, can_fall_back, LastRoute, Results,
       FailPoints, TrustChoices
  <2>11. CASE Handshake \/ FontReplay
    BY <1>p, <1>1, <2>11 DEF Walk, Handshake, FontReplay, Results, FailPoints, TrustChoices
  <2>12. CASE FontsFetched \/ Throws \/ Connected \/ Unwind
    BY <1>p, <1>1, <2>12 DEF Walk, FontsFetched, Throws, Connected, Unwind, Release,
       Results, FailPoints, TrustChoices
  <2> QED
    BY <1>1, <2>1, <2>2, <2>3, <2>4, <2>5, <2>6, <2>7, <2>8, <2>9, <2>10, <2>11, <2>12
       DEF Walk, WalkStep
<1>2. CASE Ask
  BY <1>p, <1>2 DEF Ask, Results, FailPoints, TrustChoices
<1>3. CASE TakeMutex \/ LookAndBlock \/ FallAsleep \/ SpuriousWake
  BY <1>p, <1>3 DEF TakeMutex, LookAndBlock, FallAsleep, SpuriousWake, Moves, Results,
     FailPoints, TrustChoices
<1>4. CASE LookAndGo
  BY <1>p, <1>4 DEF LookAndGo, TrustDecided, TrustRefused, Ended, FailWith,
     finish_cancelled, Results, FailPoints, TrustChoices
<1>5. CASE Settle \/ FinishAttempt
  BY <1>p, <1>5 DEF Settle, FinishAttempt, Release, Results, FailPoints, TrustChoices
<1>6. CASE Poll \/ NoUserAction \/ ScreenPrompt
  BY <1>p, <1>6 DEF Poll, NoUserAction, OutcomeTaken, ScreenPrompt, walkVars, Results,
     FailPoints, TrustChoices
<1>10. CASE Cancel
  BY <1>p, <1>10 DEF Cancel, walkVars, Results, FailPoints, TrustChoices
<1>7. CASE LinkRejects \/ ScreenAnswers \/ CancelNotifies
  BY <1>p, <1>7 DEF LinkRejects, ScreenAnswers, CancelNotifies, answer_trust, Notified,
     Results, FailPoints, TrustChoices
<1>8. CASE Join
  BY <1>p, <1>8 DEF Join, Release, Results, FailPoints, TrustChoices
<1>9. CASE UNCHANGED vars
  BY <1>9 DEF vars, walkVars, Results, FailPoints, TrustChoices
<1> QED
  BY <1>1, <1>2, <1>3, <1>4, <1>5, <1>6, <1>7, <1>8, <1>9, <1>10 DEF Next, WorkerStep,
     OwnerTurns, Terminated

LEMMA ChildrenStep == WalkInv /\ [Next]_vars => children' \subseteq {"command", "tunnel"}
<1> SUFFICES ASSUME WalkInv, [Next]_vars PROVE children' \subseteq {"command", "tunnel"}
  OBVIOUS
<1> USE DEF WalkInv, Types, substrateVars, routeVars, ownerVars, relayVars
<1>p. Len(plan) \in Nat /\ Len(plan) >= 1 /\ DOMAIN plan = 1..Len(plan)
  BY PlanFacts DEF Types, Places
<1>1. CASE Walk
  <2> USE DEF Ended, RouteFailed, fall_back, FailWith, finish_cancelled
  <2>1. CASE Preflight
    BY <1>p, <1>1, <2>1 DEF Walk, Preflight
  <2>2. CASE Loop
    BY <1>p, <1>1, <2>2 DEF Walk, Loop
  <2>3. CASE Route
    BY <1>p, <1>1, <2>3 DEF Walk, Route, WalkEnds, BrokerReady
  <2>4. CASE NoRoute
    BY <1>p, <1>1, <2>4 DEF Walk, NoRoute
  <2>5. CASE CommandStarts
    BY <1>p, <1>1, <2>5 DEF Walk, CommandStarts, CommandFailed, RememberFetchFailure
  <2>6. CASE CommandForks
    BY <1>p, <1>1, <2>6 DEF Walk, CommandForks, Forked
  <2>7. CASE CommandEnds
    BY <1>p, <1>1, <2>7 DEF Walk, CommandEnds, CommandFailed, CommandSucceeded,
       RememberFetchFailure, BrokerReady
  <2>8. CASE SpawnTunnel \/ ForwardSettles
    BY <1>p, <1>1, <2>8 DEF Walk, SpawnTunnel, ForwardSettles, Forked
  <2>9. CASE MakeTransport
    BY <1>p, <1>1, <2>9 DEF Walk, MakeTransport, can_fall_back, LastRoute
  <2>10. CASE Connect
    BY <1>p, <1>1, <2>10 DEF Walk, Connect, TrustRefused, can_fall_back, LastRoute
  <2>11. CASE Handshake \/ FontReplay
    BY <1>p, <1>1, <2>11 DEF Walk, Handshake, FontReplay
  <2>12. CASE FontsFetched \/ Throws \/ Connected \/ Unwind
    BY <1>p, <1>1, <2>12 DEF Walk, FontsFetched, Throws, Connected, Unwind, Release
  <2> QED
    BY <1>1, <2>1, <2>2, <2>3, <2>4, <2>5, <2>6, <2>7, <2>8, <2>9, <2>10, <2>11, <2>12
       DEF Walk, WalkStep
<1>2. CASE Ask
  BY <1>p, <1>2 DEF Ask
<1>3. CASE TakeMutex \/ LookAndBlock \/ FallAsleep \/ SpuriousWake
  BY <1>p, <1>3 DEF TakeMutex, LookAndBlock, FallAsleep, SpuriousWake, Moves
<1>4. CASE LookAndGo
  BY <1>p, <1>4 DEF LookAndGo, TrustDecided, TrustRefused, Ended, FailWith, finish_cancelled
<1>5. CASE Settle \/ FinishAttempt
  BY <1>p, <1>5 DEF Settle, FinishAttempt, Release
<1>6. CASE Poll \/ NoUserAction \/ ScreenPrompt
  BY <1>p, <1>6 DEF Poll, NoUserAction, OutcomeTaken, ScreenPrompt, walkVars
<1>10. CASE Cancel
  BY <1>p, <1>10 DEF Cancel, walkVars
<1>7. CASE LinkRejects \/ ScreenAnswers \/ CancelNotifies
  BY <1>p, <1>7 DEF LinkRejects, ScreenAnswers, CancelNotifies, answer_trust, Notified
<1>8. CASE Join
  BY <1>p, <1>8 DEF Join, Release
<1>9. CASE UNCHANGED vars
  BY <1>9 DEF vars, walkVars
<1> QED
  BY <1>1, <1>2, <1>3, <1>4, <1>5, <1>6, <1>7, <1>8, <1>9, <1>10 DEF Next, WorkerStep,
     OwnerTurns, Terminated

LEMMA PointsStep == WalkInv /\ [Next]_vars => pc' \in Points
<1> SUFFICES ASSUME WalkInv, [Next]_vars PROVE pc' \in Points
  OBVIOUS
<1> USE DEF WalkInv, Types, Points, OnRoute, Walked, CommandPoints, AskingPoints,
   substrateVars, routeVars, ownerVars, relayVars
<1>p. Len(plan) \in Nat /\ Len(plan) >= 1 /\ DOMAIN plan = 1..Len(plan)
  BY PlanFacts DEF Types, Places
<1>1. CASE Walk
  <2> USE DEF Ended, RouteFailed, fall_back, FailWith, finish_cancelled
  <2>1. CASE Preflight
    BY <1>p, <1>1, <2>1 DEF Walk, Preflight
  <2>2. CASE Loop
    BY <1>p, <1>1, <2>2 DEF Walk, Loop
  <2>3. CASE Route
    BY <1>p, <1>1, <2>3 DEF Walk, Route, WalkEnds, BrokerReady
  <2>4. CASE NoRoute
    BY <1>p, <1>1, <2>4 DEF Walk, NoRoute
  <2>5. CASE CommandStarts
    BY <1>p, <1>1, <2>5 DEF Walk, CommandStarts, CommandFailed, RememberFetchFailure
  <2>6. CASE CommandForks
    BY <1>p, <1>1, <2>6 DEF Walk, CommandForks, Forked
  <2>7. CASE CommandEnds
    BY <1>p, <1>1, <2>7 DEF Walk, CommandEnds, CommandFailed, CommandSucceeded,
       RememberFetchFailure, BrokerReady
  <2>8. CASE SpawnTunnel \/ ForwardSettles
    BY <1>p, <1>1, <2>8 DEF Walk, SpawnTunnel, ForwardSettles, Forked
  <2>9. CASE MakeTransport
    BY <1>p, <1>1, <2>9 DEF Walk, MakeTransport, can_fall_back, LastRoute
  <2>10. CASE Connect
    BY <1>p, <1>1, <2>10 DEF Walk, Connect, TrustRefused, can_fall_back, LastRoute
  <2>11. CASE Handshake \/ FontReplay
    BY <1>p, <1>1, <2>11 DEF Walk, Handshake, FontReplay
  <2>12. CASE FontsFetched \/ Throws \/ Connected \/ Unwind
    BY <1>p, <1>1, <2>12 DEF Walk, FontsFetched, Throws, Connected, Unwind, Release
  <2> QED
    BY <1>1, <2>1, <2>2, <2>3, <2>4, <2>5, <2>6, <2>7, <2>8, <2>9, <2>10, <2>11, <2>12
       DEF Walk, WalkStep
<1>2. CASE Ask
  BY <1>p, <1>2 DEF Ask
<1>3. CASE TakeMutex \/ LookAndBlock \/ FallAsleep \/ SpuriousWake
  BY <1>p, <1>3 DEF TakeMutex, LookAndBlock, FallAsleep, SpuriousWake, Moves
<1>4. CASE LookAndGo
  BY <1>p, <1>4 DEF LookAndGo, TrustDecided, TrustRefused, Ended, FailWith, finish_cancelled
<1>5. CASE Settle \/ FinishAttempt
  BY <1>p, <1>5 DEF Settle, FinishAttempt, Release
<1>6. CASE Poll \/ NoUserAction \/ ScreenPrompt
  BY <1>p, <1>6 DEF Poll, NoUserAction, OutcomeTaken, ScreenPrompt, walkVars
<1>10. CASE Cancel
  BY <1>p, <1>10 DEF Cancel, walkVars
<1>7. CASE LinkRejects \/ ScreenAnswers \/ CancelNotifies
  BY <1>p, <1>7 DEF LinkRejects, ScreenAnswers, CancelNotifies, answer_trust, Notified
<1>8. CASE Join
  BY <1>p, <1>8 DEF Join, Release
<1>9. CASE UNCHANGED vars
  BY <1>9 DEF vars, walkVars
<1> QED
  BY <1>1, <1>2, <1>3, <1>4, <1>5, <1>6, <1>7, <1>8, <1>9, <1>10 DEF Next, WorkerStep,
     OwnerTurns, Terminated

LEMMA RouteStep == WalkInv /\ [Next]_vars => RouteInv'
<1> SUFFICES ASSUME WalkInv, [Next]_vars PROVE RouteInv'
  OBVIOUS
<1> USE DEF WalkInv, Types, Places, RouteInv, OnRoute, Walked, CommandPoints, AskingPoints,
   Step, Job, substrateVars, routeVars, ownerVars, relayVars
<1>p. Len(plan) \in Nat /\ Len(plan) >= 1 /\ DOMAIN plan = 1..Len(plan)
  BY PlanFacts DEF Types, Places
<1>1. CASE Walk
  <2> USE DEF Ended, RouteFailed, fall_back, FailWith, finish_cancelled
  <2>1. CASE Preflight
    BY <1>p, <1>1, <2>1 DEF Walk, Preflight
  <2>2. CASE Loop
    BY <1>p, <1>1, <2>2 DEF Walk, Loop
  <2>3. CASE Route
    BY <1>p, <1>1, <2>3 DEF Walk, Route, WalkEnds, BrokerReady
  <2>4. CASE NoRoute
    BY <1>p, <1>1, <2>4 DEF Walk, NoRoute
  <2>5. CASE CommandStarts
    BY <1>p, <1>1, <2>5 DEF Walk, CommandStarts, CommandFailed, RememberFetchFailure
  <2>6. CASE CommandForks
    BY <1>p, <1>1, <2>6 DEF Walk, CommandForks, Forked
  <2>7. CASE CommandEnds
    <3>2. CASE CommandFailed
      BY <1>p, <2>7, <3>2 DEF CommandEnds, CommandFailed
    <3>3. CASE CommandSucceeded
      <4>1. Step.kind \in {"broker", "tunnel", "direct"}
        BY <1>p, <2>7, PlanFacts DEF CommandEnds, Routes
      <4> QED
        BY <1>p, <2>7, <3>3, <4>1 DEF CommandEnds, CommandSucceeded, BrokerReady
    <3> QED
      BY <2>7, <3>2, <3>3 DEF CommandEnds
  <2>8. CASE SpawnTunnel \/ ForwardSettles
    BY <1>p, <1>1, <2>8 DEF Walk, SpawnTunnel, ForwardSettles, Forked
  <2>9. CASE MakeTransport
    <3>1. CASE transport' = "made"
      BY <1>p, <2>9, <3>1 DEF MakeTransport
    <3>2. CASE pc' = "loop"
      <4>1. first' = index + 1 /\ index' = index /\ transport' = "none" /\ plan' = plan
        BY <2>9, <3>2 DEF MakeTransport
      <4> QED
        BY <3>2, <4>1
    <3>3. CASE pc' = "unwind"
      BY <1>p, <2>9, <3>3 DEF MakeTransport, can_fall_back, LastRoute
    <3> QED
      BY <2>9, <3>1, <3>2, <3>3 DEF MakeTransport
  <2>10. CASE Connect
    <3>1. CASE pc' \in {"handshake", "asking"}
      BY <1>p, <2>10, <3>1 DEF Connect, TrustRefused
    <3>2. CASE pc' = "loop"
      <4>1. first' = index + 1 /\ index' = index /\ transport' = "none" /\ plan' = plan
        BY <2>10, <3>2 DEF Connect, TrustRefused
      <4> QED
        BY <3>2, <4>1
    <3>3. CASE pc' = "unwind"
      BY <1>p, <2>10, <3>3 DEF Connect, TrustRefused, can_fall_back, LastRoute
    <3> QED
      BY <2>10, <3>1, <3>2, <3>3 DEF Connect, TrustRefused
  <2>11. CASE Handshake \/ FontReplay
    BY <1>p, <1>1, <2>11 DEF Walk, Handshake, FontReplay
  <2>12. CASE FontsFetched \/ Throws \/ Connected \/ Unwind
    BY <1>p, <1>1, <2>12 DEF Walk, FontsFetched, Throws, Connected, Unwind, Release
  <2> QED
    BY <1>1, <2>1, <2>2, <2>3, <2>4, <2>5, <2>6, <2>7, <2>8, <2>9, <2>10, <2>11, <2>12
       DEF Walk, WalkStep
<1>2. CASE Ask
  BY <1>p, <1>2 DEF Ask
<1>3. CASE TakeMutex \/ LookAndBlock \/ FallAsleep \/ SpuriousWake
  BY <1>p, <1>3 DEF TakeMutex, LookAndBlock, FallAsleep, SpuriousWake, Moves
<1>4. CASE LookAndGo
  BY <1>p, <1>4 DEF LookAndGo, TrustDecided, TrustRefused, Ended, FailWith, finish_cancelled
<1>5. CASE Settle \/ FinishAttempt
  BY <1>p, <1>5 DEF Settle, FinishAttempt, Release
<1>6. CASE Poll \/ NoUserAction \/ ScreenPrompt
  BY <1>p, <1>6 DEF Poll, NoUserAction, OutcomeTaken, ScreenPrompt, walkVars
<1>10. CASE Cancel
  BY <1>p, <1>10 DEF Cancel, walkVars
<1>7. CASE LinkRejects \/ ScreenAnswers \/ CancelNotifies
  BY <1>p, <1>7 DEF LinkRejects, ScreenAnswers, CancelNotifies, answer_trust, Notified
<1>8. CASE Join
  BY <1>p, <1>8 DEF Join, Release
<1>9. CASE UNCHANGED vars
  BY <1>9 DEF vars, walkVars
<1> QED
  BY <1>1, <1>2, <1>3, <1>4, <1>5, <1>6, <1>7, <1>8, <1>9, <1>10 DEF Next, WorkerStep,
     OwnerTurns, Terminated

LEMMA ResultStep == WalkInv /\ [Next]_vars => ResultInv'
<1> SUFFICES ASSUME WalkInv, [Next]_vars PROVE ResultInv'
  OBVIOUS
<1> USE DEF WalkInv, Types, RouteInv, ResultInv, OwnerInv, OnRoute, Walked, CommandPoints,
   AskingPoints, substrateVars, routeVars, ownerVars, relayVars
<1>p. Len(plan) \in Nat /\ Len(plan) >= 1 /\ DOMAIN plan = 1..Len(plan)
  BY PlanFacts DEF Types, Places
<1>1. CASE Walk
  <2> USE DEF Ended, RouteFailed, fall_back, FailWith, finish_cancelled
  <2>1. CASE Preflight
    BY <1>p, <1>1, <2>1 DEF Walk, Preflight
  <2>2. CASE Loop
    BY <1>p, <1>1, <2>2 DEF Walk, Loop
  <2>3. CASE Route
    BY <1>p, <1>1, <2>3 DEF Walk, Route, WalkEnds, BrokerReady
  <2>4. CASE NoRoute
    BY <1>p, <1>1, <2>4 DEF Walk, NoRoute
  <2>5. CASE CommandStarts
    BY <1>p, <1>1, <2>5 DEF Walk, CommandStarts, CommandFailed, RememberFetchFailure
  <2>6. CASE CommandForks
    BY <1>p, <1>1, <2>6 DEF Walk, CommandForks, Forked
  <2>7. CASE CommandEnds
    BY <1>p, <1>1, <2>7 DEF Walk, CommandEnds, CommandFailed, CommandSucceeded,
       RememberFetchFailure, BrokerReady
  <2>8. CASE SpawnTunnel \/ ForwardSettles
    BY <1>p, <1>1, <2>8 DEF Walk, SpawnTunnel, ForwardSettles, Forked
  <2>9. CASE MakeTransport
    BY <1>p, <1>1, <2>9 DEF Walk, MakeTransport, can_fall_back, LastRoute
  <2>10. CASE Connect
    BY <1>p, <1>1, <2>10 DEF Walk, Connect, TrustRefused, can_fall_back, LastRoute
  <2>11. CASE Handshake \/ FontReplay
    BY <1>p, <1>1, <2>11 DEF Walk, Handshake, FontReplay
  <2>12. CASE FontsFetched \/ Throws \/ Connected \/ Unwind
    BY <1>p, <1>1, <2>12 DEF Walk, FontsFetched, Throws, Connected, Unwind, Release
  <2> QED
    BY <1>1, <2>1, <2>2, <2>3, <2>4, <2>5, <2>6, <2>7, <2>8, <2>9, <2>10, <2>11, <2>12
       DEF Walk, WalkStep
<1>2. CASE Ask
  BY <1>p, <1>2 DEF Ask
<1>3. CASE TakeMutex \/ LookAndBlock \/ FallAsleep \/ SpuriousWake
  BY <1>p, <1>3 DEF TakeMutex, LookAndBlock, FallAsleep, SpuriousWake, Moves
<1>4. CASE LookAndGo
  BY <1>p, <1>4 DEF LookAndGo, TrustDecided, TrustRefused, Ended, FailWith, finish_cancelled
<1>5. CASE Settle \/ FinishAttempt
  BY <1>p, <1>5 DEF Settle, FinishAttempt, Release
<1>6. CASE Poll \/ NoUserAction \/ ScreenPrompt
  <2>1. UNCHANGED <<pc, result, decided, children, transport>> /\ opc # "over"
    BY <1>6 DEF Poll, NoUserAction, ScreenPrompt, walkVars
  <2> QED
    BY <2>1
<1>10. CASE Cancel
  BY <1>p, <1>10 DEF Cancel, walkVars
<1>7. CASE LinkRejects \/ ScreenAnswers \/ CancelNotifies
  <2>1. UNCHANGED <<result, decided, children, transport>> /\ opc # "over"
    BY <1>7 DEF LinkRejects, ScreenAnswers, CancelNotifies
  <2>2. pc' = pc \/ (pc = "asleep" /\ pc' = "asked")
    BY <1>7 DEF LinkRejects, ScreenAnswers, CancelNotifies, answer_trust, Notified
  <2> QED
    BY <2>1, <2>2
<1>8. CASE Join
  BY <1>p, <1>8 DEF Join, Release
<1>9. CASE UNCHANGED vars
  BY <1>9 DEF vars, walkVars
<1> QED
  BY <1>1, <1>2, <1>3, <1>4, <1>5, <1>6, <1>7, <1>8, <1>9, <1>10 DEF Next, WorkerStep,
     OwnerTurns, Terminated

LEMMA FetchStep == WalkInv /\ [Next]_vars => FetchInv'
<1> SUFFICES ASSUME WalkInv, [Next]_vars PROVE FetchInv'
  OBVIOUS
<1> USE DEF WalkInv, Types, Places, RouteInv, FetchInv, OnRoute, Walked, CommandPoints,
   AskingPoints, Step, Job, substrateVars, routeVars, ownerVars, relayVars
<1>p. Len(plan) \in Nat /\ Len(plan) >= 1 /\ DOMAIN plan = 1..Len(plan)
  BY PlanFacts DEF Types, Places
<1>1. CASE Walk
  <2> USE DEF Ended, RouteFailed, fall_back, FailWith, finish_cancelled
  <2>1. CASE Preflight
    BY <1>p, <1>1, <2>1 DEF Walk, Preflight
  <2>2. CASE Loop
    BY <1>p, <1>1, <2>2 DEF Walk, Loop
  <2>3. CASE Route
    BY <1>p, <1>1, <2>3 DEF Walk, Route, WalkEnds, BrokerReady
  <2>4. CASE NoRoute
    BY <1>p, <1>1, <2>4 DEF Walk, NoRoute
  <2>5. CASE CommandStarts
    BY <1>p, <1>1, <2>5 DEF Walk, CommandStarts, CommandFailed, RememberFetchFailure
  <2>6. CASE CommandForks
    BY <1>p, <1>1, <2>6 DEF Walk, CommandForks, Forked
  <2>7. CASE CommandEnds
    BY <1>p, <1>1, <2>7 DEF Walk, CommandEnds, CommandFailed, CommandSucceeded,
       RememberFetchFailure, BrokerReady
  <2>8. CASE SpawnTunnel \/ ForwardSettles
    BY <1>p, <1>1, <2>8 DEF Walk, SpawnTunnel, ForwardSettles, Forked
  <2>9. CASE MakeTransport
    BY <1>p, <1>1, <2>9 DEF Walk, MakeTransport, can_fall_back, LastRoute
  <2>10. CASE Connect
    BY <1>p, <1>1, <2>10 DEF Walk, Connect, TrustRefused, can_fall_back, LastRoute
  <2>11. CASE Handshake \/ FontReplay
    BY <1>p, <1>1, <2>11 DEF Walk, Handshake, FontReplay
  <2>12. CASE FontsFetched \/ Throws \/ Connected \/ Unwind
    BY <1>p, <1>1, <2>12 DEF Walk, FontsFetched, Throws, Connected, Unwind, Release
  <2> QED
    BY <1>1, <2>1, <2>2, <2>3, <2>4, <2>5, <2>6, <2>7, <2>8, <2>9, <2>10, <2>11, <2>12
       DEF Walk, WalkStep
<1>2. CASE Ask
  BY <1>p, <1>2 DEF Ask
<1>3. CASE TakeMutex \/ LookAndBlock \/ FallAsleep \/ SpuriousWake
  BY <1>p, <1>3 DEF TakeMutex, LookAndBlock, FallAsleep, SpuriousWake, Moves
<1>4. CASE LookAndGo
  BY <1>p, <1>4 DEF LookAndGo, TrustDecided, TrustRefused, Ended, FailWith, finish_cancelled
<1>5. CASE Settle \/ FinishAttempt
  BY <1>p, <1>5 DEF Settle, FinishAttempt, Release
<1>6. CASE Poll \/ NoUserAction \/ ScreenPrompt
  BY <1>p, <1>6 DEF Poll, NoUserAction, OutcomeTaken, ScreenPrompt, walkVars
<1>10. CASE Cancel
  BY <1>p, <1>10 DEF Cancel, walkVars
<1>7. CASE LinkRejects \/ ScreenAnswers \/ CancelNotifies
  BY <1>p, <1>7 DEF LinkRejects, ScreenAnswers, CancelNotifies, answer_trust, Notified
<1>8. CASE Join
  BY <1>p, <1>8 DEF Join, Release
<1>9. CASE UNCHANGED vars
  BY <1>9 DEF vars, walkVars
<1> QED
  BY <1>1, <1>2, <1>3, <1>4, <1>5, <1>6, <1>7, <1>8, <1>9, <1>10 DEF Next, WorkerStep,
     OwnerTurns, Terminated

LEMMA LateStep == WalkInv /\ [Next]_vars => LateInv'
<1> SUFFICES ASSUME WalkInv, [Next]_vars PROVE LateInv'
  OBVIOUS
<1> USE DEF WalkInv, Types, Places, RouteInv, LateInv, OnRoute, Walked, CommandPoints,
   AskingPoints, Step, Job, substrateVars, routeVars, ownerVars, relayVars
<1>p. Len(plan) \in Nat /\ Len(plan) >= 1 /\ DOMAIN plan = 1..Len(plan)
  BY PlanFacts DEF Types, Places
<1>1. CASE Walk
  <2> USE DEF Ended, RouteFailed, fall_back, FailWith, finish_cancelled
  <2>1. CASE Preflight
    BY <1>p, <1>1, <2>1 DEF Walk, Preflight
  <2>2. CASE Loop
    BY <1>p, <1>1, <2>2 DEF Walk, Loop
  <2>3. CASE Route
    BY <1>p, <1>1, <2>3 DEF Walk, Route, WalkEnds, BrokerReady
  <2>4. CASE NoRoute
    BY <1>p, <1>1, <2>4 DEF Walk, NoRoute
  <2>5. CASE CommandStarts
    BY <1>p, <1>1, <2>5 DEF Walk, CommandStarts, CommandFailed, RememberFetchFailure
  <2>6. CASE CommandForks
    BY <1>p, <1>1, <2>6 DEF Walk, CommandForks, Forked
  <2>7. CASE CommandEnds
    BY <1>p, <1>1, <2>7 DEF Walk, CommandEnds, CommandFailed, CommandSucceeded,
       RememberFetchFailure, BrokerReady
  <2>8. CASE SpawnTunnel \/ ForwardSettles
    BY <1>p, <1>1, <2>8 DEF Walk, SpawnTunnel, ForwardSettles, Forked
  <2>9. CASE MakeTransport
    BY <1>p, <1>1, <2>9 DEF Walk, MakeTransport, can_fall_back, LastRoute
  <2>10. CASE Connect
    BY <1>p, <1>1, <2>10 DEF Walk, Connect, TrustRefused, can_fall_back, LastRoute
  <2>11. CASE Handshake \/ FontReplay
    BY <1>p, <1>1, <2>11 DEF Walk, Handshake, FontReplay
  <2>12. CASE FontsFetched \/ Throws \/ Connected \/ Unwind
    BY <1>p, <1>1, <2>12 DEF Walk, FontsFetched, Throws, Connected, Unwind, Release
  <2> QED
    BY <1>1, <2>1, <2>2, <2>3, <2>4, <2>5, <2>6, <2>7, <2>8, <2>9, <2>10, <2>11, <2>12
       DEF Walk, WalkStep
<1>2. CASE Ask
  BY <1>p, <1>2 DEF Ask
<1>3. CASE TakeMutex \/ LookAndBlock \/ FallAsleep \/ SpuriousWake
  BY <1>p, <1>3 DEF TakeMutex, LookAndBlock, FallAsleep, SpuriousWake, Moves
<1>4. CASE LookAndGo
  BY <1>p, <1>4 DEF LookAndGo, TrustDecided, TrustRefused, Ended, FailWith, finish_cancelled
<1>5. CASE Settle \/ FinishAttempt
  BY <1>p, <1>5 DEF Settle, FinishAttempt, Release
<1>6. CASE Poll \/ NoUserAction \/ ScreenPrompt
  BY <1>p, <1>6 DEF Poll, NoUserAction, OutcomeTaken, ScreenPrompt, walkVars
<1>10. CASE Cancel
  BY <1>p, <1>10 DEF Cancel, walkVars
<1>7. CASE LinkRejects \/ ScreenAnswers \/ CancelNotifies
  BY <1>p, <1>7 DEF LinkRejects, ScreenAnswers, CancelNotifies, answer_trust, Notified
<1>8. CASE Join
  BY <1>p, <1>8 DEF Join, Release
<1>9. CASE UNCHANGED vars
  BY <1>9 DEF vars, walkVars
<1> QED
  BY <1>1, <1>2, <1>3, <1>4, <1>5, <1>6, <1>7, <1>8, <1>9, <1>10 DEF Next, WorkerStep,
     OwnerTurns, Terminated

LEMMA OwnerStep == WalkInv /\ [Next]_vars => OwnerInv'
<1> SUFFICES ASSUME WalkInv, [Next]_vars PROVE OwnerInv'
  OBVIOUS
<1> USE DEF WalkInv, Types, ResultInv, OwnerInv, OnRoute, Walked, CommandPoints,
   AskingPoints, substrateVars, routeVars, ownerVars, relayVars
<1>p. Len(plan) \in Nat /\ Len(plan) >= 1 /\ DOMAIN plan = 1..Len(plan)
  BY PlanFacts DEF Types, Places
<1>1. CASE Walk
  <2> USE DEF Ended, RouteFailed, fall_back, FailWith, finish_cancelled
  <2>1. CASE Preflight
    BY <1>p, <1>1, <2>1 DEF Walk, Preflight
  <2>2. CASE Loop
    BY <1>p, <1>1, <2>2 DEF Walk, Loop
  <2>3. CASE Route
    BY <1>p, <1>1, <2>3 DEF Walk, Route, WalkEnds, BrokerReady
  <2>4. CASE NoRoute
    BY <1>p, <1>1, <2>4 DEF Walk, NoRoute
  <2>5. CASE CommandStarts
    BY <1>p, <1>1, <2>5 DEF Walk, CommandStarts, CommandFailed, RememberFetchFailure
  <2>6. CASE CommandForks
    BY <1>p, <1>1, <2>6 DEF Walk, CommandForks, Forked
  <2>7. CASE CommandEnds
    BY <1>p, <1>1, <2>7 DEF Walk, CommandEnds, CommandFailed, CommandSucceeded,
       RememberFetchFailure, BrokerReady
  <2>8. CASE SpawnTunnel \/ ForwardSettles
    BY <1>p, <1>1, <2>8 DEF Walk, SpawnTunnel, ForwardSettles, Forked
  <2>9. CASE MakeTransport
    BY <1>p, <1>1, <2>9 DEF Walk, MakeTransport, can_fall_back, LastRoute
  <2>10. CASE Connect
    BY <1>p, <1>1, <2>10 DEF Walk, Connect, TrustRefused, can_fall_back, LastRoute
  <2>11. CASE Handshake \/ FontReplay
    BY <1>p, <1>1, <2>11 DEF Walk, Handshake, FontReplay
  <2>12. CASE FontsFetched \/ Throws \/ Connected \/ Unwind
    BY <1>p, <1>1, <2>12 DEF Walk, FontsFetched, Throws, Connected, Unwind, Release
  <2> QED
    BY <1>1, <2>1, <2>2, <2>3, <2>4, <2>5, <2>6, <2>7, <2>8, <2>9, <2>10, <2>11, <2>12
       DEF Walk, WalkStep
<1>2. CASE Ask
  BY <1>p, <1>2 DEF Ask
<1>3. CASE TakeMutex \/ LookAndBlock \/ FallAsleep \/ SpuriousWake
  BY <1>p, <1>3 DEF TakeMutex, LookAndBlock, FallAsleep, SpuriousWake, Moves
<1>4. CASE LookAndGo
  BY <1>p, <1>4 DEF LookAndGo, TrustDecided, TrustRefused, Ended, FailWith, finish_cancelled
<1>5. CASE Settle \/ FinishAttempt
  BY <1>p, <1>5 DEF Settle, FinishAttempt, Release
<1>6. CASE Poll \/ NoUserAction \/ ScreenPrompt
  BY <1>p, <1>6 DEF Poll, NoUserAction, OutcomeTaken, ScreenPrompt, walkVars
<1>10. CASE Cancel
  BY <1>p, <1>10 DEF Cancel, walkVars
<1>7. CASE LinkRejects \/ ScreenAnswers \/ CancelNotifies
  BY <1>p, <1>7 DEF LinkRejects, ScreenAnswers, CancelNotifies, answer_trust, Notified
<1>8. CASE Join
  BY <1>p, <1>8 DEF Join, Release
<1>9. CASE UNCHANGED vars
  BY <1>9 DEF vars, walkVars
<1> QED
  BY <1>1, <1>2, <1>3, <1>4, <1>5, <1>6, <1>7, <1>8, <1>9, <1>10 DEF Next, WorkerStep,
     OwnerTurns, Terminated

LEMMA WalkInvStep == WalkInv /\ [Next]_vars => WalkInv'
<1> SUFFICES ASSUME WalkInv, [Next]_vars PROVE WalkInv'
  OBVIOUS
<1>1. Types'
  BY FlagsStep, PlacesStep, ThingsStep, ChildrenStep, PointsStep DEF WalkInv, Types, Points,
     OnRoute, Walked, CommandPoints, AskingPoints
<1> QED
  BY <1>1, RouteStep, ResultStep, FetchStep, LateStep, OwnerStep DEF WalkInv

----------------------------------------------------------------------------
\* What the checklist shows where the worker stands.

\* Every stage is there, and the routes before this one show what failed.
RouteList(f) ==
    /\ f \in Checklists(DOMAIN plan) /\ Complete(f)
    /\ \A i \in DOMAIN plan : i < index => HasFailed(f, i)

LEMMA PlanIsInt == ASSUME WalkInv PROVE DOMAIN plan \in SUBSET Int
BY PlanFacts DEF WalkInv, Types, Places

LEMMA Kinds == \A kind \in StageKind : Rank(kind) \in Int
BY DEF StageKind, Rank

LEMMA RouteStages ==
    ASSUME NEW step \in Routes
    PROVE  /\ route_stages(step) \subseteq StageKind
           /\ {"handshake", "requesting_display"} \subseteq route_stages(step)
           /\ step.kind = "broker" =>
                {"contacting_broker", "authenticating"} \subseteq route_stages(step)
           /\ step.kind # "broker" => "connecting_transport" \in route_stages(step)
           /\ step.kind = "tunnel" =>
                {"starting_tunnel", "waiting_for_forward"} \subseteq route_stages(step)
           /\ step.kind = "tunnel" /\ ~step.cookie => "fetching_cookie" \in route_stages(step)
BY DEF Routes, route_stages, StageKind

\* On a route the checklist shows one stage of it at most.
LEMMA OnRouteFacts ==
    ASSUME WalkInv, FlowInv, pc \in OnRoute
    PROVE  /\ RouteList(flow) /\ AtMostOne(flow) /\ index \in DOMAIN plan
           /\ IF pc = "transport" /\ Step.kind = "direct" THEN Quiet(flow)
              ELSE \E k \in StageNow : Running(flow, index, k)
<1>1. index \in DOMAIN plan /\ first <= index /\ pc \notin Walked
  BY DEF WalkInv, RouteInv, OnRoute, Walked, CommandPoints, AskingPoints
<1>2. RouteList(flow)
  BY <1>1 DEF FlowInv, GivenUpInv, RouteList
<1>3. IF pc = "transport" /\ Step.kind = "direct" THEN Quiet(flow)
      ELSE \E k \in StageNow : Running(flow, index, k)
  BY DEF FlowInv, StageInv
<1>4. StageNow \subseteq StageKind
  BY DEF StageNow, StageKind, OnRoute, CommandPoints, AskingPoints
<1>5. DOMAIN flow.stages = DOMAIN plan
  BY <1>2 DEF RouteList, Checklists
<1>6. AtMostOne(flow)
  BY <1>1, <1>3, <1>4, <1>5 DEF AtMostOne
<1> QED
  BY <1>1, <1>2, <1>3, <1>6

\* Between two routes it shows none.
LEMMA BetweenFacts ==
    ASSUME WalkInv, FlowInv, pc \notin OnRoute
    PROVE  flow \in Checklists(DOMAIN plan) /\ Quiet(flow) /\ AtMostOne(flow)
BY DEF FlowInv, StageInv, AtMostOne

\* The next stage of the route starts: it is the one that runs.
LEMMA Entered ==
    ASSUME WalkInv, index \in DOMAIN plan, NEW f, RouteList(f),
           NEW k \in route_stages(Step),
           Quiet(f) \/ \E l \in StageKind : Running(f, index, l) /\ Rank(l) <= Rank(k)
    PROVE  RouteList(enter(f, index, k)) /\ Running(enter(f, index, k), index, k)
<1>1. k \in StageKind /\ Step \in Routes
  BY PlanFacts, RouteStages DEF WalkInv, Types, Places, Step
<1>2. f \in Checklists(DOMAIN plan) /\ f.stages[index][k] # "absent"
  BY DEF RouteList, Complete, Step
<1>3. \A j \in DOMAIN plan, l \in StageKind :
         f.stages[j][l] = "active" => j = index /\ (l = k \/ Rank(l) < Rank(k))
  <2>1. DOMAIN f.stages = DOMAIN plan
    BY <1>2 DEF Checklists
  <2>2. \A l \in StageKind : Rank(l) <= Rank(k) => l = k \/ Rank(l) < Rank(k)
    BY <1>1 DEF StageKind, Rank
  <2> QED
    BY <2>1, <2>2 DEF Quiet, Running
<1>4. Running(enter(f, index, k), index, k)
  BY <1>1, <1>2, <1>3, EnterRuns
<1>5. /\ enter(f, index, k) \in Checklists(DOMAIN plan)
      /\ \A j \in DOMAIN plan \ {index} : enter(f, index, k).stages[j] = f.stages[j]
      /\ \A j \in DOMAIN plan, l \in StageKind :
            f.stages[j][l] # "absent" => enter(f, index, k).stages[j][l] # "absent"
  BY <1>1, <1>2, EnterFacts
<1>6. Complete(enter(f, index, k))
  <2>1. \A j \in DOMAIN plan : route_stages(plan[j]) \subseteq StageKind
    BY PlanFacts, RouteStages DEF WalkInv, Types, Places
  <2> QED
    BY <1>5, <2>1 DEF RouteList, Complete
<1>7. \A i \in DOMAIN plan : i < index => HasFailed(enter(f, index, k), i)
  <2>1. index \in Int
    BY PlanIsInt
  <2> QED
    BY <1>5, <2>1, PlanIsInt DEF RouteList, HasFailed
<1> QED
  BY <1>4, <1>5, <1>6, <1>7 DEF RouteList

\* A step that stays on the route and shows the stage of where it leads to.
LEMMA StaysOnRoute ==
    ASSUME WalkInv, WalkInv', plan' = plan, index' = index, pc' \in OnRoute,
           RouteList(flow'),
           IF pc' = "transport" /\ Step.kind = "direct" THEN Quiet(flow')
           ELSE \E k \in StageNow' : Running(flow', index, k)
    PROVE  FlowInv'
<1>1. pc' \notin Walked /\ first' <= index
  BY DEF WalkInv, RouteInv, OnRoute, Walked, CommandPoints, AskingPoints
<1>2. flow' \in Checklists(DOMAIN plan') /\ Complete(flow)'
  BY DEF RouteList, Complete
<1>3. StageInv'
  BY DEF StageInv, Step
<1>4. \A i \in DOMAIN plan' : i < first' \/ i < index' => HasFailed(flow', i)
  <2>1. first' \in Int /\ index \in Int /\ DOMAIN plan \in SUBSET Int
    BY PlanIsInt DEF WalkInv, Types, Places
  <2> QED
    BY <1>1, <2>1 DEF RouteList
<1>5. GivenUpInv'
  BY <1>2, <1>4 DEF GivenUpInv
<1>6. EndInv'
  BY <1>1 DEF EndInv
<1> QED
  BY <1>2, <1>3, <1>5, <1>6 DEF FlowInv

\* The next route is tried, and the one given up shows what failed.
LEMMA GivesUpRoute ==
    ASSUME WalkInv, WalkInv', index \in DOMAIN plan, NEW f, RouteList(f),
           NEW k \in StageKind, Running(f, index, k), flow' = step_failed(f, index),
           plan' = plan,
           \/ pc' = "route" /\ index' = index + 1
           \/ pc' = "loop" /\ index' = index /\ first' = index + 1
    PROVE  FlowInv'
<1>1. f \in Checklists(DOMAIN plan)
  BY DEF RouteList
<1>2. /\ flow' \in Checklists(DOMAIN plan)
      /\ Quiet(flow') /\ HasFailed(flow', index)
      /\ \A j \in DOMAIN plan \ {index} : flow'.stages[j] = f.stages[j]
      /\ \A j \in DOMAIN plan, l \in StageKind :
            f.stages[j][l] # "absent" => flow'.stages[j][l] # "absent"
  BY <1>1, StepFailedFacts
<1>3. pc' \notin OnRoute \cup Walked /\ index \in Int /\ DOMAIN plan \in SUBSET Int
  BY PlanIsInt DEF OnRoute, Walked, CommandPoints, AskingPoints
<1>4. StageInv'
  BY <1>2, <1>3 DEF StageInv
<1>5. Complete(flow)'
  <2>1. \A j \in DOMAIN plan : route_stages(plan[j]) \subseteq StageKind
    BY PlanFacts, RouteStages DEF WalkInv, Types, Places
  <2> QED
    BY <1>2, <2>1 DEF RouteList, Complete
<1>6. \A i \in DOMAIN plan' : i < first' \/ i < index' => HasFailed(flow', i)
  <2>1. first' \in Int /\ (first' <= index + 1) /\ index' <= index + 1
    BY <1>3 DEF WalkInv, Types, Places, RouteInv
  <2>2. \A i \in DOMAIN plan : i < index => HasFailed(flow', i)
    BY <1>2, <1>3 DEF RouteList, HasFailed
  <2> QED
    BY <1>2, <1>3, <2>1, <2>2
<1>7. EndInv'
  BY <1>3 DEF EndInv
<1> QED
  BY <1>2, <1>4, <1>5, <1>6, <1>7 DEF FlowInv, GivenUpInv

\* The walk is over, stopped or failed.
LEMMA EndsCancelled ==
    ASSUME WalkInv, NEW f \in Checklists(DOMAIN plan), AtMostOne(f), plan' = plan,
           Ended("cancelled", begin_disconnect(f))
    PROVE  FlowInv'
<1>1. pc' = "unwind" /\ result' = "cancelled" /\ flow' = begin_disconnect(f)
  BY DEF Ended
<1>2. /\ flow' \in Checklists(DOMAIN plan)
      /\ flow'.state = "disconnecting" /\ Quiet(flow') /\ NothingPending(flow')
  BY <1>1, PlanIsInt, DisconnectFacts
<1>3. pc' \notin OnRoute /\ pc' \in Walked /\ pc' # "exited"
  BY <1>1 DEF OnRoute, Walked, CommandPoints, AskingPoints
<1> QED
  BY <1>1, <1>2, <1>3 DEF FlowInv, StageInv, GivenUpInv, EndInv

LEMMA EndsFailed ==
    ASSUME WalkInv, NEW f \in Checklists(DOMAIN plan), AtMostOne(f), plan' = plan,
           NEW i \in DOMAIN plan,
           HasFailed(f, i) \/ \E k \in StageKind : Running(f, i, k),
           NEW point \in FailPoints, FailWith(point, f)
    PROVE  FlowInv'
<1>1. pc' = "unwind" /\ result' = point /\ flow' = fail(f)
  BY DEF FailWith, Ended
<1>2. /\ flow' \in Checklists(DOMAIN plan)
      /\ flow'.state = "failed" /\ Quiet(flow') /\ HasFailed(flow', i)
  BY <1>1, PlanIsInt, FailFacts
<1>3. pc' \notin OnRoute /\ pc' \in Walked
  BY <1>1 DEF OnRoute, Walked, CommandPoints, AskingPoints
<1>4. point # "ok" /\ point # "cancelled"
  BY DEF FailPoints
<1> QED
  BY <1>1, <1>2, <1>3, <1>4 DEF FlowInv, StageInv, GivenUpInv, EndInv

\* Between two routes a step that leaves the checklist alone.
LEMMA StaysBetween ==
    ASSUME WalkInv, WalkInv', FlowInv, flow' = flow, plan' = plan,
           pc \notin OnRoute \cup Walked, pc' \notin OnRoute \cup Walked,
           first' = first, index' = index \/ index' = first
    PROVE  FlowInv'
<1>1. StageInv' /\ EndInv'
  BY DEF FlowInv, StageInv, EndInv
<1>2. GivenUpInv'
  BY DEF FlowInv, GivenUpInv, Complete
<1> QED
  BY <1>1, <1>2 DEF FlowInv

\* A step that leaves the walk where it is, or lets it wait or wake.
LEMMA KeepsFlow ==
    ASSUME WalkInv, FlowInv,
           UNCHANGED <<plan, first, index, transport, flow, result>>,
           pc' = pc \/ (pc \in AskingPoints /\ pc' \in AskingPoints)
    PROVE  FlowInv'
<1>1. CASE pc' = pc
  BY <1>1 DEF FlowInv, StageInv, GivenUpInv, EndInv, Complete, StageNow, Job, Step
<1>2. CASE pc \in AskingPoints /\ pc' \in AskingPoints
  <2>1. /\ pc \in OnRoute /\ pc' \in OnRoute
        /\ pc \notin CommandPoints \cup Walked \cup {"transport", "spawn", "forward"}
        /\ pc' \notin CommandPoints \cup Walked \cup {"transport", "spawn", "forward"}
    BY <1>2 DEF OnRoute, Walked, CommandPoints, AskingPoints
  <2>2. StageNow' = StageNow
    BY <1>2, <2>1 DEF StageNow, Step, AskingPoints
  <2>3. StageInv'
    BY <2>1, <2>2 DEF FlowInv, StageInv
  <2> QED
    BY <2>1, <2>3 DEF FlowInv, GivenUpInv, EndInv, Complete
<1> QED
  BY <1>1, <1>2

\* A row with a stage has a first one.
LEMMA FirstStageExists ==
    ASSUME NEW row, NEW k \in StageKind, row[k] # "absent"
    PROVE  \E first_one \in StageKind : first_one \in first_stage(row)
<1> DEFINE Present(n) == \E j \in StageKind : row[j] # "absent" /\ Rank(j) <= n
<1>1. \A j \in StageKind : Rank(j) \in 1..9
  BY DEF StageKind, Rank
<1>2. \A i, j \in StageKind : Rank(i) = Rank(j) => i = j
  BY DEF StageKind, Rank
<1>3. Present(9) /\ ~Present(0)
  BY <1>1
<1>4. \E n \in 1..9 : Present(n) /\ ~Present(n - 1)
  <2> HIDE DEF Present
  <2>1. CASE Present(1)
    BY <1>3, <2>1
  <2>2. CASE ~Present(1) /\ Present(2)
    BY <2>2
  <2>3. CASE ~Present(2) /\ Present(3)
    BY <2>3
  <2>4. CASE ~Present(3) /\ Present(4)
    BY <2>4
  <2>5. CASE ~Present(4) /\ Present(5)
    BY <2>5
  <2>6. CASE ~Present(5) /\ Present(6)
    BY <2>6
  <2>7. CASE ~Present(6) /\ Present(7)
    BY <2>7
  <2>8. CASE ~Present(7) /\ Present(8)
    BY <2>8
  <2>9. CASE ~Present(8)
    BY <1>3, <2>9
  <2> QED
    BY <2>1, <2>2, <2>3, <2>4, <2>5, <2>6, <2>7, <2>8, <2>9
<1>5. PICK n \in 1..9 : Present(n) /\ ~Present(n - 1)
  BY <1>4
<1>6. PICK j \in StageKind : row[j] # "absent" /\ Rank(j) <= n
  BY <1>5
<1>7. \A i \in StageKind : row[i] # "absent" => Rank(j) <= Rank(i)
  BY <1>1, <1>5, <1>6
<1> QED
  BY <1>6, <1>7 DEF first_stage

\* The walk before and between its routes.
LEMMA FlowBetween ==
    ASSUME WalkInv, WalkInv', FlowInv, Preflight \/ Loop \/ NoRoute
    PROVE  FlowInv'
<1>1. pc \in {"preflight", "loop", "no_route"} /\ plan' = plan
  BY DEF Preflight, Loop, NoRoute, FailWith, finish_cancelled, Ended
<1>2. pc \notin OnRoute \cup Walked
  BY <1>1 DEF OnRoute, Walked, CommandPoints, AskingPoints
<1>3. flow \in Checklists(DOMAIN plan) /\ Quiet(flow) /\ AtMostOne(flow)
  BY <1>2, BetweenFacts
<1>4. /\ Len(plan) \in Nat /\ Len(plan) >= 1 /\ DOMAIN plan = 1..Len(plan)
      /\ \A i \in DOMAIN plan : plan[i] \in Routes
      /\ 1 \in DOMAIN plan
  <2>1. plan \in Plans
    BY DEF WalkInv, Types, Places
  <2> QED
    BY <2>1, PlanFacts
<1>5. CASE Preflight /\ pc' = "loop"
  <2>1. UNCHANGED <<flow, first, index>>
    BY <1>5 DEF Preflight, FailWith, Ended
  <2>2. pc' \notin OnRoute \cup Walked
    BY <1>5 DEF OnRoute, Walked, CommandPoints, AskingPoints
  <2> QED
    BY <1>1, <1>2, <2>1, <2>2, StaysBetween
<1>6. CASE Preflight /\ pc' # "loop"
  <2> DEFINE f == begin_step(flow)
             k == CHOOSE kind \in first_stage(flow.stages[1]) : TRUE
  <2>1. f \in Checklists(DOMAIN plan) /\ f.stages = flow.stages
    BY <1>3, BeginStepFacts
  <2>2. FailWith("preflight", enter(f, 1, k))
    BY <1>6 DEF Preflight
  <2>3. k \in first_stage(flow.stages[1])
    <3>1. flow.stages[1]["handshake"] # "absent"
      <4>1. "handshake" \in route_stages(plan[1])
        BY <1>4, RouteStages
      <4> QED
        BY <1>2, <1>4, <4>1 DEF FlowInv, GivenUpInv, Complete
    <3>2. "handshake" \in StageKind
      BY DEF StageKind
    <3>3. \E kind : kind \in first_stage(flow.stages[1])
      BY <3>1, <3>2, FirstStageExists
    <3> QED
      BY <3>3
  <2> HIDE DEF k, f
  <2>4. k \in StageKind /\ f.stages[1][k] # "absent"
    BY <2>1, <2>3 DEF first_stage
  <2>5. \A j \in DOMAIN plan, l \in StageKind : f.stages[j][l] # "active"
    BY <1>3, <2>1 DEF Quiet, Checklists
  <2>6. Running(enter(f, 1, k), 1, k) /\ enter(f, 1, k) \in Checklists(DOMAIN plan)
    <3>1. Running(enter(f, 1, k), 1, k)
      BY <1>4, <2>1, <2>4, <2>5, EnterRuns
    <3>2. enter(f, 1, k) \in Checklists(DOMAIN plan)
      BY <1>4, <2>1, <2>4, EnterFacts
    <3> QED
      BY <3>1, <3>2
  <2>7. AtMostOne(enter(f, 1, k))
    BY <1>4, <2>4, <2>6 DEF AtMostOne, Checklists
  <2>8. "preflight" \in FailPoints
    BY DEF FailPoints
  <2> QED
    BY <1>1, <1>4, <2>2, <2>4, <2>6, <2>7, <2>8, EndsFailed
<1>7. CASE Loop /\ ~cancelled
  <2>1. flow' = flow /\ index' = first /\ first' = first /\ pc' = "route"
    BY <1>7 DEF Loop
  <2>2. pc' \notin OnRoute \cup Walked
    BY <2>1 DEF OnRoute, Walked, CommandPoints, AskingPoints
  <2> QED
    BY <1>1, <1>2, <2>1, <2>2, StaysBetween
<1>8. CASE (Loop \/ NoRoute) /\ cancelled
  <2>1. Ended("cancelled", begin_disconnect(flow))
    BY <1>8 DEF Loop, NoRoute, finish_cancelled
  <2> QED
    BY <1>1, <1>3, <2>1, EndsCancelled
<1>9. CASE NoRoute /\ ~cancelled
  <2>1. FailWith("substrate", flow) /\ "substrate" \in FailPoints
    BY <1>9 DEF NoRoute, FailPoints
  <2>2. 1 < index
    BY <1>4, <1>9 DEF NoRoute, WalkInv, Types, Places, RouteInv
  <2>3. HasFailed(flow, 1)
    BY <1>2, <1>4, <2>2 DEF FlowInv, GivenUpInv
  <2> QED
    BY <1>1, <1>3, <1>4, <2>1, <2>3, EndsFailed
<1> QED
  BY <1>5, <1>6, <1>7, <1>8, <1>9 DEF Preflight

\* Taking up a route.
LEMMA FlowRoute ==
    ASSUME WalkInv, WalkInv', FlowInv, Route
    PROVE  FlowInv'
<1> DEFINE began == begin_step(flow)
<1>1. pc = "route" /\ pc \notin OnRoute \cup Walked /\ UNCHANGED <<plan, first, transport>>
  BY DEF Route, routeVars, OnRoute, Walked, CommandPoints, AskingPoints
<1>2. flow \in Checklists(DOMAIN plan) /\ Quiet(flow)
  BY <1>1, BetweenFacts
<1>3. began \in Checklists(DOMAIN plan) /\ began.stages = flow.stages
  BY <1>2, BeginStepFacts
<1>4. RouteList(began) /\ Quiet(began)
  BY <1>1, <1>2, <1>3 DEF FlowInv, GivenUpInv, RouteList, Complete, HasFailed, Quiet
<1> HIDE DEF began
<1>5. CASE WalkEnds
  <2>1. UNCHANGED <<flow, index>> /\ pc' = "no_route"
    BY <1>5 DEF Route
  <2>2. pc' \notin OnRoute \cup Walked
    BY <2>1 DEF OnRoute, Walked, CommandPoints, AskingPoints
  <2> QED
    BY <1>1, <2>1, <2>2, StaysBetween
<1>6. ASSUME ~WalkEnds
      PROVE  index \in DOMAIN plan /\ Step \in Routes /\ transport = "none"
  <2>1. plan \in Plans /\ index \in 1..Len(plan) + 1 /\ ~(index > Len(plan))
    BY <1>6 DEF WalkEnds, WalkInv, Types, Places
  <2>2. index \in DOMAIN plan
    BY <2>1, PlanFacts
  <2> QED
    BY <1>1, <2>1, <2>2, PlanFacts DEF Step, WalkInv, RouteInv
<1>7. CASE ~WalkEnds /\ Step.kind = "broker"
  <2> DEFINE f == enter(began, index, "contacting_broker")
  <2>1. \/ RouteFailed(f)
        \/ pc' \in {"transport", "command"} /\ flow' = f /\ UNCHANGED index
    BY <1>7 DEF Route, BrokerReady, began
  <2>2. "contacting_broker" \in route_stages(Step)
    BY <1>6, <1>7, RouteStages
  <2>3. RouteList(f) /\ Running(f, index, "contacting_broker")
    BY <1>4, <1>6, <1>7, <2>2, Entered
  <2> HIDE DEF f
  <2>4. CASE RouteFailed(f)
    <3>1. "contacting_broker" \in StageKind
      BY DEF StageKind
    <3> QED
      BY <1>1, <1>6, <1>7, <2>3, <2>4, <3>1, GivesUpRoute DEF RouteFailed
  <2>5. CASE pc' \in {"transport", "command"} /\ flow' = f /\ UNCHANGED index
    <3>1. pc' \in OnRoute /\ Step' = Step /\ transport' = "none"
      BY <1>1, <1>6, <1>7, <2>5 DEF OnRoute, CommandPoints, Step
    <3>2. StageNow' = {"contacting_broker"}
      BY <1>7, <2>5, <3>1 DEF StageNow, Job, CommandPoints, AskingPoints
    <3> QED
      BY <1>1, <1>7, <2>3, <2>5, <3>1, <3>2, StaysOnRoute
  <2> QED
    BY <2>1, <2>4, <2>5
<1>8. CASE ~WalkEnds /\ Step.kind = "direct"
  <2>1. pc' = "transport" /\ flow' = began /\ UNCHANGED index
    BY <1>8 DEF Route, began
  <2>2. pc' \in OnRoute
    BY <2>1 DEF OnRoute
  <2> QED
    BY <1>1, <1>4, <1>8, <2>1, <2>2, StaysOnRoute
<1>9. CASE ~WalkEnds /\ Step.kind = "tunnel"
  <2> DEFINE k == IF Step.cookie THEN "starting_tunnel" ELSE "fetching_cookie"
             f == enter(began, index, k)
  <2>1. /\ pc' = IF Step.cookie THEN "spawn" ELSE "command"
        /\ flow' = f /\ UNCHANGED index
    BY <1>9 DEF Route, began
  <2>2. k \in route_stages(Step)
    BY <1>6, <1>9, RouteStages DEF Routes
  <2>3. RouteList(f) /\ Running(f, index, k)
    <3> HIDE DEF k
    <3> QED
      BY <1>4, <1>6, <1>9, <2>2, Entered
  <2>4. pc' \in OnRoute /\ pc' # "transport" /\ Step' = Step /\ transport' = "none"
    BY <1>1, <1>6, <1>9, <2>1 DEF OnRoute, CommandPoints, Step
  <2>5. StageNow' = {k}
    BY <1>9, <2>1, <2>4 DEF StageNow, Job, CommandPoints, AskingPoints
  <2> HIDE DEF f, k
  <2> QED
    BY <1>1, <2>1, <2>3, <2>4, <2>5, StaysOnRoute
<1>10. ~WalkEnds => Step.kind \in {"broker", "direct", "tunnel"}
  BY DEF Route
<1> QED
  BY <1>5, <1>7, <1>8, <1>9, <1>10

\* Running a command over ssh.
LEMMA FlowCommand ==
    ASSUME WalkInv, WalkInv', FlowInv, CommandStarts \/ CommandForks \/ CommandEnds
    PROVE  FlowInv'
<1>1. pc \in CommandPoints /\ pc \in OnRoute /\ pc \notin AskingPoints \cup {"transport"}
  BY DEF CommandStarts, CommandForks, CommandEnds, OnRoute, CommandPoints, AskingPoints
<1>2. /\ RouteList(flow) /\ AtMostOne(flow) /\ index \in DOMAIN plan
      /\ \E k \in StageNow : Running(flow, index, k)
  BY <1>1, OnRouteFacts
<1>3. UNCHANGED <<plan, first, transport>>
  BY DEF CommandStarts, CommandForks, CommandEnds, CommandFailed, CommandSucceeded,
     routeVars
<1>4. StageNow = IF Job = "broker" THEN {"contacting_broker"}
                 ELSE IF Job = "cookie" THEN {"fetching_cookie"} ELSE {"fetching_fonts"}
  BY <1>1 DEF StageNow, CommandPoints, AskingPoints
<1>5. StageNow \subseteq StageKind
  BY <1>4 DEF StageKind
<1>6. plan \in Plans /\ Step \in Routes
  BY <1>2, PlanFacts DEF WalkInv, Types, Places, Step
<1>7. CASE RouteFailed(flow)
  <2>1. PICK k \in StageKind : Running(flow, index, k)
    BY <1>2, <1>5
  <2> QED
    BY <1>2, <1>3, <1>7, <2>1, GivesUpRoute DEF RouteFailed
<1>8. CASE pc' \in CommandPoints /\ UNCHANGED <<index, flow>>
  <2>1. pc' \in OnRoute /\ pc' # "transport" /\ StageNow' = StageNow
    BY <1>3, <1>4, <1>8 DEF OnRoute, CommandPoints, AskingPoints, StageNow, Job, Step
  <2> QED
    BY <1>2, <1>3, <1>8, <2>1, StaysOnRoute
<1>9. CASE Job = "fonts" /\ pc' = "fetched" /\ UNCHANGED <<index, flow>>
  <2>1. pc' \in OnRoute /\ pc' # "transport" /\ StageNow' = {"fetching_fonts"}
    BY <1>9 DEF OnRoute, CommandPoints, AskingPoints, StageNow
  <2> QED
    BY <1>2, <1>3, <1>4, <1>9, <2>1, StaysOnRoute
<1>10. CASE Job = "broker" /\ pc' = "transport" /\ UNCHANGED <<index, flow>>
  <2>1. pc' \in OnRoute /\ Step' = Step /\ Step.kind = "broker"
    BY <1>3, <1>10 DEF OnRoute, Job, Step
  <2>2. StageNow' = {"contacting_broker"}
    BY <1>10, <2>1 DEF CommandPoints, AskingPoints, StageNow
  <2> QED
    BY <1>2, <1>3, <1>4, <1>10, <2>1, <2>2, StaysOnRoute
<1>11. CASE /\ Job = "cookie" /\ pc' = "spawn" /\ UNCHANGED index
            /\ flow' = enter(flow, index, "starting_tunnel")
  <2>1. Step.kind = "tunnel"
    BY <1>1, <1>6, <1>11 DEF Job, WalkInv, RouteInv, Routes
  <2>2. "starting_tunnel" \in route_stages(Step)
    BY <1>6, <2>1, RouteStages
  <2>3. /\ Running(flow, index, "fetching_cookie") /\ "fetching_cookie" \in StageKind
        /\ Rank("fetching_cookie") <= Rank("starting_tunnel")
    BY <1>2, <1>4, <1>11 DEF StageKind, Rank
  <2>4. RouteList(flow') /\ Running(flow', index, "starting_tunnel")
    BY <1>2, <1>11, <2>2, <2>3, Entered
  <2>5. pc' \in OnRoute /\ pc' # "transport" /\ StageNow' = {"starting_tunnel"}
    BY <1>11 DEF OnRoute, CommandPoints, AskingPoints, StageNow
  <2> QED
    BY <1>3, <1>11, <2>4, <2>5, StaysOnRoute
<1> QED
  BY <1>7, <1>8, <1>9, <1>10, <1>11 DEF CommandStarts, CommandForks, CommandEnds,
     CommandFailed,
     CommandSucceeded, BrokerReady, CommandPoints

\* The tunnel's ssh.
LEMMA FlowTunnel ==
    ASSUME WalkInv, WalkInv', FlowInv, SpawnTunnel \/ ForwardSettles
    PROVE  FlowInv'
<1>1. pc \in {"spawn", "forward"} /\ UNCHANGED <<plan, first, transport>>
  BY DEF SpawnTunnel, ForwardSettles, routeVars
<1>2. pc \in OnRoute /\ pc \notin CommandPoints \cup AskingPoints
  BY <1>1 DEF OnRoute, CommandPoints, AskingPoints
<1>3. StageNow = {IF pc = "spawn" THEN "starting_tunnel" ELSE "waiting_for_forward"}
  BY <1>1, <1>2 DEF StageNow
<1>4. /\ RouteList(flow) /\ index \in DOMAIN plan
      /\ \E k \in StageNow : Running(flow, index, k)
  BY <1>1, <1>2, OnRouteFacts
<1>5. Step \in Routes /\ Step.kind = "tunnel"
  BY <1>1, <1>4, PlanFacts DEF WalkInv, Types, Places, Step, RouteInv
<1>6. CASE RouteFailed(flow)
  <2>1. PICK k \in StageKind : Running(flow, index, k)
    BY <1>3, <1>4 DEF StageKind
  <2> QED
    BY <1>1, <1>4, <1>6, <2>1, GivesUpRoute DEF RouteFailed
<1>7. CASE SpawnTunnel /\ pc' = "forward"
  <2>1. flow' = enter(flow, index, "waiting_for_forward") /\ UNCHANGED index
    BY <1>7 DEF SpawnTunnel, RouteFailed
  <2>2. "waiting_for_forward" \in route_stages(Step)
    BY <1>5, RouteStages
  <2>3. /\ Running(flow, index, "starting_tunnel") /\ "starting_tunnel" \in StageKind
        /\ Rank("starting_tunnel") <= Rank("waiting_for_forward")
    BY <1>3, <1>4, <1>7 DEF SpawnTunnel, StageKind, Rank
  <2>4. RouteList(flow') /\ Running(flow', index, "waiting_for_forward")
    BY <1>4, <2>1, <2>2, <2>3, Entered
  <2>5. pc' \in OnRoute /\ pc' # "transport" /\ StageNow' = {"waiting_for_forward"}
    BY <1>7 DEF OnRoute, CommandPoints, AskingPoints, StageNow
  <2> QED
    BY <1>1, <2>1, <2>4, <2>5, StaysOnRoute
<1>8. CASE ForwardSettles /\ pc' = "transport"
  <2>1. UNCHANGED <<flow, index>> /\ Running(flow, index, "waiting_for_forward")
    BY <1>3, <1>4, <1>8 DEF ForwardSettles, RouteFailed
  <2>2. pc' \in OnRoute /\ Step' = Step
    BY <1>1, <1>8, <2>1 DEF OnRoute, Step
  <2>3. StageNow' = {"waiting_for_forward"}
    BY <1>5, <1>8, <2>2 DEF CommandPoints, AskingPoints, StageNow
  <2> QED
    BY <1>1, <1>4, <1>5, <2>1, <2>2, <2>3, StaysOnRoute
<1> QED
  BY <1>6, <1>7, <1>8 DEF SpawnTunnel, ForwardSettles

\* A route that is up, or coming up, ends the attempt.
LEMMA FlowEnds ==
    ASSUME WalkInv, FlowInv, pc \in OnRoute \ {"transport"},
           finish_cancelled \/ \E point \in FailPoints : FailWith(point, flow)
    PROVE  FlowInv'
<1>1. /\ RouteList(flow) /\ AtMostOne(flow) /\ index \in DOMAIN plan
      /\ \E k \in StageNow : Running(flow, index, k)
  BY OnRouteFacts
<1>2. StageNow \subseteq StageKind
  BY DEF StageNow, StageKind, OnRoute, CommandPoints, AskingPoints
<1>3. flow \in Checklists(DOMAIN plan) /\ plan' = plan
  BY <1>1 DEF RouteList, finish_cancelled, FailWith, Ended
<1>4. CASE finish_cancelled
  BY <1>1, <1>3, <1>4, EndsCancelled DEF finish_cancelled
<1>5. ASSUME NEW point \in FailPoints, FailWith(point, flow)
      PROVE  FlowInv'
  <2>1. \E k \in StageKind : Running(flow, index, k)
    BY <1>1, <1>2
  <2> QED
    BY <1>1, <1>3, <1>5, <2>1, EndsFailed
<1> QED
  BY <1>4, <1>5

\* A broker that did not come up is given up for the next route.
LEMMA FlowFallsBack ==
    ASSUME WalkInv, WalkInv', index \in DOMAIN plan, NEW f, RouteList(f),
           NEW k \in StageKind, Running(f, index, k), fall_back(f)
    PROVE  FlowInv'
<1>1. /\ plan' = plan /\ flow' = step_failed(f, index)
      /\ pc' = "loop" /\ index' = index /\ first' = index + 1
  BY DEF fall_back
<1> QED
  BY <1>1, GivesUpRoute

LEMMA FlowMakeTransport ==
    ASSUME WalkInv, WalkInv', FlowInv, MakeTransport
    PROVE  FlowInv'
<1> DEFINE k == IF Step.kind = "broker" THEN "authenticating" ELSE "connecting_transport"
           f == enter(flow, index, k)
<1>1. pc = "transport" /\ pc \in OnRoute /\ pc \notin CommandPoints \cup AskingPoints
  BY DEF MakeTransport, OnRoute, CommandPoints, AskingPoints
<1>2. /\ RouteList(flow) /\ index \in DOMAIN plan
      /\ IF Step.kind = "direct" THEN Quiet(flow)
         ELSE \E l \in StageNow : Running(flow, index, l)
  BY <1>1, OnRouteFacts
<1>3. Step \in Routes /\ Step.kind \in {"broker", "tunnel", "direct"}
  BY <1>2, PlanFacts DEF WalkInv, Types, Places, Step, Routes
<1>4. StageNow = {IF Step.kind = "broker" THEN "contacting_broker" ELSE "waiting_for_forward"}
  BY <1>1 DEF StageNow
<1>5. k \in StageKind /\ k \in route_stages(Step)
  BY <1>3, RouteStages DEF StageKind
<1>6. Quiet(flow) \/ \E l \in StageKind : Running(flow, index, l) /\ Rank(l) <= Rank(k)
  BY <1>2, <1>3, <1>4 DEF StageKind, Rank
<1>7. /\ \/ /\ flow' = f /\ pc' = "connect" /\ UNCHANGED <<plan, index>>
         \/ fall_back(f) \/ FailWith("transport", f)
  BY DEF MakeTransport
<1> HIDE DEF k
<1>8. RouteList(f) /\ Running(f, index, k)
  BY <1>2, <1>5, <1>6, Entered
<1> HIDE DEF f
<1>9. CASE flow' = f /\ pc' = "connect" /\ UNCHANGED <<plan, index>>
  <2>1. pc' \in OnRoute /\ pc' # "transport" /\ Step' = Step
    BY <1>9 DEF OnRoute, Step
  <2>2. StageNow' = {k}
    BY <1>9, <2>1 DEF CommandPoints, AskingPoints, StageNow, k
  <2> QED
    BY <1>8, <1>9, <2>1, <2>2, StaysOnRoute
<1>10. CASE fall_back(f)
  BY <1>2, <1>5, <1>8, <1>10, FlowFallsBack
<1>11. CASE FailWith("transport", f)
  <2>1. "transport" \in FailPoints /\ plan' = plan
    BY <1>11 DEF FailPoints, FailWith, Ended
  <2>2. f \in Checklists(DOMAIN plan) /\ AtMostOne(f)
    BY <1>2, <1>5, <1>8 DEF RouteList, AtMostOne, Checklists
  <2> QED
    BY <1>2, <1>5, <1>8, <1>11, <2>1, <2>2, EndsFailed
<1> QED
  BY <1>7, <1>9, <1>10, <1>11

\* The stage at which a route connects, and asks about the broker's certificate.
LEMMA Connecting ==
    ASSUME WalkInv, FlowInv, pc \in AskingPoints \cup {"connect"}
    PROVE  /\ RouteList(flow) /\ index \in DOMAIN plan /\ Step \in Routes
           /\ \E k \in {"authenticating", "connecting_transport"} :
                 StageNow = {k} /\ Running(flow, index, k) /\ k \in StageKind
           /\ pc \in OnRoute \ {"transport"} /\ pc \notin CommandPoints
<1>1. pc \in OnRoute \ {"transport"} /\ pc \notin CommandPoints
  BY DEF OnRoute, CommandPoints, AskingPoints
<1>2. /\ RouteList(flow) /\ index \in DOMAIN plan
      /\ \E k \in StageNow : Running(flow, index, k)
  BY <1>1, OnRouteFacts
<1>3. StageNow = {IF Step.kind = "broker" THEN "authenticating" ELSE "connecting_transport"}
  BY <1>1 DEF StageNow, CommandPoints, AskingPoints
<1>4. Step \in Routes
  BY <1>2, PlanFacts DEF WalkInv, Types, Places, Step
<1> QED
  BY <1>1, <1>2, <1>3, <1>4 DEF StageKind

LEMMA FlowConnect ==
    ASSUME WalkInv, WalkInv', FlowInv,
           Connect \/ \E choice \in TrustChoices : pc = "checking" /\ TrustDecided(choice)
    PROVE  FlowInv'
<1>1. pc \in AskingPoints \cup {"connect"}
  BY DEF Connect, AskingPoints
<1>2. /\ RouteList(flow) /\ index \in DOMAIN plan /\ Step \in Routes
      /\ pc \in OnRoute \ {"transport"} /\ pc \notin CommandPoints
  BY <1>1, Connecting
<1>3. PICK k \in {"authenticating", "connecting_transport"} :
         StageNow = {k} /\ Running(flow, index, k) /\ k \in StageKind
  BY <1>1, Connecting
<1>4. CASE pc' = "handshake" /\ UNCHANGED <<plan, index>> /\ flow' = enter(flow, index, "handshake")
  <2>1. "handshake" \in route_stages(Step) /\ Rank(k) <= Rank("handshake")
    BY <1>2, RouteStages DEF Rank
  <2>2. RouteList(flow') /\ Running(flow', index, "handshake")
    BY <1>2, <1>3, <1>4, <2>1, Entered
  <2>3. pc' \in OnRoute /\ pc' # "transport" /\ StageNow' = {"handshake"}
    BY <1>4 DEF OnRoute, StageNow, CommandPoints, AskingPoints
  <2> QED
    BY <1>4, <2>2, <2>3, StaysOnRoute
<1>5. CASE pc' \in {"asking", "connect"} /\ UNCHANGED <<plan, index, flow>>
  <2>1. pc' \in OnRoute /\ pc' # "transport" /\ StageNow' = StageNow
    BY <1>1, <1>5 DEF OnRoute, StageNow, CommandPoints, AskingPoints, Step
  <2> QED
    BY <1>2, <1>3, <1>5, <2>1, StaysOnRoute
<1>6. CASE fall_back(flow)
  BY <1>2, <1>3, <1>6, FlowFallsBack
<1>7. CASE finish_cancelled \/ FailWith("trust", flow) \/ FailWith("transport", flow)
  <2>1. {"trust", "transport"} \subseteq FailPoints
    BY DEF FailPoints
  <2> QED
    BY <1>2, <1>7, <2>1, FlowEnds
<1> QED
  BY <1>4, <1>5, <1>6, <1>7 DEF Connect, TrustDecided, TrustRefused

LEMMA FlowHandshake ==
    ASSUME WalkInv, WalkInv', FlowInv,
           Handshake \/ FontReplay \/ FontsFetched \/ Throws
    PROVE  FlowInv'
<1>1. pc \in {"handshake", "replay", "fetched"} /\ plan' = plan
  BY DEF Handshake, FontReplay, FontsFetched, Throws, FailWith, finish_cancelled, Ended
<1>2. pc \in OnRoute \ {"transport"} /\ pc \notin CommandPoints \cup AskingPoints
  BY <1>1 DEF OnRoute, CommandPoints, AskingPoints
<1>3. StageNow = {IF pc = "handshake" THEN "handshake"
                  ELSE IF pc = "replay" THEN "requesting_display" ELSE "fetching_fonts"}
  BY <1>1, <1>2 DEF StageNow, CommandPoints, AskingPoints
<1>4. /\ RouteList(flow) /\ index \in DOMAIN plan
      /\ \E k \in StageNow : Running(flow, index, k)
  BY <1>2, OnRouteFacts
<1>5. Step \in Routes
  BY <1>4, PlanFacts DEF WalkInv, Types, Places, Step
<1>6. PICK k \in StageKind : Running(flow, index, k) /\ StageNow = {k}
  BY <1>3, <1>4 DEF StageKind
<1>7. CASE finish_cancelled \/ \E point \in {"protocol", "exception"} : FailWith(point, flow)
  <2>1. {"protocol", "exception"} \subseteq FailPoints
    BY DEF FailPoints
  <2> QED
    BY <1>2, <1>7, <2>1, FlowEnds
<1>8. CASE Handshake
  <2> DEFINE f == enter(flow, index, "requesting_display")
  <2>1. /\ "requesting_display" \in route_stages(Step) /\ "requesting_display" \in StageKind
        /\ k = "handshake" /\ Rank(k) <= Rank("requesting_display")
    BY <1>3, <1>5, <1>6, <1>8, RouteStages DEF Handshake, StageKind, Rank
  <2>2. RouteList(f) /\ Running(f, index, "requesting_display")
    BY <1>4, <1>6, <2>1, Entered
  <2>3. f \in Checklists(DOMAIN plan) /\ AtMostOne(f)
    BY <1>4, <2>1, <2>2 DEF RouteList, AtMostOne, Checklists
  <2>4. \/ flow' = f /\ pc' \in {"replay", "connected"} /\ UNCHANGED index
        \/ finish_cancelled \/ FailWith("protocol", flow)
        \/ Ended("cancelled", begin_disconnect(f)) \/ FailWith("protocol", f)
    BY <1>8 DEF Handshake, finish_cancelled
  <2> HIDE DEF f
  <2>5. CASE flow' = f /\ pc' \in {"replay", "connected"} /\ UNCHANGED index
    <3>1. pc' \in OnRoute /\ pc' # "transport" /\ "requesting_display" \in StageNow'
      BY <2>5 DEF OnRoute, StageNow, CommandPoints, AskingPoints
    <3> QED
      BY <1>1, <2>2, <2>5, <3>1, StaysOnRoute
  <2>6. CASE Ended("cancelled", begin_disconnect(f))
    BY <1>1, <2>3, <2>6, EndsCancelled
  <2>7. CASE FailWith("protocol", f)
    <3>1. "protocol" \in FailPoints
      BY DEF FailPoints
    <3> QED
      BY <1>1, <1>4, <2>1, <2>2, <2>3, <2>7, <3>1, EndsFailed
  <2> QED
    BY <1>7, <2>4, <2>5, <2>6, <2>7
<1>9. CASE FontReplay /\ pc' = "connected" /\ UNCHANGED <<index, flow>>
  <2>1. pc' \in OnRoute /\ pc' # "transport" /\ "requesting_display" \in StageNow'
    BY <1>9 DEF OnRoute, StageNow, CommandPoints, AskingPoints
  <2>2. k = "requesting_display"
    BY <1>3, <1>6, <1>9 DEF FontReplay
  <2> QED
    BY <1>1, <1>4, <1>6, <1>9, <2>1, <2>2, StaysOnRoute
<1>10. CASE /\ FontReplay /\ pc' = "command" /\ UNCHANGED <<index, transport>>
            /\ flow' = enter(add_stage(flow, index, "fetching_fonts"), index, "fetching_fonts")
  <2> DEFINE f == add_stage(flow, index, "fetching_fonts")
             g == enter(f, index, "fetching_fonts")
  <2>1. "fetching_fonts" \in StageKind /\ flow \in Checklists(DOMAIN plan)
    BY <1>4 DEF StageKind, RouteList
  <2>2. /\ f \in Checklists(DOMAIN plan) /\ f.stages[index]["fetching_fonts"] # "absent"
        /\ \A j \in DOMAIN plan \ {index} : f.stages[j] = flow.stages[j]
        /\ \A j \in DOMAIN plan, l \in StageKind :
              /\ flow.stages[j][l] # "absent" => f.stages[j][l] # "absent"
              /\ f.stages[j][l] = "active" <=> flow.stages[j][l] = "active"
    BY <1>4, <2>1, AddStageFacts
  <2>3. \A j \in DOMAIN plan, l \in StageKind :
           f.stages[j][l] = "active"
             => j = index /\ (l = "fetching_fonts" \/ Rank(l) < Rank("fetching_fonts"))
    <3>1. DOMAIN flow.stages = DOMAIN plan
      BY <2>1 DEF Checklists
    <3>2. \A l \in StageKind : l = "fetching_fonts" \/ Rank(l) < Rank("fetching_fonts")
      BY DEF StageKind, Rank
    <3> QED
      BY <1>6, <2>2, <3>1, <3>2 DEF Running
  <2> HIDE DEF f
  <2>4. Running(g, index, "fetching_fonts")
    BY <1>4, <2>1, <2>2, <2>3, EnterRuns
  <2>5. /\ g \in Checklists(DOMAIN plan)
        /\ \A j \in DOMAIN plan \ {index} : g.stages[j] = f.stages[j]
        /\ \A j \in DOMAIN plan, l \in StageKind :
              f.stages[j][l] # "absent" => g.stages[j][l] # "absent"
    BY <1>4, <2>1, <2>2, EnterFacts
  <2>6. flow' = g
    BY <1>10 DEF f
  <2> HIDE DEF g
  <2>7. Complete(g)
    <3>1. \A j \in DOMAIN plan : route_stages(plan[j]) \subseteq StageKind
      BY PlanFacts, RouteStages DEF WalkInv, Types, Places
    <3> QED
      BY <1>4, <2>2, <2>5, <3>1 DEF RouteList, Complete
  <2>8. \A i \in DOMAIN plan : i < index => HasFailed(g, i)
    <3>1. index \in Int /\ DOMAIN plan \in SUBSET Int
      BY <1>4, PlanIsInt
    <3> QED
      BY <1>4, <2>2, <2>5, <3>1 DEF RouteList, HasFailed
  <2>9. pc' \in OnRoute /\ pc' # "transport" /\ StageNow' = {"fetching_fonts"}
    <3>1. transport' = "up"
      BY <1>10 DEF FontReplay, WalkInv, RouteInv
    <3> QED
      BY <1>10, <3>1 DEF OnRoute, StageNow, Job, CommandPoints, AskingPoints
  <2> QED
    BY <1>1, <1>10, <2>4, <2>5, <2>6, <2>7, <2>8, <2>9, StaysOnRoute DEF RouteList
<1>11. CASE FontsFetched /\ pc' = "connected" /\ UNCHANGED <<index, flow>>
  <2>1. pc' \in OnRoute /\ pc' # "transport" /\ "fetching_fonts" \in StageNow'
    BY <1>11 DEF OnRoute, StageNow, CommandPoints, AskingPoints
  <2>2. k = "fetching_fonts"
    BY <1>3, <1>6, <1>11 DEF FontsFetched
  <2> QED
    BY <1>1, <1>4, <1>6, <1>11, <2>1, <2>2, StaysOnRoute
<1> QED
  BY <1>7, <1>8, <1>9, <1>10, <1>11 DEF FontReplay, FontsFetched, Throws, routeVars

\* The walk is handed over, and its result taken.
LEMMA FlowOver ==
    ASSUME WalkInv, WalkInv', FlowInv, Connected \/ Unwind \/ Settle \/ FinishAttempt
    PROVE  FlowInv'
<1>1. CASE Connected
  <2>1. pc \in OnRoute \ {"transport"} /\ pc \in OnRoute
    BY <1>1 DEF Connected, OnRoute
  <2>2. flow \in Checklists(DOMAIN plan) /\ AtMostOne(flow)
    BY <2>1, OnRouteFacts DEF RouteList
  <2>3. /\ plan' = plan /\ flow' = connected(flow)
        /\ result' = "ok" /\ pc' = "returned"
    BY <1>1 DEF Connected
  <2>4. flow' \in Checklists(DOMAIN plan) /\ flow'.state = "connected" /\ Quiet(flow')
    BY <2>2, <2>3, PlanIsInt, ConnectedFacts
  <2>5. pc' \notin OnRoute /\ pc' \in Walked
    BY <2>3 DEF OnRoute, Walked, CommandPoints, AskingPoints
  <2> QED
    BY <2>3, <2>4, <2>5 DEF FlowInv, StageInv, GivenUpInv, EndInv
<1>2. CASE ~Connected
  <2>1. /\ pc \in Walked \ {"exited"} /\ pc' \in Walked /\ plan' = plan
        /\ pc' = "exited" <=> FinishAttempt
    BY <1>2 DEF Unwind, Settle, FinishAttempt, Walked
  <2>2. pc \notin OnRoute /\ pc' \notin OnRoute
    BY <2>1 DEF OnRoute, Walked, CommandPoints, AskingPoints
  <2>3. flow \in Checklists(DOMAIN plan) /\ Quiet(flow) /\ AtMostOne(flow)
    BY <2>2, BetweenFacts
  <2>4. CASE UNCHANGED <<flow, result>> /\ pc' # "exited"
    BY <2>1, <2>2, <2>4 DEF FlowInv, StageInv, GivenUpInv, EndInv
  <2>5. CASE Settle /\ result = "ok" /\ cancelled
    <3>1. flow' = begin_disconnect(flow) /\ result' = "cancelled" /\ pc' # "exited"
      BY <2>5 DEF Settle
    <3>2. /\ flow' \in Checklists(DOMAIN plan) /\ flow'.state = "disconnecting"
          /\ Quiet(flow') /\ NothingPending(flow')
      BY <2>3, <3>1, PlanIsInt, DisconnectFacts
    <3> QED
      BY <2>1, <2>2, <3>1, <3>2 DEF FlowInv, StageInv, GivenUpInv, EndInv
  <2>6. CASE FinishAttempt
    <3>1. /\ flow' = IF result = "cancelled" THEN finish_disconnect(flow) ELSE flow
          /\ result' = result /\ pc' = "exited"
      BY <2>6 DEF FinishAttempt
    <3>2. /\ finish_disconnect(flow) \in Checklists(DOMAIN plan)
          /\ finish_disconnect(flow).state = "idle"
          /\ finish_disconnect(flow).stages = flow.stages
      BY <2>3 DEF finish_disconnect, Checklists, FlowState
    <3>3. StageInv' /\ GivenUpInv' /\ flow' \in Checklists(DOMAIN plan')
      BY <2>1, <2>2, <2>3, <3>1, <3>2 DEF StageInv, GivenUpInv, Quiet
    <3>4. EndInv'
      BY <2>1, <3>1, <3>2 DEF FlowInv, EndInv, NothingPending, HasFailed
    <3> QED
      BY <3>3, <3>4 DEF FlowInv
  <2> QED
    BY <1>2, <2>1, <2>4, <2>5, <2>6 DEF Unwind, Settle, FinishAttempt
<1> QED
  BY <1>1, <1>2

\* The waiting worker and its owner leave the checklist alone.
LEMMA FlowKept ==
    ASSUME WalkInv, FlowInv,
           \/ Ask \/ TakeMutex \/ LookAndBlock \/ FallAsleep \/ SpuriousWake
           \/ OwnerTurns \/ NoUserAction \/ ScreenAnswers \/ Cancel \/ UNCHANGED vars
    PROVE  FlowInv'
<1>1. CASE Ask \/ TakeMutex \/ LookAndBlock \/ FallAsleep \/ SpuriousWake
  <2>1. UNCHANGED <<plan, first, index, transport, flow, result>>
    BY <1>1 DEF Ask, TakeMutex, LookAndBlock, FallAsleep, SpuriousWake, Moves, routeVars
  <2>2. pc \in AskingPoints /\ pc' \in AskingPoints
    BY <1>1 DEF Ask, TakeMutex, LookAndBlock, FallAsleep, SpuriousWake, Moves, AskingPoints
  <2> QED
    BY <2>1, <2>2, KeepsFlow
<1>2. CASE Poll \/ ScreenPrompt \/ NoUserAction \/ Cancel \/ UNCHANGED vars
  <2>1. UNCHANGED <<pc, plan, first, index, transport, flow, result>>
    BY <1>2 DEF Poll, ScreenPrompt, NoUserAction, Cancel, vars, walkVars, routeVars
  <2> QED
    BY <2>1, KeepsFlow
<1>3. CASE LinkRejects \/ CancelNotifies \/ ScreenAnswers
  <2>1. UNCHANGED <<plan, first, index, transport, flow, result>>
    BY <1>3 DEF LinkRejects, CancelNotifies, ScreenAnswers, routeVars
  <2>2. pc' = pc \/ (pc = "asleep" /\ pc' = "asked")
    BY <1>3 DEF LinkRejects, CancelNotifies, ScreenAnswers, answer_trust, Notified
  <2>3. {"asleep", "asked"} \subseteq AskingPoints
    BY DEF AskingPoints
  <2> QED
    BY <2>1, <2>2, <2>3, KeepsFlow
<1>4. CASE Join
  <2>1. UNCHANGED <<pc, plan, flow, result>> /\ pc = "exited"
    BY <1>4 DEF Join
  <2>2. pc \in Walked /\ pc \notin OnRoute
    BY <2>1 DEF OnRoute, Walked, CommandPoints, AskingPoints
  <2> QED
    BY <2>1, <2>2 DEF FlowInv, StageInv, GivenUpInv, EndInv
<1> QED
  BY <1>1, <1>2, <1>3, <1>4 DEF OwnerTurns

LEMMA FlowInvInit == Init => FlowInv
<1> SUFFICES ASSUME Init PROVE FlowInv
  OBVIOUS
<1>1. /\ pc = "preflight" /\ first = 1 /\ index = 1 /\ flow = NewFlow(plan)
      /\ plan \in Plans
  BY DEF Init, WalkInit
<1>2. pc \notin OnRoute \cup Walked
  BY <1>1 DEF OnRoute, Walked, CommandPoints, AskingPoints
<1>3. \A i \in DOMAIN plan, k \in StageKind :
         flow.stages[i][k] = IF k \in route_stages(plan[i]) THEN "pending" ELSE "absent"
  BY <1>1 DEF NewFlow
<1>4. flow \in Checklists(DOMAIN plan) /\ DOMAIN flow.stages = DOMAIN plan
  BY <1>1 DEF NewFlow, Checklists, FlowState, Listed, StageState
<1>5. Quiet(flow)
  BY <1>3, <1>4 DEF Quiet
<1>6. Complete(flow)
  <2>1. \A i \in DOMAIN plan : route_stages(plan[i]) \subseteq StageKind
    BY <1>1, PlanFacts, RouteStages
  <2> QED
    BY <1>3, <2>1 DEF Complete
<1>7. \A i \in DOMAIN plan : ~(i < 1)
  BY <1>1, PlanFacts
<1> QED
  BY <1>1, <1>2, <1>4, <1>5, <1>6, <1>7 DEF FlowInv, StageInv, GivenUpInv, EndInv

LEMMA FlowInvStep ==
    ASSUME WalkInv, WalkInv', FlowInv, [Next]_vars
    PROVE  FlowInv'
<1>1. CASE Walk
  BY <1>1, FlowBetween, FlowRoute, FlowCommand, FlowTunnel, FlowMakeTransport, FlowConnect,
     FlowHandshake, FlowOver DEF Walk, WalkStep
<1>2. CASE LookAndGo
  <2>1. \E choice \in TrustChoices : pc = "checking" /\ TrustDecided(choice)
    BY <1>2 DEF LookAndGo, TrustChoices, WalkInv, Types, Things
  <2> QED
    BY <2>1, FlowConnect
<1> QED
  BY <1>1, <1>2, FlowOver, FlowKept DEF Next, WorkerStep, Terminated

----------------------------------------------------------------------------
\* What follows.

AttemptInv == WalkInv /\ FlowInv

\* Where the worker stands, what it holds and what the checklist shows always fit.
THEOREM AttemptInvariant == Spec => []AttemptInv
<1>1. Init => AttemptInv
  BY WalkInvInit, FlowInvInit DEF AttemptInv
<1>2. AttemptInv /\ [Next]_vars => AttemptInv'
  BY WalkInvStep, FlowInvStep DEF AttemptInv
<1> QED
  BY <1>1, <1>2, PTL DEF Spec

LEMMA AttemptInvTyped == AttemptInv => TypeOK
<1> SUFFICES ASSUME AttemptInv PROVE TypeOK
  OBVIOUS
<1>1. Flags /\ Places /\ Things /\ pc \in Points /\ children \subseteq {"command", "tunnel"}
  BY DEF AttemptInv, WalkInv, Types
<1>2. flow \in [state : FlowState, stages : [DOMAIN plan -> [StageKind -> Listed]]]
  BY DEF AttemptInv, FlowInv, Checklists
<1>3. WalkTypeOK
  BY <1>1, <1>2 DEF WalkTypeOK, Flags, Places, Things, Points, OnRoute, Walked,
     CommandPoints, AskingPoints
<1> QED
  BY <1>1, <1>3 DEF TypeOK, Flags, Places, Things

\* The checklist of src/src/connect_flow.cpp shows one stage running at most, of the
\* route the walk is on, and tells how the attempt ended; a broker is asked for its
\* credentials once, and after a cancel at most the one ssh about to start is started.
THEOREM WalkIsInOrder == Spec => []WalkInOrder
<1>1. AttemptInv => OneStageRunning
  <2> SUFFICES ASSUME AttemptInv PROVE OneStageRunning
    OBVIOUS
  <2>1. flow \in Checklists(DOMAIN plan) /\ DOMAIN flow.stages = DOMAIN plan
    BY DEF AttemptInv, FlowInv, Checklists
  <2>2. Quiet(flow) \/ \E k \in StageKind : Running(flow, index, k)
    <3>1. CASE pc \notin OnRoute
      BY <3>1, BetweenFacts DEF AttemptInv
    <3>2. CASE pc \in OnRoute
      <4>1. StageNow \subseteq StageKind
        BY <3>2 DEF StageNow, StageKind, OnRoute, CommandPoints, AskingPoints
      <4> QED
        BY <3>2, <4>1, OnRouteFacts DEF AttemptInv
    <3> QED
      BY <3>1, <3>2
  <2>3. CASE Quiet(flow)
    <3>1. Active(flow) = {}
      BY <2>3 DEF Quiet, Active, InState, Stages
    <3> QED
      BY <3>1 DEF OneStageRunning
  <2>4. ASSUME NEW k \in StageKind, Running(flow, index, k)
        PROVE  OneStageRunning
    <3>1. Active(flow) \subseteq {<<index, k>>}
      BY <2>4 DEF Running, Active, InState, Stages
    <3> QED
      BY <3>1 DEF OneStageRunning
  <2> QED
    BY <2>2, <2>3, <2>4
<1>2. AttemptInv => FlowTellsTheEnd
  <2> SUFFICES ASSUME AttemptInv, finished PROVE FlowTellsTheEnd
    BY DEF FlowTellsTheEnd
  <2>1. pc = "exited"
    BY DEF AttemptInv, WalkInv, OwnerInv
  <2>2. pc \in Walked /\ pc \notin OnRoute
    BY <2>1 DEF OnRoute, Walked, CommandPoints, AskingPoints
  <2>3. DOMAIN flow.stages = DOMAIN plan
    BY DEF AttemptInv, FlowInv, Checklists
  <2>4. Active(flow) = {}
    BY <2>2, BetweenFacts DEF AttemptInv, Active, InState, Stages, Quiet
  <2>5. CASE result = "ok"
    BY <2>2, <2>4, <2>5 DEF AttemptInv, FlowInv, EndInv, FlowTellsTheEnd
  <2>6. CASE result = "cancelled"
    <3>1. flow.state = "idle" /\ NothingPending(flow)
      BY <2>1, <2>2, <2>6 DEF AttemptInv, FlowInv, EndInv
    <3>2. InState(flow, "pending") = {}
      BY <3>1 DEF InState, Stages, NothingPending
    <3> QED
      BY <2>4, <2>6, <3>1, <3>2 DEF FlowTellsTheEnd
  <2>7. CASE result # "ok" /\ result # "cancelled"
    <3>1. flow.state = "failed" /\ \E i \in DOMAIN plan : HasFailed(flow, i)
      BY <2>2, <2>7 DEF AttemptInv, FlowInv, EndInv
    <3>2. PICK i \in DOMAIN plan, k \in StageKind : flow.stages[i][k] = "failed"
      BY <3>1 DEF HasFailed
    <3>3. <<i, k>> \in InState(flow, "failed")
      BY <2>3, <3>2 DEF InState, Stages
    <3> QED
      BY <2>4, <2>7, <3>1, <3>3 DEF FlowTellsTheEnd
  <2> QED
    BY <2>5, <2>6, <2>7
<1>3. AttemptInv => CancelStopsTheWalk /\ BrokerAskedOnce
  BY DEF AttemptInv, WalkInv, LateInv, FetchInv, CancelStopsTheWalk, BrokerAskedOnce
<1>4. AttemptInv => WalkInOrder
  BY <1>1, <1>2, <1>3, AttemptInvTyped DEF WalkInOrder
<1> QED
  BY <1>4, AttemptInvariant, PTL

\* AsyncConnect::finished() means torn down: whatever did not succeed has left no ssh
\* and no transport behind.
THEOREM FinishedIsReleased == Spec => []FinishedMeansReleased
<1>1. AttemptInv => FinishedMeansReleased
  BY DEF AttemptInv, WalkInv, OwnerInv, ResultInv, FinishedMeansReleased, Walked
<1> QED
  BY <1>1, AttemptInvariant, PTL

\* An owner that cancelled never goes on with the connection, however late the success
\* of the worker came.
THEOREM CancelAlwaysWins == Spec => []CancelWins
<1>1. AttemptInv => CancelWins
  BY DEF AttemptInv, WalkInv, OwnerInv, CancelWins
<1> QED
  BY <1>1, AttemptInvariant, PTL

\* The walk goes on along the plan, and stands still once it is over.
LEMMA RoutesInOrder ==
    ASSUME WalkInv, [Next]_vars
    PROVE  /\ index' = index \/ (index' > index /\ pc' \notin Walked)
           /\ pc \in Walked => /\ pc' \in Walked /\ index' = index
                               /\ result' = result \/ (result = "ok" /\ result' = "cancelled")
<1> USE DEF OnRoute, Walked, CommandPoints, AskingPoints
<1>1. index \in Int /\ first \in Int
  BY PlanFacts DEF WalkInv, Types, Places
<1>2. CASE Walk
  <2> USE DEF Walk, WalkStep, Ended, RouteFailed, fall_back, FailWith, finish_cancelled
  <2>1. CASE Preflight \/ NoRoute \/ Handshake \/ FontReplay \/ FontsFetched \/ Throws
             \/ Connected \/ Unwind
    BY <2>1 DEF Preflight, NoRoute, Handshake, FontReplay, FontsFetched, Throws, Connected,
       Unwind
  <2>2. CASE Loop
    BY <1>1, <2>2 DEF Loop, WalkInv, RouteInv
  <2>3. CASE Route \/ SpawnTunnel \/ ForwardSettles
    BY <1>1, <2>3 DEF Route, BrokerReady, SpawnTunnel, ForwardSettles
  <2>4. CASE CommandStarts \/ CommandForks \/ CommandEnds
    BY <1>1, <2>4 DEF CommandStarts, CommandForks, CommandEnds, CommandFailed,
       CommandSucceeded, BrokerReady
  <2>5. CASE MakeTransport \/ Connect
    BY <2>5 DEF MakeTransport, Connect, TrustRefused
  <2> QED
    BY <1>2, <2>1, <2>2, <2>3, <2>4, <2>5
<1>3. CASE Ask \/ TakeMutex \/ LookAndBlock \/ FallAsleep \/ SpuriousWake \/ LookAndGo
  BY <1>3 DEF Ask, TakeMutex, LookAndBlock, FallAsleep, SpuriousWake, Moves, LookAndGo,
     TrustDecided, TrustRefused, Ended, FailWith, finish_cancelled
<1>4. CASE Settle \/ FinishAttempt
  BY <1>4 DEF Settle, FinishAttempt
<1>5. CASE OwnerTurns \/ NoUserAction \/ ScreenAnswers \/ Cancel
  <2>1. UNCHANGED <<index, result>> /\ (pc' = pc \/ (pc = "asleep" /\ pc' = "asked"))
    BY <1>5 DEF OwnerTurns, Poll, ScreenPrompt, LinkRejects, CancelNotifies, Join,
       NoUserAction, ScreenAnswers, Cancel, answer_trust, Notified, walkVars
  <2> QED
    BY <2>1
<1>6. CASE UNCHANGED vars
  BY <1>6 DEF vars, walkVars
<1> QED
  BY <1>2, <1>3, <1>4, <1>5, <1>6 DEF Next, WorkerStep, Terminated

\* The attempt of connect_impl() implements RouteFallback: a route given up is never
\* taken up again, and a decision is never followed by another route.
THEOREM AttemptImplementsFallback == Spec => FallbackPromise
<1>1. Init => R!Init
  BY DEF Init, WalkInit, R!Init, Verdict
<1>2. AttemptInv /\ AttemptInv' /\ [Next]_vars => [R!Next]_<<index, Verdict>>
  <2> SUFFICES ASSUME AttemptInv, AttemptInv', [Next]_vars
               PROVE  [R!Next]_<<index, Verdict>>
    OBVIOUS
  <2>1. WalkInv /\ WalkInv'
    BY DEF AttemptInv
  <2>2. /\ index' = index \/ (index' > index /\ pc' \notin Walked)
        /\ pc \in Walked => /\ pc' \in Walked /\ index' = index
                            /\ result' = result \/ (result = "ok" /\ result' = "cancelled")
    BY <2>1, RoutesInOrder
  <2>3. pc \notin Walked => Verdict = "trying"
    BY <2>1 DEF WalkInv, ResultInv, Verdict
  <2>4. pc' \notin Walked => Verdict' = "trying"
    BY <2>1 DEF WalkInv, ResultInv, Verdict
  <2>5. pc' \in Walked => Verdict' \in {"ok", "failed", "cancelled"}
    BY <2>1 DEF WalkInv, ResultInv, Verdict
  <2>6. CASE pc' \notin Walked
    <3>1. pc \notin Walked /\ index' \in Nat
      BY <2>1, <2>2, <2>6 DEF WalkInv, Types, Places
    <3> QED
      BY <2>2, <2>3, <2>4, <2>6, <3>1 DEF R!Next, R!Try
  <2>7. CASE pc \notin Walked /\ pc' \in Walked
    BY <2>2, <2>3, <2>5, <2>7 DEF R!Next, R!Settle
  <2>8. CASE pc \in Walked
    <3>1. CASE result' = result
      <4>1. Verdict' = Verdict
        BY <2>1, <2>8, <3>1 DEF WalkInv, ResultInv, Verdict
      <4> QED
        BY <2>2, <2>8, <4>1
    <3>2. CASE result = "ok" /\ result' = "cancelled"
      <4>1. Verdict = "ok" /\ Verdict' = "cancelled"
        BY <3>2 DEF Verdict
      <4> QED
        BY <2>2, <2>8, <4>1 DEF R!Next, R!Withdraw
    <3> QED
      BY <2>2, <2>8, <3>1, <3>2
  <2> QED
    BY <2>6, <2>7, <2>8
<1> QED
  BY <1>1, <1>2, AttemptInvariant, PTL DEF Spec, FallbackPromise, R!Spec
============================================================================
