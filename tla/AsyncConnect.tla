---------------------------- MODULE AsyncConnect ----------------------------
(* class AsyncConnect (src/src/connect_flow.cpp): a connection attempt on a       *)
(* worker thread, and the thread that owns it -- the progress screen of           *)
(* sdl_main.cpp and x11_main.cpp, or the reconnect of a ProfileLink               *)
(* (desktop_session.cpp).  They share the token, a mutex, the certificate         *)
(* question with its answer, and two condition variables.                         *)
(*                                                                                *)
(* A critical section in which nobody waits is one step.  The worker's wait for   *)
(* the answer is not: it holds the mutex from its look at the predicate           *)
(* ("checking") until it is on the condition variable ("asleep").                 *)
EXTENDS ConnectWalk

VARIABLES
    owner,      \* who owns the attempt: "screen" or "link"
    opc,        \* where the owner stands
    shown,      \* the route whose question the screen shows; 0: none
    question,   \* question_: the route it is about; 0: none
    answer,     \* answer_
    finished,   \* finished_
    outcome     \* what the owner made of the attempt

ownerVars == <<owner, opc, shown, outcome>>
relayVars == <<question, answer>>
vars == <<walkVars, ownerVars, relayVars, finished>>

TrustChoices == {"trust", "replace", "reject"}

\* The worker holds mutex_ across these.
MutexHeld == pc \in {"checking", "blocking"}

Init ==
    /\ WalkInit
    /\ owner \in {"screen", "link"} /\ opc = "poll" /\ shown = 0 /\ outcome = "none"
    /\ question = 0 /\ answer = "none" /\ finished = FALSE

----------------------------------------------------------------------------
\* The worker: the walk, and around it run() with its ask_trust.

Walk == WalkStep /\ UNCHANGED <<ownerVars, relayVars, finished>>

Ask ==
    /\ pc = "asking"
    /\ question' = index /\ answer' = "none"
    /\ pc' = "asked"
    /\ UNCHANGED <<plan, cancelled, first, index, substrateVars, children, routeVars, flow,
                   result, late_spawns, ownerVars, finished>>

Moves(from, to) ==
    /\ pc = from
    /\ pc' = to
    /\ UNCHANGED <<plan, cancelled, first, index, substrateVars, children, routeVars, flow,
                   result, late_spawns, ownerVars, relayVars, finished>>

\* The mutex taken again after publishing the question, or after a wake-up.
TakeMutex == Moves("asked", "checking")

Decided == answer # "none" \/ cancelled

LookAndBlock == ~Decided /\ Moves("checking", "blocking")

\* Atomically onto the condition variable and out of the mutex.
FallAsleep == Moves("blocking", "asleep")

LookAndGo ==
    /\ pc = "checking" /\ Decided
    /\ question' = 0 /\ answer' = "none"
    /\ TrustDecided(IF answer = "none" THEN "reject" ELSE answer)
    /\ UNCHANGED <<ownerVars, finished>>

\* run() after the walk: a cancel that came meanwhile wins over the success.
Settle ==
    /\ pc = "returned"
    /\ pc' = "settled"
    /\ IF result = "ok" /\ cancelled
       THEN /\ flow' = begin_disconnect(flow)
            /\ result' = "cancelled"
            /\ Release
       ELSE UNCHANGED <<flow, result, transport, children>>
    /\ UNCHANGED <<plan, cancelled, first, index, substrateVars, check, asked, decided,
                   late_spawns, ownerVars, relayVars, finished>>

\* The last critical section: result_ and finished_ under the mutex.
FinishAttempt ==
    /\ pc = "settled"
    /\ finished' = TRUE
    /\ flow' = IF result = "cancelled" THEN finish_disconnect(flow) ELSE flow
    /\ pc' = "exited"
    /\ UNCHANGED <<plan, cancelled, first, index, substrateVars, children, routeVars,
                   result, late_spawns, ownerVars, relayVars>>

WorkerStep ==
    \/ Walk \/ Ask \/ TakeMutex \/ LookAndBlock \/ FallAsleep \/ LookAndGo
    \/ Settle \/ FinishAttempt

\* A condition variable may wake without being notified; nothing may count on it.
SpuriousWake == Moves("asleep", "asked")

----------------------------------------------------------------------------
\* The owner.

\* notify_all() on trust_cv_: only a worker already asleep hears it.
Notified == IF pc = "asleep" THEN "asked" ELSE pc

\* Mutant: the answer is stored and nobody told.
AnswerUnheard(choice) ==
    /\ ~MutexHeld
    /\ answer' = IF question = 0 THEN answer ELSE choice
    /\ UNCHANGED pc

answer_trust(choice) ==
    /\ ~MutexHeld
    /\ answer' = IF question = 0 THEN answer ELSE choice
    /\ pc' = IF question = 0 THEN pc ELSE Notified

\* The screen shows the question it finds, unless it shows one already.
ScreenPrompt ==
    /\ owner = "screen" /\ opc = "prompt" /\ ~MutexHeld
    /\ shown' = IF question = 0 THEN 0 ELSE IF shown = 0 THEN question ELSE shown
    /\ opc' = "act"
    /\ UNCHANGED <<walkVars, owner, outcome, relayVars, finished>>

\* The buttons of the prompt: the one that accepts its question, and the refusal.
ScreenAnswers ==
    /\ owner = "screen" /\ opc = "act" /\ shown # 0
    /\ \E choice \in TrustChoices : answer_trust(choice)
    /\ opc' = "poll"
    /\ UNCHANGED <<plan, cancelled, first, index, substrateVars, children, routeVars, flow,
                   result, late_spawns, owner, shown, outcome, question, finished>>

\* connect_done(): a reconnect asks nobody.
LinkRejects ==
    /\ owner = "link" /\ opc = "prompt"
    /\ answer_trust("reject")
    /\ opc' = "act"
    /\ UNCHANGED <<plan, cancelled, first, index, substrateVars, children, routeVars, flow,
                   result, late_spawns, owner, shown, outcome, question, finished>>

\* cancel(), first half: the token, whose hook aborts the transport.
Cancel ==
    /\ opc = "act"
    /\ cancelled' = TRUE
    /\ opc' = "notify"
    /\ UNCHANGED <<pc, plan, first, index, substrateVars, children, routeVars, flow, result,
                   late_spawns, owner, shown, outcome, relayVars, finished>>

\* cancel(), second half: notify_all() without the mutex.  A link is being torn
\* down: its destructor goes on to join the worker.
CancelNotifies ==
    /\ opc = "notify"
    /\ pc' = Notified
    /\ opc' = IF owner = "link" THEN "join" ELSE "poll"
    /\ UNCHANGED <<plan, cancelled, first, index, substrateVars, children, routeVars, flow,
                   result, late_spawns, owner, shown, outcome, relayVars, finished>>

NoUserAction ==
    /\ opc = "act"
    /\ opc' = "poll"
    /\ UNCHANGED <<walkVars, owner, shown, outcome, relayVars, finished>>

\* Mutant: a result is used although the user said stop.
OutcomeDespiteCancel ==
    IF result = "ok" THEN "desktop" ELSE IF result = "cancelled" THEN "cancelled" ELSE "error"

\* What take_result() is worth to the owner: a cancel that raced the success wins.
OutcomeTaken ==
    IF result = "cancelled" \/ cancelled THEN "cancelled"
    ELSE IF result = "ok" THEN "desktop" ELSE "error"

\* finished(), the test of the owner's loop; take_result() joins the worker.
Poll ==
    /\ opc = "poll" /\ ~MutexHeld
    /\ IF finished THEN opc' = "over" /\ outcome' = OutcomeTaken
       ELSE opc' = "prompt" /\ UNCHANGED outcome
    /\ UNCHANGED <<walkVars, owner, shown, relayVars, finished>>

\* The destructor's join; the result is destroyed with the attempt.
Join ==
    /\ opc = "join" /\ pc = "exited"
    /\ opc' = "over"
    /\ outcome' = "cancelled"
    /\ Release
    /\ UNCHANGED <<pc, plan, cancelled, first, index, substrateVars, check, asked, decided,
                   flow, result, late_spawns, owner, shown, relayVars, finished>>

OwnerTurns == Poll \/ ScreenPrompt \/ LinkRejects \/ CancelNotifies \/ Join

Terminated == opc = "over" /\ UNCHANGED vars

Next ==
    \/ WorkerStep \/ SpuriousWake
    \/ OwnerTurns \/ NoUserAction \/ ScreenAnswers \/ Cancel
    \/ Terminated

Spec == Init /\ [][Next]_vars

\* Both threads run: the walk's waits have timeouts, the owner's loop has one of a
\* quarter second.  Strong for the owner, which needs a mutex the worker takes again
\* and again when it is woken for nothing.  The user need not do anything.
FairSpec ==
    Spec /\ WF_vars(WorkerStep) /\ SF_vars(OwnerTurns) /\ WF_vars(NoUserAction)
----------------------------------------------------------------------------
\* Properties.

\* Every variable holds a value of its type.
TypeOK ==
    /\ WalkTypeOK
    /\ owner \in {"screen", "link"}
    /\ opc \in {"poll", "prompt", "act", "notify", "join", "over"}
    /\ shown \in 0..Len(plan) /\ question \in 0..Len(plan)
    /\ answer \in {"none"} \cup TrustChoices
    /\ finished \in BOOLEAN
    /\ outcome \in {"none", "desktop", "error", "cancelled"}

\* The checklist never shows two stages running, whatever the fallbacks, and what it
\* shows running is of the route the walk is on.
OneStageRunning ==
    /\ \A p, q \in Active(flow) : p = q
    /\ \A p \in Active(flow) : p[1] = index

\* The checklist tells how the attempt ended: connected, failed with the stage that
\* failed, or stopped with nothing pending or running.
FlowTellsTheEnd ==
    finished =>
        CASE result = "ok"        -> flow.state = "connected" /\ Active(flow) = {}
          [] result = "cancelled" -> /\ flow.state = "idle"
                                     /\ Active(flow) \cup InState(flow, "pending") = {}
          [] OTHER                -> flow.state = "failed" /\ InState(flow, "failed") # {}

\* A cancelled attempt never falls back to another route: after the cancel at most the
\* one ssh that was about to be started is started.
CancelStopsTheWalk == late_spawns <= 1

\* One SSH round trip serves both routes to the broker, and so does its failure.
BrokerAskedOnce == fetches <= 1

\* finished() means torn down: unless the attempt succeeded no ssh, no transport.
FinishedMeansReleased ==
    finished /\ result # "ok" => children = {} /\ transport = "none"

\* The owner never goes on with a connection the user stopped.
CancelWins == outcome = "desktop" => ~cancelled /\ transport = "up"

\* The attempt implements the promise about its routes.
Verdict ==
    CASE result = "none" -> IF decided THEN "decided" ELSE "trying"
      [] result \in {"ok", "cancelled"} -> result
      [] OTHER -> "failed"
R == INSTANCE RouteFallback WITH route <- index, verdict <- Verdict
FallbackPromise == R!Spec

\* An answer that was given reaches the worker: no wake-up of it is lost.
AnswerIsHeard == (answer # "none") ~> (answer = "none")

\* An attempt nobody cancels ends by itself, unless it waits for its user's answer.
AttemptEnds ==
    []<>(finished \/ cancelled \/ (owner = "screen" /\ question # 0))

\* connect_flow.hpp: "the attempt is guaranteed to end: every wait in it is bounded,
\* and cancel() shortens them", and cancel() answers the question with a rejection.
CancelEndsAttempt == cancelled ~> finished

\* One walk over the routes: one stage at a time, no credential asked for twice, nothing
\* started after a cancel, and the stage list tells the end.
WalkInOrder == TypeOK /\ OneStageRunning /\ FlowTellsTheEnd /\ CancelStopsTheWalk /\ BrokerAskedOnce

\* A question that is answered is heard, and every attempt ends.
AttemptSettles == AnswerIsHeard /\ AttemptEnds
============================================================================
