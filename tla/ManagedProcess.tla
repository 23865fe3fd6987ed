--------------------------- MODULE ManagedProcess ---------------------------
(* The processes behind an ssh of this client, and what becomes of them when one  *)
(* of them dies: ManagedProcess, its guard and the orphan sweep                    *)
(* (managed_transport.cpp).                                                        *)
(*                                                                                 *)
(* A client forks a guard, the guard forks the program (ssh) into a process group  *)
(* of its own.  An ssh on PATH may be a script that runs the real ssh as its child *)
(* (the helper).  The client holds a lifeline pipe; a record on disk names the     *)
(* program for a later client's sweep.  Windows has a kill-on-close job instead.   *)
(* Any client and any guard may be killed at any moment; once a program's group is *)
(* empty, its number may be given to somebody else's.                              *)
EXTENDS Naturals, FiniteSets

CONSTANTS
    Clients,       \* client processes of one user
    Sweepers,      \* bound: clients that sweep and whose own ssh never starts
    Platforms,     \* subset of {"linux", "macos", "windows"}
    Sessions,      \* subset of {"same", "other"}: where a later user of a group number lives
    MaxKills       \* bound on processes killed from outside

ASSUME ManagedProcessAssumption ==
    /\ Sweepers \subseteq Clients
    /\ Platforms \subseteq {"linux", "macos", "windows"}
    /\ Sessions \subseteq {"same", "other"}
    /\ MaxKills \in Nat

VARIABLES
    platform, script,   \* this build; whether ssh on PATH is a script
    client,             \* where each client stands in spawn() .. terminate()
    known,              \* program_start_ is set: the client has identified the program
    record,             \* the record file: "none", "written" or "removed"
    guard, stop_asked,  \* the guard, and its guard_stop_signal
    reported,           \* the guard has written the program's pid to the report pipe
    program, helper,
    doomed,             \* processes a SIGTERM has reached that have not died of it yet
    stranger,           \* who holds a program's group number since: "none", "same", "other"
    hit,                \* group numbers under which a stranger was signalled
    to_sweep, target, phase,   \* a client's sweep, and the stop_verified() it is in
    guard_killed, kills

treeVars  == <<guard, stop_asked, reported, program, helper, doomed>>
ownVars   == <<client, known, record>>
sweepVars == <<to_sweep, target, phase>>
procOutside == <<stranger, guard_killed, kills>>
procFixed     == <<platform, script>>
procVars == <<procFixed, treeVars, ownVars, sweepVars, procOutside, hit>>

Nobody == "nobody"

ProcInit ==
    /\ platform \in Platforms /\ script \in BOOLEAN
    /\ client = [c \in Clients |-> "new"]
    /\ known = [c \in Clients |-> FALSE]
    /\ record = [c \in Clients |-> "none"]
    /\ guard = [c \in Clients |-> "none"]
    /\ stop_asked = [c \in Clients |-> FALSE]
    /\ reported = [c \in Clients |-> FALSE]
    /\ program = [c \in Clients |-> "none"]
    /\ helper = [c \in Clients |-> "none"]
    /\ doomed = {}
    /\ stranger = [c \in Clients |-> "none"]
    /\ hit = {}
    /\ to_sweep = [c \in Clients |-> {}]
    /\ target = [c \in Clients |-> Nobody]
    /\ phase = [c \in Clients |-> "none"]
    /\ guard_killed = [c \in Clients |-> FALSE]
    /\ kills = 0

Alive(c)      == client[c] # "dead"
GuardAlive(c) == guard[c] \in {"forked", "armed", "reporting", "watching", "stopping"}
ProgramRuns(c) == program[c] \in {"forked", "exec"}
HelperRuns(c)  == helper[c] = "running"

\* The members of the program's process group that are this client's.
Group(c) == {p \in {<<"program", c>>, <<"helper", c>>} :
                IF p[1] = "program" THEN ProgramRuns(c) ELSE HelperRuns(c)}

----------------------------------------------------------------------------
(* Signals and deaths.  A process dies of SIGTERM a step later, of SIGKILL at once; *)
(* a program that has died is a zombie, and keeps its number, until the guard reaps *)
(* it.  kill(-pgid, ...) reaches whoever is in that group by then.                  *)
Corpse(c) == IF GuardAlive(c) THEN "zombie" ELSE "gone"

HitGroup(c) == hit' = IF stranger[c] = "none" THEN hit ELSE hit \cup {c}

\* A program that has not reset its handlers yet swallows the signal in the guard's.
TermGroup(c) ==
    /\ \E heard \in {Group(c), Group(c) \ {<<"program", c>>}} :
          /\ program[c] = "exec" => heard = Group(c)
          /\ doomed' = doomed \cup heard
    /\ HitGroup(c)

\* A dead guard's program: init reaps it, and on Linux it is sent SIGTERM
\* (PR_SET_PDEATHSIG).
LeavesProgram(c) ==
    /\ program' = [program EXCEPT ![c] = IF @ = "zombie" THEN "gone" ELSE @]
    /\ doomed' = IF platform = "linux" /\ program[c] = "exec"
                 THEN doomed \cup {<<"program", c>>} ELSE doomed

GuardDies(c) ==
    /\ guard' = [guard EXCEPT ![c] = IF Alive(c) THEN "zombie" ELSE "gone"]
    /\ LeavesProgram(c)

----------------------------------------------------------------------------
(* The guard: run_guard(), guard_stop_group(). *)

\* Closes every descriptor but its own, installs its handlers.
GuardArms(c) ==
    /\ guard[c] = "forked"
    /\ guard' = [guard EXCEPT ![c] = "armed"]
    /\ UNCHANGED <<procFixed, stop_asked, reported, program, helper, doomed, ownVars, sweepVars,
                   procOutside, hit>>

GuardForks(c) ==
    /\ guard[c] = "armed"
    /\ \/ /\ guard' = [guard EXCEPT ![c] = "reporting"]
          /\ program' = [program EXCEPT ![c] = "forked"]
          /\ UNCHANGED doomed
       \/ GuardDies(c)    \* fork() failed
    /\ UNCHANGED <<procFixed, stop_asked, reported, helper, ownVars, sweepVars, procOutside, hit>>

GuardReports(c) ==
    /\ guard[c] = "reporting"
    /\ guard' = [guard EXCEPT ![c] = "watching"]
    /\ reported' = [reported EXCEPT ![c] = TRUE]
    /\ UNCHANGED <<procFixed, stop_asked, program, helper, doomed, ownVars, sweepVars, procOutside,
                   hit>>

\* Mutant: the guard polls for its signal and its child only.
MustStopDeaf(c) == stop_asked[c] \/ program[c] \in {"zombie", "gone"}

\* The lifeline reads end of file once its only holder is gone.
MustStop(c) == stop_asked[c] \/ program[c] \in {"zombie", "gone"} \/ ~Alive(c)

GuardStops(c) ==
    /\ guard[c] = "watching" /\ MustStop(c)
    /\ guard' = [guard EXCEPT ![c] = "stopping"]
    /\ TermGroup(c)
    /\ UNCHANGED <<procFixed, stop_asked, reported, program, helper, ownVars, sweepVars, procOutside>>

\* SIGKILL to the group while its leader is unreaped, then the reaping.
GuardKills(c) ==
    /\ guard[c] = "stopping"
    /\ guard' = [guard EXCEPT ![c] = IF Alive(c) THEN "zombie" ELSE "gone"]
    /\ program' = [program EXCEPT ![c] = "gone"]
    /\ helper' = [helper EXCEPT ![c] = IF @ = "running" THEN "gone" ELSE @]
    /\ doomed' = doomed \ Group(c)
    /\ HitGroup(c)
    /\ UNCHANGED <<procFixed, stop_asked, reported, ownVars, sweepVars, procOutside>>

GuardTurn(c) ==
    GuardArms(c) \/ GuardForks(c) \/ GuardReports(c) \/ GuardStops(c) \/ GuardKills(c)

----------------------------------------------------------------------------
(* The program and what it starts. *)

\* setpgid(), PR_SET_PDEATHSIG and the look at the parent that closes its window, exec.
ProgramExecs(c) ==
    /\ program[c] = "forked"
    /\ program' = [program EXCEPT ![c] =
          IF platform = "linux" /\ ~GuardAlive(c) THEN "gone" ELSE "exec"]
    /\ UNCHANGED <<procFixed, guard, stop_asked, reported, helper, doomed, ownVars, sweepVars,
                   procOutside, hit>>

HelperStarts(c) ==
    /\ script /\ program[c] = "exec" /\ helper[c] = "none"
    /\ <<"program", c>> \notin doomed
    /\ helper' = [helper EXCEPT ![c] = "running"]
    /\ UNCHANGED <<procFixed, guard, stop_asked, reported, program, doomed, ownVars, sweepVars,
                   procOutside, hit>>

\* Of the signal, or by itself.
Ends(c) ==
    /\ \/ /\ program[c] = "exec"
          /\ program' = [program EXCEPT ![c] = Corpse(c)]
          /\ doomed' = doomed \ {<<"program", c>>}
          /\ UNCHANGED helper
       \/ /\ HelperRuns(c)
          /\ helper' = [helper EXCEPT ![c] = "gone"]
          /\ doomed' = doomed \ {<<"helper", c>>}
          /\ UNCHANGED program
    /\ UNCHANGED <<procFixed, guard, stop_asked, reported, ownVars, sweepVars, procOutside, hit>>

DoomedEnds(c) == (\E p \in doomed : p[2] = c) /\ Ends(c)

----------------------------------------------------------------------------
(* Verified orphans: stop_verified() and what it looks at. *)

\* A script runs under its interpreter's argv, so it never has the recorded one; nor
\* has a program that is not yet past its exec.
program_matches(r) == program[r] = "exec" /\ ~script

verified(r) == {p \in Group(r) : p[1] = "program" => program_matches(r)}

\* A member of a later group under that number: started no earlier, and verified by
\* its session.
mistaken(r) == stranger[r] = "same"

anything_left(r) == verified(r) # {} \/ mistaken(r)

\* Mutant: the number alone is enough.
HitByNumber(r) == HitGroup(r)

HitVerified(r) == hit' = IF mistaken(r) THEN hit \cup {r} ELSE hit

StopTerm(c) ==
    /\ phase[c] = "term"
    /\ doomed' = doomed \cup verified(target[c])
    /\ HitVerified(target[c])
    /\ phase' = [phase EXCEPT ![c] = IF anything_left(target[c]) THEN "wait" ELSE "settle"]
    /\ UNCHANGED <<procFixed, guard, stop_asked, reported, program, helper, ownVars, to_sweep,
                   target, procOutside>>

StopWaits(c) ==
    /\ phase[c] = "wait"
    /\ \/ /\ ~anything_left(target[c])
          /\ UNCHANGED <<program, helper, doomed, stranger, hit>>
       \/ LET r == target[c] IN     \* the two seconds are over: SIGKILL
          /\ anything_left(r)
          /\ program' = [program EXCEPT ![r] =
                IF program_matches(r) THEN Corpse(r) ELSE @]
          /\ helper' = [helper EXCEPT ![r] = IF HelperRuns(r) THEN "gone" ELSE @]
          /\ stranger' = [stranger EXCEPT ![r] = IF mistaken(r) THEN "none" ELSE @]
          /\ doomed' = doomed \ verified(r)
          /\ HitVerified(r)
    /\ phase' = [phase EXCEPT ![c] = "settle"]
    /\ UNCHANGED <<procFixed, guard, stop_asked, reported, ownVars, to_sweep, target,
                   guard_killed, kills>>

\* Mutant: it goes once the signals went out.
ForgetAnyway(r) == record' = [record EXCEPT ![r] = IF @ = "written" THEN "removed" ELSE @]

\* The record of a program that is gone goes, and only then.
Forget(r) == record' = [record EXCEPT ![r] =
                 IF @ = "written" /\ ~anything_left(r) THEN "removed" ELSE @]

StopSettles(c) ==
    /\ phase[c] = "settle"
    /\ Forget(target[c])
    /\ to_sweep' = [to_sweep EXCEPT ![c] = @ \ {target[c]}]
    /\ client' = [client EXCEPT ![c] = IF @ = "reaped" THEN "closed" ELSE @]
    /\ target' = [target EXCEPT ![c] = Nobody]
    /\ phase' = [phase EXCEPT ![c] = "none"]
    /\ UNCHANGED <<procFixed, treeVars, known, procOutside, hit>>

----------------------------------------------------------------------------
(* The client: SshTunnel::spawn()'s sweep, spawn_impl(), terminate(), after_reap(). *)

SweepStarts(c) ==
    /\ client[c] = "new"
    /\ client' = [client EXCEPT ![c] = "sweeping"]
    /\ to_sweep' = [to_sweep EXCEPT ![c] =
          IF platform = "windows" THEN {} ELSE {r \in Clients : record[r] = "written"}]
    /\ UNCHANGED <<procFixed, treeVars, known, record, target, phase, procOutside, hit>>

owner_alive(r) == Alive(r)

\* A record of a live owner is left alone; one that has gone meanwhile reads as nothing.
SweepNext(c) ==
    /\ client[c] = "sweeping" /\ phase[c] = "none"
    /\ \E r \in to_sweep[c] :
          IF owner_alive(r) \/ record[r] # "written"
          THEN /\ to_sweep' = [to_sweep EXCEPT ![c] = @ \ {r}]
               /\ UNCHANGED <<target, phase>>
          ELSE /\ target' = [target EXCEPT ![c] = r]
               /\ phase' = [phase EXCEPT ![c] = "term"]
               /\ UNCHANGED to_sweep
    /\ UNCHANGED <<procFixed, treeVars, ownVars, procOutside, hit>>

\* The guard is forked; on Windows the program is created suspended, procOutside the job.
Spawns(c) ==
    /\ client[c] = "sweeping" /\ to_sweep[c] = {}
    /\ \/ /\ c \notin Sweepers
          /\ client' = [client EXCEPT ![c] = "spawning"]
          /\ IF platform = "windows"
             THEN program' = [program EXCEPT ![c] = "suspended"] /\ UNCHANGED guard
             ELSE guard' = [guard EXCEPT ![c] = "forked"] /\ UNCHANGED program
       \/ /\ client' = [client EXCEPT ![c] = "closed"]
          /\ UNCHANGED <<guard, program>>
    /\ UNCHANGED <<procFixed, stop_asked, reported, helper, doomed, known, record, sweepVars,
                   procOutside, hit>>

\* Windows: into the job, then resumed; a process that cannot be put there is killed.
EntersJob(c) ==
    /\ platform = "windows" /\ client[c] = "spawning"
    /\ \/ /\ client' = [client EXCEPT ![c] = "up"]
          /\ program' = [program EXCEPT ![c] = "exec"]
       \/ /\ client' = [client EXCEPT ![c] = "closed"]
          /\ program' = [program EXCEPT ![c] = "gone"]
    /\ UNCHANGED <<procFixed, guard, stop_asked, reported, helper, doomed, known, record,
                   sweepVars, procOutside, hit>>

\* The read of the report returns; the program is identified by its start, which a
\* zombie no longer has.
Identifies(c) ==
    /\ platform # "windows" /\ client[c] = "spawning"
    /\ reported[c] \/ ~GuardAlive(c)
    /\ known' = [known EXCEPT ![c] =
          reported[c] /\ (ProgramRuns(c) \/ stranger[c] # "none")]
    /\ client' = [client EXCEPT ![c] = "recording"]
    /\ UNCHANGED <<procFixed, treeVars, record, sweepVars, procOutside, hit>>

write_record(c) ==
    /\ client[c] = "recording"
    /\ record' \in {record, [record EXCEPT ![c] = IF known[c] THEN "written" ELSE @]}
    /\ client' = [client EXCEPT ![c] = "up"]
    /\ UNCHANGED <<procFixed, treeVars, known, sweepVars, procOutside, hit>>

\* SIGTERM to the guard: before it has its handler it dies of it.
AsksGuard(c) ==
    IF guard[c] = "forked"
    THEN GuardDies(c) /\ UNCHANGED stop_asked
    ELSE /\ stop_asked' = [stop_asked EXCEPT ![c] = TRUE]
         /\ UNCHANGED <<guard, program, doomed>>

\* terminate(): the destructor's, or spawn_impl()'s own when no reader of stderr started.
Terminates(c) ==
    /\ platform # "windows"
    /\ client[c] \in {"spawning", "up"}
    /\ AsksGuard(c)
    /\ client' = [client EXCEPT ![c] = "terminating"]
    /\ UNCHANGED <<procFixed, reported, helper, known, record, sweepVars, procOutside, hit>>

\* The guard is reaped: in time, found dead by running(), or killed after two seconds.
Reaps(c) ==
    /\ \/ client[c] = "terminating"
       \/ client[c] = "up" /\ guard[c] = "zombie"
    /\ IF guard[c] = "zombie"
       THEN guard' = [guard EXCEPT ![c] = "gone"] /\ UNCHANGED <<program, doomed, guard_killed>>
       ELSE /\ LeavesProgram(c)
            /\ guard' = [guard EXCEPT ![c] = "gone"]
            /\ guard_killed' = [guard_killed EXCEPT ![c] = TRUE]
    /\ client' = [client EXCEPT ![c] = "reaped"]
    /\ UNCHANGED <<procFixed, stop_asked, reported, helper, known, record, sweepVars, stranger,
                   kills, hit>>

\* Mutant: after_reap() relies on the guard.
ReliesOnGuard(c) ==
    /\ client[c] = "reaped" /\ phase[c] = "none"
    /\ client' = [client EXCEPT ![c] = "closed"]
    /\ record' = [record EXCEPT ![c] = IF @ = "written" THEN "removed" ELSE @]
    /\ UNCHANGED <<procFixed, treeVars, known, sweepVars, procOutside, hit>>

after_reap(c) ==
    /\ client[c] = "reaped" /\ phase[c] = "none"
    /\ IF known[c]
       THEN /\ target' = [target EXCEPT ![c] = c]
            /\ phase' = [phase EXCEPT ![c] = "term"]
            /\ UNCHANGED client
       ELSE /\ client' = [client EXCEPT ![c] = "closed"]
            /\ UNCHANGED <<target, phase>>
    /\ UNCHANGED <<procFixed, treeVars, known, record, to_sweep, procOutside, hit>>

\* Windows: TerminateProcess() and the job's last handle, which takes the rest.
ClosesJob(c) ==
    /\ platform = "windows" /\ client[c] = "up"
    /\ client' = [client EXCEPT ![c] = "closed"]
    /\ program' = [program EXCEPT ![c] = "gone"]
    /\ helper' = [helper EXCEPT ![c] = IF @ = "running" THEN "gone" ELSE @]
    /\ UNCHANGED <<procFixed, guard, stop_asked, reported, doomed, known, record, sweepVars,
                   procOutside, hit>>

ClientTurn(c) ==
    \/ SweepStarts(c) \/ SweepNext(c) \/ Spawns(c) \/ EntersJob(c) \/ Identifies(c)
    \/ write_record(c) \/ Terminates(c) \/ Reaps(c) \/ after_reap(c) \/ ClosesJob(c)
    \/ StopTerm(c) \/ StopWaits(c) \/ StopSettles(c)

----------------------------------------------------------------------------
(* The outside. *)

\* A client is killed, or crashes.  Its descriptors close: the lifeline, the job.
ClientDies(c) ==
    /\ Alive(c) /\ kills < MaxKills
    /\ kills' = kills + 1
    /\ client' = [client EXCEPT ![c] = "dead"]
    /\ guard' = [guard EXCEPT ![c] = IF @ = "zombie" THEN "gone" ELSE @]
    /\ IF platform = "windows" /\ client[c] = "up"
       THEN /\ program' = [program EXCEPT ![c] = "gone"]
            /\ helper' = [helper EXCEPT ![c] = IF @ = "running" THEN "gone" ELSE @]
       ELSE UNCHANGED <<program, helper>>
    /\ to_sweep' = [to_sweep EXCEPT ![c] = {}]
    /\ target' = [target EXCEPT ![c] = Nobody]
    /\ phase' = [phase EXCEPT ![c] = "none"]
    /\ UNCHANGED <<procFixed, stop_asked, reported, doomed, known, record, stranger, guard_killed,
                   hit>>

GuardKilled(c) ==
    /\ GuardAlive(c) /\ kills < MaxKills
    /\ kills' = kills + 1
    /\ guard_killed' = [guard_killed EXCEPT ![c] = TRUE]
    /\ GuardDies(c)
    /\ UNCHANGED <<procFixed, stop_asked, reported, helper, ownVars, sweepVars, stranger, hit>>

\* The number of an emptied group is given out again, or its new holder leaves.
NumberChangesHands(c) ==
    /\ program[c] = "gone" /\ ~HelperRuns(c)
    /\ \E s \in Sessions :
          stranger' = [stranger EXCEPT ![c] = IF @ = "none" THEN s ELSE "none"]
    /\ UNCHANGED <<procFixed, treeVars, ownVars, sweepVars, guard_killed, kills, hit>>

Over == \A c \in Clients : client[c] \in {"closed", "dead"} /\ ~GuardAlive(c)

ProcNext ==
    \/ \E c \in Clients :
          \/ GuardTurn(c) \/ ClientTurn(c)
          \/ ProgramExecs(c) \/ HelperStarts(c) \/ Ends(c)
          \/ ClientDies(c) \/ GuardKilled(c) \/ NumberChangesHands(c)
    \/ Over /\ UNCHANGED procVars

ProcFairness ==
    \A c \in Clients :
        WF_procVars(GuardTurn(c)) /\ WF_procVars(ProgramExecs(c)) /\ WF_procVars(DoomedEnds(c))

ProcSpec == ProcInit /\ [][ProcNext]_procVars /\ ProcFairness

----------------------------------------------------------------------------
(* Properties. *)

ProcTypeOK ==
    /\ platform \in Platforms /\ script \in BOOLEAN
    /\ client \in [Clients -> {"new", "sweeping", "spawning", "recording", "up",
                               "terminating", "reaped", "closed", "dead"}]
    /\ known \in [Clients -> BOOLEAN]
    /\ record \in [Clients -> {"none", "written", "removed"}]
    /\ guard \in [Clients -> {"none", "forked", "armed", "reporting", "watching", "stopping",
                              "zombie", "gone"}]
    /\ stop_asked \in [Clients -> BOOLEAN] /\ reported \in [Clients -> BOOLEAN]
    /\ program \in [Clients -> {"none", "suspended", "forked", "exec", "zombie", "gone"}]
    /\ helper \in [Clients -> {"none", "running", "gone"}]
    /\ doomed \subseteq {"program", "helper"} \X Clients
    /\ stranger \in [Clients -> Sessions \cup {"none"}]
    /\ hit \subseteq Clients
    /\ to_sweep \in [Clients -> SUBSET Clients]
    /\ target \in [Clients -> Clients \cup {Nobody}]
    /\ phase \in [Clients -> {"none", "term", "wait", "settle"}]
    /\ guard_killed \in [Clients -> BOOLEAN] /\ kills \in 0..MaxKills

\* What still runs of a client's tree and nothing already ends.
Lasting(c) == {p \in Group(c) \ doomed :
                  ~(platform = "linux" /\ p[1] = "program" /\ program[c] = "forked"
                    /\ ~GuardAlive(c))}

\* "A recycled pid is never signalled": whatever was given the number of a program or
\* of its group gets no signal, from a guard or from a sweep.
SparesStrangers == hit = {}

\* Once a handle is closed, nothing of what it started goes on: also when the guard was
\* killed, or did not come to its turn within the grace.  (macOS has no parent-death
\* signal for what is not verified.)
ClosedMeansGone ==
    \A c \in Clients :
        client[c] = "closed" /\ (known[c] \/ platform = "windows") /\ platform # "macos"
            => Lasting(c) = {}

\* The record, which is all a later client has, outlives whatever it names: it goes only
\* when nothing of the tree is left, or a guard that lives on is about to end the rest.
RecordOutlivesOrphan ==
    [][\A c \in Clients :
          record[c] = "written" /\ record'[c] = "removed" /\ platform = "linux" =>
              Lasting(c) = {} \/ (GuardAlive(c) /\ MustStop(c))]_procVars

\* A client that dies, wherever it stands, takes its ssh along: by its guard, and where
\* that was killed too, on Linux, by the parent-death signal.
DeadTakesItsTree ==
    \A c \in Clients :
        client[c] = "dead" ~>
            /\ guard_killed[c] \/ Group(c) = {}
            /\ platform = "linux" => ~ProgramRuns(c)

\* Nothing a client started goes on without it: not when it closed the handle, and not
\* when it died.
NothingLeftBehind == [](ProcTypeOK /\ ClosedMeansGone) /\ DeadTakesItsTree
============================================================================
