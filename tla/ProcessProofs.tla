--------------------------- MODULE ProcessProofs ---------------------------
(* What the processes of a client promise, for any number of clients: no guard and *)
(* no sweep signals what has got the number of a program since, a closed handle    *)
(* leaves nothing behind, a record outlives what it names; a command's answer is  *)
(* taken only when it is whole; a capture reconnects as often as it may; and of a  *)
(* wait for a forward a yes is true and a no comes with what ssh said.            *)
EXTENDS ManagedProcess, TunnelStderr, CommandRun, Capture, SequenceTheorems,
        WellFoundedInduction, TLAPS

----------------------------------------------------------------------------
\* The inductive invariant of the process tree, in parts, each of one client's.

\* The guard forks the program once, stands by until it has reaped it, and is gone when
\* its client has reaped the guard.
TreeInv(c) ==
    /\ platform = "windows" =>
         guard[c] = "none" /\ client[c] \notin {"recording", "terminating", "reaped"}
    /\ platform # "windows" /\ guard[c] \in {"none", "forked", "armed"} => program[c] = "none"
    /\ guard[c] \in {"reporting", "watching", "stopping"} =>
         program[c] \in {"forked", "exec", "zombie"}
    /\ client[c] \in {"new", "sweeping"} => guard[c] = "none" /\ program[c] = "none"
    /\ client[c] \in {"new", "sweeping", "spawning"} => ~known[c]
    /\ client[c] \in {"reaped", "closed"} => guard[c] \in {"none", "gone"}

\* Windows has its program in the job, from before it ran until the handle closes.
JobInv(c) ==
    platform = "windows" =>
        /\ client[c] = "spawning" => program[c] = "suspended"
        /\ client[c] = "closed" => program[c] \in {"none", "gone"}
        /\ client[c] \in {"new", "sweeping", "spawning"} => helper[c] = "none"
        /\ client[c] = "closed" => ~HelperRuns(c)

\* A number is given out again once what had it is gone.
NumberInv(c) == stranger[c] # "none" => program[c] = "gone"

\* A client stops its own program once its guard is reaped, or one whose client died.
SweepInv(c) ==
    phase[c] # "none" =>
        /\ client[c] \in {"sweeping", "reaped"} /\ target[c] \in Clients
        /\ client[c] = "reaped" => target[c] = c
        /\ client[c] = "sweeping" => target[c] \in to_sweep[c] /\ client[target[c]] = "dead"

\* On Linux what outlives its guard is about to die of that, and starts nothing more.
OrphanInv(c) ==
    platform = "linux" =>
        /\ guard[c] \in {"zombie", "gone"} /\ program[c] = "exec" => <<"program", c>> \in doomed
        /\ client[c] = "reaped" /\ phase[c] = "settle" => ~HelperRuns(c)
        /\ client[c] = "closed" /\ known[c] => ~HelperRuns(c)

ClientInv(c) == TreeInv(c) /\ JobInv(c) /\ NumberInv(c) /\ SweepInv(c) /\ OrphanInv(c)

\* Types, and the parts of all clients.
ProcInv == ProcTypeOK /\ \A c \in Clients : ClientInv(c)

----------------------------------------------------------------------------
\* The type invariant, in groups of variables.

FlagTypes ==
    /\ script \in BOOLEAN /\ known \in [Clients -> BOOLEAN]
    /\ stop_asked \in [Clients -> BOOLEAN] /\ reported \in [Clients -> BOOLEAN]
    /\ guard_killed \in [Clients -> BOOLEAN]

TreeTypes ==
    /\ platform \in Platforms
    /\ guard \in [Clients -> {"none", "forked", "armed", "reporting", "watching", "stopping",
                              "zombie", "gone"}]
    /\ program \in [Clients -> {"none", "suspended", "forked", "exec", "zombie", "gone"}]
    /\ helper \in [Clients -> {"none", "running", "gone"}]

OwnTypes ==
    /\ client \in [Clients -> {"new", "sweeping", "spawning", "recording", "up",
                               "terminating", "reaped", "closed", "dead"}]
    /\ record \in [Clients -> {"none", "written", "removed"}]
    /\ phase \in [Clients -> {"none", "term", "wait", "settle"}]
    /\ target \in [Clients -> Clients \cup {Nobody}]

SetTypes ==
    /\ doomed \subseteq {"program", "helper"} \X Clients
    /\ hit \subseteq Clients
    /\ to_sweep \in [Clients -> SUBSET Clients]

OutsideTypes == stranger \in [Clients -> Sessions \cup {"none"}] /\ kills \in 0..MaxKills

LEMMA TypeParts ==
    ProcTypeOK <=> FlagTypes /\ TreeTypes /\ OwnTypes /\ SetTypes /\ OutsideTypes
BY DEF ProcTypeOK, FlagTypes, TreeTypes, OwnTypes, SetTypes, OutsideTypes

\* Whose turn it is.
ProcStep(c) ==
    \/ GuardTurn(c) \/ ClientTurn(c)
    \/ ProgramExecs(c) \/ HelperStarts(c) \/ Ends(c)
    \/ ClientDies(c) \/ GuardKilled(c) \/ NumberChangesHands(c)

\* Flags stay flags.
LEMMA FlagTypesStep ==
    ASSUME ProcTypeOK, NEW c \in Clients, ProcStep(c)
    PROVE  FlagTypes'
<1>1. CASE GuardReports(c)
  BY <1>1, ProcTypeOK DEF GuardReports, procFixed, ownVars, sweepVars, procOutside,
      ProcTypeOK, FlagTypes
<1>2. CASE Identifies(c)
  BY <1>2, ProcTypeOK DEF Identifies, GuardAlive, ProgramRuns, procFixed, treeVars,
      sweepVars, procOutside, ProcTypeOK, FlagTypes
<1>3. CASE Terminates(c)
  BY <1>3, ProcTypeOK DEF Terminates, AsksGuard, procFixed, sweepVars, procOutside,
      GuardDies, Alive, LeavesProgram, ProcTypeOK, FlagTypes
<1>4. CASE Reaps(c)
  BY <1>4, ProcTypeOK DEF Reaps, LeavesProgram, procFixed, sweepVars, ProcTypeOK, FlagTypes
<1>5. CASE GuardKilled(c)
  BY <1>5, ProcTypeOK DEF GuardKilled, GuardAlive, GuardDies, procFixed, ownVars, sweepVars,
      Alive, LeavesProgram, ProcTypeOK, FlagTypes
<1>6. CASE
        \/ GuardArms(c) \/ GuardForks(c) \/ GuardStops(c) \/ GuardKills(c)
        \/ SweepStarts(c) \/ SweepNext(c) \/ Spawns(c) \/ EntersJob(c)
        \/ write_record(c) \/ after_reap(c) \/ ClosesJob(c) \/ StopTerm(c)
        \/ StopWaits(c) \/ StopSettles(c) \/ ProgramExecs(c) \/ HelperStarts(c)
        \/ Ends(c) \/ ClientDies(c) \/ NumberChangesHands(c)
  <2>1. UNCHANGED <<script, known, stop_asked, reported, guard_killed>>
    BY <1>6 DEF GuardArms, GuardForks, GuardStops, GuardKills, SweepStarts, SweepNext,
        Spawns, EntersJob, write_record, after_reap, ClosesJob, StopTerm, StopWaits,
        StopSettles, ProgramExecs, HelperStarts, Ends, ClientDies, NumberChangesHands,
        procFixed, ownVars, sweepVars, procOutside, GuardDies, treeVars, Forget,
        LeavesProgram
  <2> QED
    BY <2>1, ProcTypeOK DEF ProcTypeOK, FlagTypes
<1> QED
  BY <1>1, <1>2, <1>3, <1>4, <1>5, <1>6
  DEF ProcStep, GuardTurn, ClientTurn

\* The processes keep to their states.
LEMMA TreeTypesStep ==
    ASSUME ProcTypeOK, NEW c \in Clients, ProcStep(c)
    PROVE  TreeTypes'
<1>1. CASE GuardArms(c)
  BY <1>1, ProcTypeOK DEF GuardArms, procFixed, ownVars, sweepVars, procOutside, ProcTypeOK,
      TreeTypes
<1>2. CASE GuardForks(c)
  BY <1>2, ProcTypeOK DEF GuardForks, GuardDies, procFixed, ownVars, sweepVars, procOutside,
      Alive, LeavesProgram, ProcTypeOK, TreeTypes
<1>3. CASE GuardReports(c)
  BY <1>3, ProcTypeOK DEF GuardReports, procFixed, ownVars, sweepVars, procOutside,
      ProcTypeOK, TreeTypes
<1>4. CASE GuardStops(c)
  BY <1>4, ProcTypeOK DEF GuardStops, MustStop, TermGroup, procFixed, ownVars, sweepVars,
      procOutside, Alive, Group, HitGroup, ProgramRuns, HelperRuns, ProcTypeOK, TreeTypes
<1>5. CASE GuardKills(c)
  BY <1>5, ProcTypeOK DEF GuardKills, Alive, Group, HitGroup, procFixed, ownVars, sweepVars,
      procOutside, ProgramRuns, HelperRuns, ProcTypeOK, TreeTypes
<1>6. CASE Spawns(c)
  BY <1>6, ProcTypeOK DEF Spawns, procFixed, sweepVars, procOutside, ProcTypeOK, TreeTypes
<1>7. CASE EntersJob(c)
  BY <1>7, ProcTypeOK DEF EntersJob, procFixed, sweepVars, procOutside, ProcTypeOK,
      TreeTypes
<1>8. CASE Terminates(c)
  BY <1>8, ProcTypeOK DEF Terminates, AsksGuard, procFixed, sweepVars, procOutside,
      GuardDies, Alive, LeavesProgram, ProcTypeOK, TreeTypes
<1>9. CASE Reaps(c)
  BY <1>9, ProcTypeOK DEF Reaps, LeavesProgram, procFixed, sweepVars, ProcTypeOK, TreeTypes
<1>10. CASE ClosesJob(c)
  BY <1>10, ProcTypeOK DEF ClosesJob, procFixed, sweepVars, procOutside, ProcTypeOK,
      TreeTypes
<1>11. CASE StopWaits(c)
  BY <1>11, ProcTypeOK DEF StopWaits, anything_left, program_matches, Corpse, HelperRuns,
      mistaken, verified, HitVerified, procFixed, ownVars, GuardAlive, Group, ProgramRuns,
      ProcTypeOK, TreeTypes
<1>12. CASE ProgramExecs(c)
  BY <1>12, ProcTypeOK DEF ProgramExecs, GuardAlive, procFixed, ownVars, sweepVars,
      procOutside, ProcTypeOK, TreeTypes
<1>13. CASE HelperStarts(c)
  BY <1>13, ProcTypeOK DEF HelperStarts, procFixed, ownVars, sweepVars, procOutside,
      ProcTypeOK, TreeTypes
<1>14. CASE Ends(c)
  BY <1>14, ProcTypeOK DEF Ends, Corpse, HelperRuns, procFixed, ownVars, sweepVars,
      procOutside, GuardAlive, ProcTypeOK, TreeTypes
<1>15. CASE ClientDies(c)
  BY <1>15, ProcTypeOK DEF ClientDies, Alive, Nobody, procFixed, ProcTypeOK, TreeTypes
<1>16. CASE GuardKilled(c)
  BY <1>16, ProcTypeOK DEF GuardKilled, GuardAlive, GuardDies, procFixed, ownVars,
      sweepVars, Alive, LeavesProgram, ProcTypeOK, TreeTypes
<1>17. CASE
        \/ SweepStarts(c) \/ SweepNext(c) \/ Identifies(c) \/ write_record(c)
        \/ after_reap(c) \/ StopTerm(c) \/ StopSettles(c) \/ NumberChangesHands(c)
  <2>1. UNCHANGED <<platform, guard, program, helper>>
    BY <1>17 DEF SweepStarts, SweepNext, Identifies, write_record, after_reap, StopTerm,
        StopSettles, NumberChangesHands, procFixed, treeVars, procOutside, ownVars,
        sweepVars, Forget
  <2> QED
    BY <2>1, ProcTypeOK DEF ProcTypeOK, TreeTypes
<1> QED
  BY <1>1, <1>2, <1>3, <1>4, <1>5, <1>6, <1>7, <1>8, <1>9, <1>10, <1>11, <1>12, <1>13,
      <1>14, <1>15, <1>16, <1>17
  DEF ProcStep, GuardTurn, ClientTurn

\* So does what a client knows of itself and of its sweep.
LEMMA OwnTypesStep ==
    ASSUME ProcTypeOK, NEW c \in Clients, ProcStep(c)
    PROVE  OwnTypes'
<1>1. CASE SweepStarts(c)
  BY <1>1, ProcTypeOK DEF SweepStarts, procFixed, treeVars, procOutside, ProcTypeOK,
      OwnTypes
<1>2. CASE SweepNext(c)
  BY <1>2, ProcTypeOK DEF SweepNext, owner_alive, procFixed, treeVars, ownVars, procOutside,
      Alive, ProcTypeOK, OwnTypes
<1>3. CASE Spawns(c)
  BY <1>3, ProcTypeOK DEF Spawns, procFixed, sweepVars, procOutside, ProcTypeOK, OwnTypes
<1>4. CASE EntersJob(c)
  BY <1>4, ProcTypeOK DEF EntersJob, procFixed, sweepVars, procOutside, ProcTypeOK, OwnTypes
<1>5. CASE Identifies(c)
  BY <1>5, ProcTypeOK DEF Identifies, GuardAlive, ProgramRuns, procFixed, treeVars,
      sweepVars, procOutside, ProcTypeOK, OwnTypes
<1>6. CASE write_record(c)
  BY <1>6, ProcTypeOK DEF write_record, procFixed, treeVars, sweepVars, procOutside,
      ProcTypeOK, OwnTypes
<1>7. CASE Terminates(c)
  BY <1>7, ProcTypeOK DEF Terminates, AsksGuard, procFixed, sweepVars, procOutside,
      GuardDies, Alive, LeavesProgram, ProcTypeOK, OwnTypes
<1>8. CASE Reaps(c)
  BY <1>8, ProcTypeOK DEF Reaps, LeavesProgram, procFixed, sweepVars, ProcTypeOK, OwnTypes
<1>9. CASE after_reap(c)
  BY <1>9, ProcTypeOK DEF after_reap, procFixed, treeVars, procOutside, ProcTypeOK, OwnTypes
<1>10. CASE ClosesJob(c)
  BY <1>10, ProcTypeOK DEF ClosesJob, procFixed, sweepVars, procOutside, ProcTypeOK,
      OwnTypes
<1>11. CASE StopTerm(c)
  BY <1>11, ProcTypeOK DEF StopTerm, verified, HitVerified, anything_left, procFixed,
      ownVars, procOutside, Group, program_matches, mistaken, ProgramRuns, HelperRuns,
      ProcTypeOK, OwnTypes
<1>12. CASE StopWaits(c)
  BY <1>12, ProcTypeOK DEF StopWaits, anything_left, program_matches, Corpse, HelperRuns,
      mistaken, verified, HitVerified, procFixed, ownVars, GuardAlive, Group, ProgramRuns,
      ProcTypeOK, OwnTypes
<1>13. CASE StopSettles(c)
  <2>1. /\ record' \in [Clients -> {"none", "written", "removed"}]
        /\ phase' \in [Clients -> {"none", "term", "wait", "settle"}]
    BY <1>13, ProcTypeOK DEF StopSettles, Forget, ProcTypeOK
  <2>2. /\ client' = [client EXCEPT ![c] = IF @ = "reaped" THEN "closed" ELSE @]
        /\ target' = [target EXCEPT ![c] = Nobody]
    BY <1>13 DEF StopSettles
  <2> QED
    BY <2>1, <2>2, ProcTypeOK DEF ProcTypeOK, OwnTypes
<1>14. CASE ClientDies(c)
  BY <1>14, ProcTypeOK DEF ClientDies, Alive, Nobody, procFixed, ProcTypeOK, OwnTypes
<1>15. CASE
        \/ GuardArms(c) \/ GuardForks(c) \/ GuardReports(c) \/ GuardStops(c)
        \/ GuardKills(c) \/ ProgramExecs(c) \/ HelperStarts(c) \/ Ends(c)
        \/ GuardKilled(c) \/ NumberChangesHands(c)
  <2>1. UNCHANGED <<client, record, phase, target>>
    BY <1>15 DEF GuardArms, GuardForks, GuardReports, GuardStops, GuardKills, ProgramExecs,
        HelperStarts, Ends, GuardKilled, NumberChangesHands, procFixed, ownVars, sweepVars,
        procOutside, GuardDies, treeVars, LeavesProgram
  <2> QED
    BY <2>1, ProcTypeOK DEF ProcTypeOK, OwnTypes
<1> QED
  BY <1>1, <1>2, <1>3, <1>4, <1>5, <1>6, <1>7, <1>8, <1>9, <1>10, <1>11, <1>12, <1>13,
      <1>14, <1>15
  DEF ProcStep, GuardTurn, ClientTurn

\* The sets stay sets of what they are of.
LEMMA SetTypesStep ==
    ASSUME ProcTypeOK, NEW c \in Clients, ProcStep(c), SweepInv(c)
    PROVE  SetTypes'
<1>1. CASE GuardForks(c)
  BY <1>1, ProcTypeOK DEF GuardForks, GuardDies, procFixed, ownVars, sweepVars, procOutside,
      Alive, LeavesProgram, ProcTypeOK, SetTypes
<1>2. CASE GuardStops(c)
  BY <1>2, ProcTypeOK DEF GuardStops, MustStop, TermGroup, procFixed, ownVars, sweepVars,
      procOutside, Alive, Group, HitGroup, ProgramRuns, HelperRuns, ProcTypeOK, SetTypes
<1>3. CASE GuardKills(c)
  BY <1>3, ProcTypeOK DEF GuardKills, Alive, Group, HitGroup, procFixed, ownVars, sweepVars,
      procOutside, ProgramRuns, HelperRuns, ProcTypeOK, SetTypes
<1>4. CASE SweepStarts(c)
  BY <1>4, ProcTypeOK DEF SweepStarts, procFixed, treeVars, procOutside, ProcTypeOK,
      SetTypes
<1>5. CASE SweepNext(c)
  BY <1>5, ProcTypeOK DEF SweepNext, owner_alive, procFixed, treeVars, ownVars, procOutside,
      Alive, ProcTypeOK, SetTypes
<1>6. CASE Terminates(c)
  BY <1>6, ProcTypeOK DEF Terminates, AsksGuard, procFixed, sweepVars, procOutside,
      GuardDies, Alive, LeavesProgram, ProcTypeOK, SetTypes
<1>7. CASE Reaps(c)
  BY <1>7, ProcTypeOK DEF Reaps, LeavesProgram, procFixed, sweepVars, ProcTypeOK, SetTypes
<1>8. CASE StopTerm(c)
  <2>1. target[c] \in Clients
    BY <1>8, SweepInv(c) DEF StopTerm, SweepInv
  <2>2. verified(target[c]) \subseteq {"program", "helper"} \X Clients
    BY <2>1 DEF verified, Group
  <2>3. hit' \subseteq Clients
    BY <1>8, <2>1, ProcTypeOK DEF StopTerm, HitVerified, ProcTypeOK
  <2>4. doomed' = doomed \cup verified(target[c]) /\ UNCHANGED to_sweep
    BY <1>8 DEF StopTerm
  <2> QED
    BY <2>2, <2>3, <2>4, ProcTypeOK DEF ProcTypeOK, SetTypes
<1>9. CASE StopWaits(c)
  <2>1. target[c] \in Clients
    BY <1>9, SweepInv(c) DEF StopWaits, SweepInv
  <2>2. hit' \subseteq Clients
    BY <1>9, <2>1, ProcTypeOK DEF StopWaits, HitVerified, ProcTypeOK
  <2>3. doomed' \subseteq doomed /\ UNCHANGED to_sweep
    BY <1>9 DEF StopWaits
  <2> QED
    BY <2>2, <2>3, ProcTypeOK DEF ProcTypeOK, SetTypes
<1>10. CASE StopSettles(c)
  BY <1>10, ProcTypeOK DEF StopSettles, Forget, Nobody, procFixed, treeVars, procOutside,
      after_reap, anything_left, verified, mistaken, Group, program_matches, ProgramRuns,
      HelperRuns, ProcTypeOK, SetTypes
<1>11. CASE Ends(c)
  BY <1>11, ProcTypeOK DEF Ends, Corpse, HelperRuns, procFixed, ownVars, sweepVars,
      procOutside, GuardAlive, ProcTypeOK, SetTypes
<1>12. CASE ClientDies(c)
  BY <1>12, ProcTypeOK DEF ClientDies, Alive, Nobody, procFixed, ProcTypeOK, SetTypes
<1>13. CASE GuardKilled(c)
  BY <1>13, ProcTypeOK DEF GuardKilled, GuardAlive, GuardDies, procFixed, ownVars,
      sweepVars, Alive, LeavesProgram, ProcTypeOK, SetTypes
<1>14. CASE
        \/ GuardArms(c) \/ GuardReports(c) \/ Spawns(c) \/ EntersJob(c) \/ Identifies(c)
        \/ write_record(c) \/ after_reap(c) \/ ClosesJob(c) \/ ProgramExecs(c)
        \/ HelperStarts(c) \/ NumberChangesHands(c)
  <2>1. UNCHANGED <<doomed, hit, to_sweep>>
    BY <1>14 DEF GuardArms, GuardReports, Spawns, EntersJob, Identifies, write_record,
        after_reap, ClosesJob, ProgramExecs, HelperStarts, NumberChangesHands, procFixed,
        ownVars, sweepVars, procOutside, treeVars
  <2> QED
    BY <2>1, ProcTypeOK DEF ProcTypeOK, SetTypes
<1> QED
  BY <1>1, <1>2, <1>3, <1>4, <1>5, <1>6, <1>7, <1>8, <1>9, <1>10, <1>11, <1>12, <1>13, <1>14
  DEF ProcStep, GuardTurn, ClientTurn

\* A number has one holder.
LEMMA OutsideTypesStep ==
    ASSUME ProcTypeOK, NEW c \in Clients, ProcStep(c)
    PROVE  OutsideTypes'
<1>1. CASE StopWaits(c)
  BY <1>1, ProcTypeOK, ManagedProcessAssumption DEF StopWaits, anything_left,
      program_matches, Corpse, HelperRuns, mistaken, verified, HitVerified, procFixed,
      ownVars, GuardAlive, Group, ProgramRuns, ProcTypeOK, OutsideTypes,
      ManagedProcessAssumption
<1>2. CASE ClientDies(c)
  BY <1>2, ProcTypeOK, ManagedProcessAssumption DEF ClientDies, Alive, Nobody, procFixed,
      ProcTypeOK, OutsideTypes, ManagedProcessAssumption
<1>3. CASE GuardKilled(c)
  BY <1>3, ProcTypeOK, ManagedProcessAssumption DEF GuardKilled, GuardAlive, GuardDies,
      procFixed, ownVars, sweepVars, Alive, LeavesProgram, ProcTypeOK, OutsideTypes,
      ManagedProcessAssumption
<1>4. CASE NumberChangesHands(c)
  BY <1>4, ProcTypeOK, ManagedProcessAssumption DEF NumberChangesHands, HelperRuns,
      procFixed, treeVars, ownVars, sweepVars, ProcTypeOK, OutsideTypes,
      ManagedProcessAssumption
<1>5. CASE
        \/ GuardArms(c) \/ GuardForks(c) \/ GuardReports(c) \/ GuardStops(c)
        \/ GuardKills(c) \/ SweepStarts(c) \/ SweepNext(c) \/ Spawns(c) \/ EntersJob(c)
        \/ Identifies(c) \/ write_record(c) \/ Terminates(c) \/ Reaps(c)
        \/ after_reap(c) \/ ClosesJob(c) \/ StopTerm(c) \/ StopSettles(c)
        \/ ProgramExecs(c) \/ HelperStarts(c) \/ Ends(c)
  <2>1. UNCHANGED <<stranger, kills>>
    BY <1>5 DEF GuardArms, GuardForks, GuardReports, GuardStops, GuardKills, SweepStarts,
        SweepNext, Spawns, EntersJob, Identifies, write_record, Terminates, Reaps,
        after_reap, ClosesJob, StopTerm, StopSettles, ProgramExecs, HelperStarts, Ends,
        procFixed, ownVars, sweepVars, procOutside, GuardDies, treeVars, AsksGuard,
        LeavesProgram, Forget
  <2> QED
    BY <2>1, ProcTypeOK DEF ProcTypeOK, OutsideTypes, ManagedProcessAssumption
<1> QED
  BY <1>1, <1>2, <1>3, <1>4, <1>5
  DEF ProcStep, GuardTurn, ClientTurn

----------------------------------------------------------------------------
\* The parts of the invariant, one step of one client at a time.

\* Who is in a group, and who of it passes for what the record names.
LEMMA GroupMembers ==
    ASSUME NEW r \in Clients, NEW d \in Clients
    PROVE  /\ <<"program", d>> \in Group(r) <=> d = r /\ ProgramRuns(r)
           /\ <<"helper", d>> \in Group(r) <=> d = r /\ HelperRuns(r)
           /\ <<"program", d>> \in verified(r) <=> d = r /\ program_matches(r)
           /\ <<"helper", d>> \in verified(r) <=> d = r /\ HelperRuns(r)
<1>1. /\ <<"program", d>> \in Group(r) <=> d = r /\ ProgramRuns(r)
      /\ <<"helper", d>> \in Group(r) <=> d = r /\ HelperRuns(r)
  BY DEF Group
<1>2. program_matches(r) => ProgramRuns(r)
  BY DEF program_matches, ProgramRuns
<1> QED
  BY <1>1, <1>2 DEF verified

\* The guard and its program move together.
LEMMA TreeStep ==
    ASSUME ProcTypeOK, NEW c \in Clients, ProcStep(c), NEW d \in Clients,
           TreeInv(c), TreeInv(d)
    PROVE  TreeInv(d)'
<1>1. CASE GuardArms(c)
  BY <1>1, ProcTypeOK, TreeInv(c), TreeInv(d) DEF GuardArms, procFixed, ownVars, sweepVars,
      procOutside, ProcTypeOK, TreeInv
<1>2. CASE GuardForks(c)
  BY <1>2, ProcTypeOK, TreeInv(c), TreeInv(d) DEF GuardForks, GuardDies, procFixed, ownVars,
      sweepVars, procOutside, Alive, LeavesProgram, ProcTypeOK, TreeInv
<1>3. CASE GuardReports(c)
  BY <1>3, ProcTypeOK, TreeInv(c), TreeInv(d) DEF GuardReports, procFixed, ownVars,
      sweepVars, procOutside, ProcTypeOK, TreeInv
<1>4. CASE GuardStops(c)
  BY <1>4, ProcTypeOK, TreeInv(c), TreeInv(d) DEF GuardStops, MustStop, TermGroup,
      procFixed, ownVars, sweepVars, procOutside, Alive, Group, HitGroup, ProgramRuns,
      HelperRuns, ProcTypeOK, TreeInv
<1>5. CASE GuardKills(c)
  BY <1>5, ProcTypeOK, TreeInv(c), TreeInv(d) DEF GuardKills, Alive, Group, HitGroup,
      procFixed, ownVars, sweepVars, procOutside, ProgramRuns, HelperRuns, ProcTypeOK,
      TreeInv
<1>6. CASE SweepStarts(c)
  BY <1>6, ProcTypeOK, TreeInv(c), TreeInv(d) DEF SweepStarts, procFixed, treeVars,
      procOutside, ProcTypeOK, TreeInv
<1>7. CASE Spawns(c)
  BY <1>7, ProcTypeOK, TreeInv(c), TreeInv(d) DEF Spawns, procFixed, sweepVars, procOutside,
      ProcTypeOK, TreeInv
<1>8. CASE EntersJob(c)
  BY <1>8, ProcTypeOK, TreeInv(c), TreeInv(d) DEF EntersJob, procFixed, sweepVars,
      procOutside, ProcTypeOK, TreeInv
<1>9. CASE Identifies(c)
  BY <1>9, ProcTypeOK, TreeInv(c), TreeInv(d) DEF Identifies, GuardAlive, ProgramRuns,
      procFixed, treeVars, sweepVars, procOutside, ProcTypeOK, TreeInv
<1>10. CASE write_record(c)
  BY <1>10, ProcTypeOK, TreeInv(c), TreeInv(d) DEF write_record, procFixed, treeVars,
      sweepVars, procOutside, ProcTypeOK, TreeInv
<1>11. CASE Terminates(c)
  BY <1>11, ProcTypeOK, TreeInv(c), TreeInv(d) DEF Terminates, AsksGuard, procFixed,
      sweepVars, procOutside, GuardDies, Alive, LeavesProgram, ProcTypeOK, TreeInv
<1>12. CASE Reaps(c)
  BY <1>12, ProcTypeOK, TreeInv(c), TreeInv(d) DEF Reaps, LeavesProgram, procFixed,
      sweepVars, ProcTypeOK, TreeInv
<1>13. CASE after_reap(c)
  BY <1>13, ProcTypeOK, TreeInv(c), TreeInv(d) DEF after_reap, procFixed, treeVars,
      procOutside, ProcTypeOK, TreeInv
<1>14. CASE ClosesJob(c)
  BY <1>14, ProcTypeOK, TreeInv(c), TreeInv(d) DEF ClosesJob, procFixed, sweepVars,
      procOutside, ProcTypeOK, TreeInv
<1>15. CASE StopWaits(c)
  BY <1>15, ProcTypeOK, TreeInv(c), TreeInv(d) DEF StopWaits, anything_left,
      program_matches, Corpse, HelperRuns, mistaken, verified, HitVerified, procFixed,
      ownVars, GuardAlive, Group, ProgramRuns, ProcTypeOK, TreeInv
<1>16. CASE StopSettles(c)
  BY <1>16, ProcTypeOK, TreeInv(c), TreeInv(d) DEF StopSettles, Forget, Nobody, procFixed,
      treeVars, procOutside, after_reap, anything_left, verified, mistaken, Group,
      program_matches, ProgramRuns, HelperRuns, ProcTypeOK, TreeInv
<1>17. CASE ProgramExecs(c)
  BY <1>17, ProcTypeOK, TreeInv(c), TreeInv(d) DEF ProgramExecs, GuardAlive, procFixed,
      ownVars, sweepVars, procOutside, ProcTypeOK, TreeInv
<1>18. CASE Ends(c)
  BY <1>18, ProcTypeOK, TreeInv(c), TreeInv(d) DEF Ends, Corpse, HelperRuns, procFixed,
      ownVars, sweepVars, procOutside, GuardAlive, ProcTypeOK, TreeInv
<1>19. CASE ClientDies(c)
  BY <1>19, ProcTypeOK, TreeInv(c), TreeInv(d) DEF ClientDies, Alive, Nobody, procFixed,
      ProcTypeOK, TreeInv
<1>20. CASE GuardKilled(c)
  BY <1>20, ProcTypeOK, TreeInv(c), TreeInv(d) DEF GuardKilled, GuardAlive, GuardDies,
      procFixed, ownVars, sweepVars, Alive, LeavesProgram, ProcTypeOK, TreeInv
<1>21. CASE
        \/ SweepNext(c) \/ StopTerm(c) \/ HelperStarts(c) \/ NumberChangesHands(c)
  <2>1. UNCHANGED <<platform, guard, program, client, known>>
    BY <1>21 DEF SweepNext, StopTerm, HelperStarts, NumberChangesHands, procFixed, treeVars,
        ownVars, procOutside, sweepVars
  <2> QED
    BY <2>1, TreeInv(d) DEF ProcTypeOK, TreeInv
<1> QED
  BY <1>1, <1>2, <1>3, <1>4, <1>5, <1>6, <1>7, <1>8, <1>9, <1>10, <1>11, <1>12, <1>13,
      <1>14, <1>15, <1>16, <1>17, <1>18, <1>19, <1>20, <1>21
  DEF ProcStep, GuardTurn, ClientTurn

\* The job holds the program while the handle is open.
LEMMA JobStep ==
    ASSUME ProcTypeOK, NEW c \in Clients, ProcStep(c), NEW d \in Clients,
           TreeInv(d), JobInv(c), JobInv(d)
    PROVE  JobInv(d)'
<1>1. CASE GuardForks(c)
  BY <1>1, ProcTypeOK, TreeInv(d), JobInv(c), JobInv(d) DEF GuardForks, GuardDies,
      procFixed, ownVars, sweepVars, procOutside, Alive, LeavesProgram, ProcTypeOK, JobInv,
      TreeInv, HelperRuns
<1>2. CASE GuardKills(c)
  BY <1>2, ProcTypeOK, TreeInv(d), JobInv(c), JobInv(d) DEF GuardKills, Alive, Group,
      HitGroup, procFixed, ownVars, sweepVars, procOutside, ProgramRuns, HelperRuns,
      ProcTypeOK, JobInv, TreeInv
<1>3. CASE SweepStarts(c)
  BY <1>3, ProcTypeOK, TreeInv(d), JobInv(c), JobInv(d) DEF SweepStarts, procFixed,
      treeVars, procOutside, ProcTypeOK, JobInv, TreeInv, HelperRuns
<1>4. CASE Spawns(c)
  BY <1>4, ProcTypeOK, TreeInv(d), JobInv(c), JobInv(d) DEF Spawns, procFixed, sweepVars,
      procOutside, ProcTypeOK, JobInv, TreeInv, HelperRuns
<1>5. CASE EntersJob(c)
  BY <1>5, ProcTypeOK, TreeInv(d), JobInv(c), JobInv(d) DEF EntersJob, procFixed, sweepVars,
      procOutside, ProcTypeOK, JobInv, TreeInv, HelperRuns
<1>6. CASE Identifies(c)
  BY <1>6, ProcTypeOK, TreeInv(d), JobInv(c), JobInv(d) DEF Identifies, GuardAlive,
      ProgramRuns, procFixed, treeVars, sweepVars, procOutside, ProcTypeOK, JobInv, TreeInv,
      HelperRuns
<1>7. CASE write_record(c)
  BY <1>7, ProcTypeOK, TreeInv(d), JobInv(c), JobInv(d) DEF write_record, procFixed,
      treeVars, sweepVars, procOutside, ProcTypeOK, JobInv, TreeInv, HelperRuns
<1>8. CASE Terminates(c)
  BY <1>8, ProcTypeOK, TreeInv(d), JobInv(c), JobInv(d) DEF Terminates, AsksGuard,
      procFixed, sweepVars, procOutside, GuardDies, Alive, LeavesProgram, ProcTypeOK,
      JobInv, TreeInv, HelperRuns
<1>9. CASE Reaps(c)
  BY <1>9, ProcTypeOK, TreeInv(d), JobInv(c), JobInv(d) DEF Reaps, LeavesProgram, procFixed,
      sweepVars, ProcTypeOK, JobInv, TreeInv, HelperRuns
<1>10. CASE after_reap(c)
  BY <1>10, ProcTypeOK, TreeInv(d), JobInv(c), JobInv(d) DEF after_reap, procFixed,
      treeVars, procOutside, ProcTypeOK, JobInv, TreeInv, HelperRuns
<1>11. CASE ClosesJob(c)
  BY <1>11, ProcTypeOK, TreeInv(d), JobInv(c), JobInv(d) DEF ClosesJob, procFixed,
      sweepVars, procOutside, ProcTypeOK, JobInv, TreeInv, HelperRuns
<1>12. CASE StopWaits(c)
  BY <1>12, ProcTypeOK, TreeInv(d), JobInv(c), JobInv(d) DEF StopWaits, anything_left,
      program_matches, Corpse, HelperRuns, mistaken, verified, HitVerified, procFixed,
      ownVars, GuardAlive, Group, ProgramRuns, ProcTypeOK, JobInv, TreeInv
<1>13. CASE StopSettles(c)
  BY <1>13, ProcTypeOK, TreeInv(d), JobInv(c), JobInv(d) DEF StopSettles, Forget, Nobody,
      procFixed, treeVars, procOutside, after_reap, anything_left, verified, mistaken,
      Group, program_matches, ProgramRuns, HelperRuns, ProcTypeOK, JobInv, TreeInv
<1>14. CASE ProgramExecs(c)
  BY <1>14, ProcTypeOK, TreeInv(d), JobInv(c), JobInv(d) DEF ProgramExecs, GuardAlive,
      procFixed, ownVars, sweepVars, procOutside, ProcTypeOK, JobInv, TreeInv, HelperRuns
<1>15. CASE HelperStarts(c)
  BY <1>15, ProcTypeOK, TreeInv(d), JobInv(c), JobInv(d) DEF HelperStarts, procFixed,
      ownVars, sweepVars, procOutside, ProcTypeOK, JobInv, TreeInv, HelperRuns
<1>16. CASE Ends(c)
  BY <1>16, ProcTypeOK, TreeInv(d), JobInv(c), JobInv(d) DEF Ends, Corpse, HelperRuns,
      procFixed, ownVars, sweepVars, procOutside, GuardAlive, ProcTypeOK, JobInv, TreeInv
<1>17. CASE ClientDies(c)
  BY <1>17, ProcTypeOK, TreeInv(d), JobInv(c), JobInv(d) DEF ClientDies, Alive, Nobody,
      procFixed, ProcTypeOK, JobInv, TreeInv, HelperRuns
<1>18. CASE GuardKilled(c)
  BY <1>18, ProcTypeOK, TreeInv(d), JobInv(c), JobInv(d) DEF GuardKilled, GuardAlive,
      GuardDies, procFixed, ownVars, sweepVars, Alive, LeavesProgram, ProcTypeOK, JobInv,
      TreeInv, HelperRuns
<1>19. CASE
        \/ GuardArms(c) \/ GuardReports(c) \/ GuardStops(c) \/ SweepNext(c)
        \/ StopTerm(c) \/ NumberChangesHands(c)
  <2>1. UNCHANGED <<platform, client, program, helper>>
    BY <1>19 DEF GuardArms, GuardReports, GuardStops, SweepNext, StopTerm,
        NumberChangesHands, procFixed, ownVars, sweepVars, procOutside, treeVars
  <2> QED
    BY <2>1, JobInv(d) DEF ProcTypeOK, JobInv, TreeInv, HelperRuns
<1> QED
  BY <1>1, <1>2, <1>3, <1>4, <1>5, <1>6, <1>7, <1>8, <1>9, <1>10, <1>11, <1>12, <1>13,
      <1>14, <1>15, <1>16, <1>17, <1>18, <1>19
  DEF ProcStep, GuardTurn, ClientTurn

\* Nobody has a number while its program lasts.
LEMMA NumberStep ==
    ASSUME ProcTypeOK, NEW c \in Clients, ProcStep(c), NEW d \in Clients,
           TreeInv(c), TreeInv(d), JobInv(c), NumberInv(c), NumberInv(d)
    PROVE  NumberInv(d)'
<1>1. CASE GuardForks(c)
  BY <1>1, ProcTypeOK, TreeInv(c), TreeInv(d), JobInv(c), NumberInv(c), NumberInv(d) DEF
      GuardForks, GuardDies, procFixed, ownVars, sweepVars, procOutside, Alive,
      LeavesProgram, ProcTypeOK, JobInv, NumberInv, TreeInv
<1>2. CASE GuardKills(c)
  BY <1>2, ProcTypeOK, TreeInv(c), TreeInv(d), JobInv(c), NumberInv(c), NumberInv(d) DEF
      GuardKills, Alive, Group, HitGroup, procFixed, ownVars, sweepVars, procOutside,
      ProgramRuns, HelperRuns, ProcTypeOK, JobInv, NumberInv, TreeInv
<1>3. CASE Spawns(c)
  BY <1>3, ProcTypeOK, TreeInv(c), TreeInv(d), JobInv(c), NumberInv(c), NumberInv(d) DEF
      Spawns, procFixed, sweepVars, procOutside, ProcTypeOK, JobInv, NumberInv, TreeInv
<1>4. CASE EntersJob(c)
  BY <1>4, ProcTypeOK, TreeInv(c), TreeInv(d), JobInv(c), NumberInv(c), NumberInv(d) DEF
      EntersJob, procFixed, sweepVars, procOutside, ProcTypeOK, JobInv, NumberInv, TreeInv
<1>5. CASE Terminates(c)
  BY <1>5, ProcTypeOK, TreeInv(c), TreeInv(d), JobInv(c), NumberInv(c), NumberInv(d) DEF
      Terminates, AsksGuard, procFixed, sweepVars, procOutside, GuardDies, Alive,
      LeavesProgram, ProcTypeOK, JobInv, NumberInv, TreeInv
<1>6. CASE Reaps(c)
  BY <1>6, ProcTypeOK, TreeInv(c), TreeInv(d), JobInv(c), NumberInv(c), NumberInv(d) DEF
      Reaps, LeavesProgram, procFixed, sweepVars, ProcTypeOK, JobInv, NumberInv, TreeInv
<1>7. CASE ClosesJob(c)
  BY <1>7, ProcTypeOK, TreeInv(c), TreeInv(d), JobInv(c), NumberInv(c), NumberInv(d) DEF
      ClosesJob, procFixed, sweepVars, procOutside, ProcTypeOK, JobInv, NumberInv, TreeInv
<1>8. CASE StopWaits(c)
  BY <1>8, ProcTypeOK, TreeInv(c), TreeInv(d), JobInv(c), NumberInv(c), NumberInv(d) DEF
      StopWaits, anything_left, program_matches, Corpse, HelperRuns, mistaken, verified,
      HitVerified, procFixed, ownVars, GuardAlive, Group, ProgramRuns, ProcTypeOK, JobInv,
      NumberInv, TreeInv
<1>9. CASE ProgramExecs(c)
  BY <1>9, ProcTypeOK, TreeInv(c), TreeInv(d), JobInv(c), NumberInv(c), NumberInv(d) DEF
      ProgramExecs, GuardAlive, procFixed, ownVars, sweepVars, procOutside, ProcTypeOK,
      JobInv, NumberInv, TreeInv
<1>10. CASE Ends(c)
  BY <1>10, ProcTypeOK, TreeInv(c), TreeInv(d), JobInv(c), NumberInv(c), NumberInv(d) DEF
      Ends, Corpse, HelperRuns, procFixed, ownVars, sweepVars, procOutside, GuardAlive,
      ProcTypeOK, JobInv, NumberInv, TreeInv
<1>11. CASE ClientDies(c)
  BY <1>11, ProcTypeOK, TreeInv(c), TreeInv(d), JobInv(c), NumberInv(c), NumberInv(d) DEF
      ClientDies, Alive, Nobody, procFixed, ProcTypeOK, JobInv, NumberInv, TreeInv
<1>12. CASE GuardKilled(c)
  BY <1>12, ProcTypeOK, TreeInv(c), TreeInv(d), JobInv(c), NumberInv(c), NumberInv(d) DEF
      GuardKilled, GuardAlive, GuardDies, procFixed, ownVars, sweepVars, Alive,
      LeavesProgram, ProcTypeOK, JobInv, NumberInv, TreeInv
<1>13. CASE NumberChangesHands(c)
  BY <1>13, ProcTypeOK, TreeInv(c), TreeInv(d), JobInv(c), NumberInv(c), NumberInv(d) DEF
      NumberChangesHands, HelperRuns, procFixed, treeVars, ownVars, sweepVars, ProcTypeOK,
      JobInv, NumberInv, TreeInv
<1>14. CASE
        \/ GuardArms(c) \/ GuardReports(c) \/ GuardStops(c) \/ SweepStarts(c)
        \/ SweepNext(c) \/ Identifies(c) \/ write_record(c) \/ after_reap(c)
        \/ StopTerm(c) \/ StopSettles(c) \/ HelperStarts(c)
  <2>1. UNCHANGED <<stranger, program>>
    BY <1>14 DEF GuardArms, GuardReports, GuardStops, SweepStarts, SweepNext, Identifies,
        write_record, after_reap, StopTerm, StopSettles, HelperStarts, procFixed, ownVars,
        sweepVars, procOutside, treeVars, Forget
  <2> QED
    BY <2>1, NumberInv(d) DEF ProcTypeOK, JobInv, NumberInv, TreeInv
<1> QED
  BY <1>1, <1>2, <1>3, <1>4, <1>5, <1>6, <1>7, <1>8, <1>9, <1>10, <1>11, <1>12, <1>13, <1>14
  DEF ProcStep, GuardTurn, ClientTurn

\* A sweep stops what has no client.
LEMMA SweepStep ==
    ASSUME ProcTypeOK, NEW c \in Clients, ProcStep(c), NEW d \in Clients,
           SweepInv(c), SweepInv(d)
    PROVE  SweepInv(d)'
<1>1. CASE SweepStarts(c)
  BY <1>1, ProcTypeOK, SweepInv(c), SweepInv(d) DEF SweepStarts, procFixed, treeVars,
      procOutside, ProcTypeOK, SweepInv
<1>2. CASE SweepNext(c)
  BY <1>2, ProcTypeOK, SweepInv(c), SweepInv(d) DEF SweepNext, owner_alive, procFixed,
      treeVars, ownVars, procOutside, Alive, ProcTypeOK, SweepInv
<1>3. CASE Spawns(c)
  BY <1>3, ProcTypeOK, SweepInv(c), SweepInv(d) DEF Spawns, procFixed, sweepVars,
      procOutside, ProcTypeOK, SweepInv
<1>4. CASE EntersJob(c)
  BY <1>4, ProcTypeOK, SweepInv(c), SweepInv(d) DEF EntersJob, procFixed, sweepVars,
      procOutside, ProcTypeOK, SweepInv
<1>5. CASE Identifies(c)
  BY <1>5, ProcTypeOK, SweepInv(c), SweepInv(d) DEF Identifies, GuardAlive, ProgramRuns,
      procFixed, treeVars, sweepVars, procOutside, ProcTypeOK, SweepInv
<1>6. CASE write_record(c)
  BY <1>6, ProcTypeOK, SweepInv(c), SweepInv(d) DEF write_record, procFixed, treeVars,
      sweepVars, procOutside, ProcTypeOK, SweepInv
<1>7. CASE Terminates(c)
  BY <1>7, ProcTypeOK, SweepInv(c), SweepInv(d) DEF Terminates, AsksGuard, procFixed,
      sweepVars, procOutside, GuardDies, Alive, LeavesProgram, ProcTypeOK, SweepInv
<1>8. CASE Reaps(c)
  BY <1>8, ProcTypeOK, SweepInv(c), SweepInv(d) DEF Reaps, LeavesProgram, procFixed,
      sweepVars, ProcTypeOK, SweepInv
<1>9. CASE after_reap(c)
  BY <1>9, ProcTypeOK, SweepInv(c), SweepInv(d) DEF after_reap, procFixed, treeVars,
      procOutside, ProcTypeOK, SweepInv
<1>10. CASE ClosesJob(c)
  BY <1>10, ProcTypeOK, SweepInv(c), SweepInv(d) DEF ClosesJob, procFixed, sweepVars,
      procOutside, ProcTypeOK, SweepInv
<1>11. CASE StopTerm(c)
  BY <1>11, ProcTypeOK, SweepInv(c), SweepInv(d) DEF StopTerm, verified, HitVerified,
      anything_left, procFixed, ownVars, procOutside, Group, program_matches, mistaken,
      ProgramRuns, HelperRuns, ProcTypeOK, SweepInv
<1>12. CASE StopWaits(c)
  BY <1>12, ProcTypeOK, SweepInv(c), SweepInv(d) DEF StopWaits, anything_left,
      program_matches, Corpse, HelperRuns, mistaken, verified, HitVerified, procFixed,
      ownVars, GuardAlive, Group, ProgramRuns, ProcTypeOK, SweepInv
<1>13. CASE StopSettles(c)
  BY <1>13, ProcTypeOK, SweepInv(c), SweepInv(d) DEF StopSettles, Forget, Nobody, procFixed,
      treeVars, procOutside, after_reap, anything_left, verified, mistaken, Group,
      program_matches, ProgramRuns, HelperRuns, ProcTypeOK, SweepInv
<1>14. CASE ClientDies(c)
  BY <1>14, ProcTypeOK, SweepInv(c), SweepInv(d) DEF ClientDies, Alive, Nobody, procFixed,
      ProcTypeOK, SweepInv
<1>15. CASE
        \/ GuardArms(c) \/ GuardForks(c) \/ GuardReports(c) \/ GuardStops(c)
        \/ GuardKills(c) \/ ProgramExecs(c) \/ HelperStarts(c) \/ Ends(c)
        \/ GuardKilled(c) \/ NumberChangesHands(c)
  <2>1. UNCHANGED <<phase, client, target, to_sweep>>
    BY <1>15 DEF GuardArms, GuardForks, GuardReports, GuardStops, GuardKills, ProgramExecs,
        HelperStarts, Ends, GuardKilled, NumberChangesHands, procFixed, ownVars, sweepVars,
        procOutside, GuardDies, treeVars, LeavesProgram
  <2> QED
    BY <2>1, SweepInv(d) DEF ProcTypeOK, SweepInv
<1> QED
  BY <1>1, <1>2, <1>3, <1>4, <1>5, <1>6, <1>7, <1>8, <1>9, <1>10, <1>11, <1>12, <1>13,
      <1>14, <1>15
  DEF ProcStep, GuardTurn, ClientTurn

\* What the guard left behind goes.
LEMMA OrphanStep ==
    ASSUME ProcTypeOK, NEW c \in Clients, ProcStep(c), NEW d \in Clients,
           TreeInv(c), TreeInv(d), SweepInv(c), SweepInv(d), OrphanInv(c), OrphanInv(d)
    PROVE  OrphanInv(d)'
<1>1. CASE GuardArms(c)
  BY <1>1, ProcTypeOK, TreeInv(c), TreeInv(d), SweepInv(c), SweepInv(d), OrphanInv(c),
     OrphanInv(d) DEF
      GuardArms, procFixed, ownVars, sweepVars, procOutside, ProcTypeOK, OrphanInv,
      SweepInv, TreeInv, HelperRuns
<1>2. CASE GuardForks(c)
  BY <1>2, ProcTypeOK, TreeInv(c), TreeInv(d), SweepInv(c), SweepInv(d), OrphanInv(c),
     OrphanInv(d) DEF
      GuardForks, GuardDies, procFixed, ownVars, sweepVars, procOutside, Alive,
      LeavesProgram, ProcTypeOK, OrphanInv, SweepInv, TreeInv, HelperRuns
<1>3. CASE GuardReports(c)
  BY <1>3, ProcTypeOK, TreeInv(c), TreeInv(d), SweepInv(c), SweepInv(d), OrphanInv(c),
     OrphanInv(d) DEF
      GuardReports, procFixed, ownVars, sweepVars, procOutside, ProcTypeOK, OrphanInv,
      SweepInv, TreeInv, HelperRuns
<1>4. CASE GuardStops(c)
  BY <1>4, ProcTypeOK, TreeInv(c), TreeInv(d), SweepInv(c), SweepInv(d), OrphanInv(c),
     OrphanInv(d) DEF
      GuardStops, MustStop, TermGroup, procFixed, ownVars, sweepVars, procOutside, Alive,
      Group, HitGroup, ProgramRuns, HelperRuns, ProcTypeOK, OrphanInv, SweepInv, TreeInv
<1>5. CASE GuardKills(c)
  BY <1>5, ProcTypeOK, TreeInv(c), TreeInv(d), SweepInv(c), SweepInv(d), OrphanInv(c),
     OrphanInv(d) DEF
      GuardKills, Alive, Group, HitGroup, procFixed, ownVars, sweepVars, procOutside,
      ProgramRuns, HelperRuns, ProcTypeOK, OrphanInv, SweepInv, TreeInv
<1>6. CASE SweepStarts(c)
  BY <1>6, ProcTypeOK, TreeInv(c), TreeInv(d), SweepInv(c), SweepInv(d), OrphanInv(c),
     OrphanInv(d) DEF
      SweepStarts, procFixed, treeVars, procOutside, ProcTypeOK, OrphanInv, SweepInv,
      TreeInv, HelperRuns
<1>7. CASE SweepNext(c)
  BY <1>7, ProcTypeOK, TreeInv(c), TreeInv(d), SweepInv(c), SweepInv(d), OrphanInv(c),
     OrphanInv(d) DEF
      SweepNext, owner_alive, procFixed, treeVars, ownVars, procOutside, Alive, ProcTypeOK,
      OrphanInv, SweepInv, TreeInv, HelperRuns
<1>8. CASE Spawns(c)
  BY <1>8, ProcTypeOK, TreeInv(c), TreeInv(d), SweepInv(c), SweepInv(d), OrphanInv(c),
     OrphanInv(d) DEF
      Spawns, procFixed, sweepVars, procOutside, ProcTypeOK, OrphanInv, SweepInv, TreeInv,
      HelperRuns
<1>9. CASE EntersJob(c)
  BY <1>9, ProcTypeOK, TreeInv(c), TreeInv(d), SweepInv(c), SweepInv(d), OrphanInv(c),
     OrphanInv(d) DEF
      EntersJob, procFixed, sweepVars, procOutside, ProcTypeOK, OrphanInv, SweepInv,
      TreeInv, HelperRuns
<1>10. CASE Identifies(c)
  BY <1>10, ProcTypeOK, TreeInv(c), TreeInv(d), SweepInv(c), SweepInv(d), OrphanInv(c),
     OrphanInv(d) DEF
      Identifies, GuardAlive, ProgramRuns, procFixed, treeVars, sweepVars, procOutside,
      ProcTypeOK, OrphanInv, SweepInv, TreeInv, HelperRuns
<1>11. CASE write_record(c)
  BY <1>11, ProcTypeOK, TreeInv(c), TreeInv(d), SweepInv(c), SweepInv(d), OrphanInv(c),
     OrphanInv(d) DEF
      write_record, procFixed, treeVars, sweepVars, procOutside, ProcTypeOK, OrphanInv,
      SweepInv, TreeInv, HelperRuns
<1>12. CASE Terminates(c)
  BY <1>12, ProcTypeOK, TreeInv(c), TreeInv(d), SweepInv(c), SweepInv(d), OrphanInv(c),
     OrphanInv(d) DEF
      Terminates, AsksGuard, procFixed, sweepVars, procOutside, GuardDies, Alive,
      LeavesProgram, ProcTypeOK, OrphanInv, SweepInv, TreeInv, HelperRuns
<1>13. CASE Reaps(c)
  BY <1>13, ProcTypeOK, TreeInv(c), TreeInv(d), SweepInv(c), SweepInv(d), OrphanInv(c),
     OrphanInv(d) DEF
      Reaps, LeavesProgram, procFixed, sweepVars, ProcTypeOK, OrphanInv, SweepInv, TreeInv,
      HelperRuns
<1>14. CASE after_reap(c)
  BY <1>14, ProcTypeOK, TreeInv(c), TreeInv(d), SweepInv(c), SweepInv(d), OrphanInv(c),
     OrphanInv(d) DEF
      after_reap, procFixed, treeVars, procOutside, ProcTypeOK, OrphanInv, SweepInv,
      TreeInv, HelperRuns
<1>15. CASE ClosesJob(c)
  BY <1>15, ProcTypeOK, TreeInv(c), TreeInv(d), SweepInv(c), SweepInv(d), OrphanInv(c),
     OrphanInv(d) DEF
      ClosesJob, procFixed, sweepVars, procOutside, ProcTypeOK, OrphanInv, SweepInv,
      TreeInv, HelperRuns
<1>16. CASE StopTerm(c)
  <2>1. UNCHANGED <<platform, guard, program, client, helper, known>> /\ doomed \subseteq doomed'
    BY <1>16 DEF StopTerm, procFixed, ownVars
  <2>2. client[d] = "reaped" /\ phase'[d] = "settle" => phase[d] = "settle" \/ ~HelperRuns(d)
    <3>1. CASE c = d
      <4> SUFFICES ASSUME client[c] = "reaped", phase'[c] = "settle" PROVE ~HelperRuns(c)
        BY <3>1
      <4>1. target[c] = c
        BY <1>16, SweepInv(c) DEF StopTerm, SweepInv
      <4>2. ~anything_left(c)
        BY <1>16, <4>1, ProcTypeOK DEF StopTerm, ProcTypeOK
      <4> QED
        BY <4>2, GroupMembers DEF anything_left
    <3>2. CASE c # d
      BY <1>16, <3>2, ProcTypeOK DEF StopTerm, ProcTypeOK
    <3> QED
      BY <3>1, <3>2
  <2> QED
    BY <2>1, <2>2, OrphanInv(d) DEF OrphanInv, HelperRuns
<1>17. CASE StopWaits(c)
  <2> DEFINE r == target[c]
  <2>1. r \in Clients /\ (client[c] = "reaped" => r = c)
    BY <1>17, SweepInv(c) DEF StopWaits, SweepInv
  <2>2. UNCHANGED <<platform, guard, client, known>>
    BY <1>17 DEF StopWaits, procFixed, ownVars
  <2>3. \/ ~anything_left(r) /\ UNCHANGED <<program, helper, doomed>>
        \/ /\ program' = [program EXCEPT ![r] = IF program_matches(r) THEN Corpse(r) ELSE @]
           /\ helper' = [helper EXCEPT ![r] = IF HelperRuns(r) THEN "gone" ELSE @]
           /\ doomed' = doomed \ verified(r)
    BY <1>17 DEF StopWaits
  <2>4. program'[d] = "exec" => program[d] = "exec" /\ (d = r => ~program_matches(r) \/ UNCHANGED doomed)
    BY <2>1, <2>3, ProcTypeOK DEF Corpse, ProcTypeOK
  <2>5. program'[d] = "exec" /\ <<"program", d>> \in doomed => <<"program", d>> \in doomed'
    BY <2>1, <2>3, <2>4, GroupMembers
  <2>6. HelperRuns(d)' => HelperRuns(d)
    BY <2>1, <2>3, ProcTypeOK DEF HelperRuns, ProcTypeOK
  <2>7. d = r => ~HelperRuns(d)'
    <3>1. CASE ~anything_left(r) /\ UNCHANGED helper
      BY <2>1, <3>1, GroupMembers DEF anything_left, HelperRuns
    <3>2. CASE helper' = [helper EXCEPT ![r] = IF HelperRuns(r) THEN "gone" ELSE @]
      BY <2>1, <3>2, ProcTypeOK DEF HelperRuns, ProcTypeOK
    <3> QED
      BY <2>3, <3>1, <3>2
  <2>8. phase'[d] = "settle" => phase[d] = "settle" \/ d = c
    BY <1>17, ProcTypeOK DEF StopWaits, ProcTypeOK
  <2> QED
    BY <2>1, <2>2, <2>4, <2>5, <2>6, <2>7, <2>8, OrphanInv(d) DEF OrphanInv
<1>18. CASE StopSettles(c)
  BY <1>18, ProcTypeOK, TreeInv(c), TreeInv(d), SweepInv(c), SweepInv(d), OrphanInv(c),
     OrphanInv(d) DEF
      StopSettles, Forget, Nobody, procFixed, treeVars, procOutside, after_reap,
      anything_left, verified, mistaken, Group, program_matches, ProgramRuns, HelperRuns,
      ProcTypeOK, OrphanInv, SweepInv, TreeInv
<1>19. CASE ProgramExecs(c)
  BY <1>19, ProcTypeOK, TreeInv(c), TreeInv(d), SweepInv(c), SweepInv(d), OrphanInv(c),
     OrphanInv(d) DEF
      ProgramExecs, GuardAlive, procFixed, ownVars, sweepVars, procOutside, ProcTypeOK,
      OrphanInv, SweepInv, TreeInv, HelperRuns
<1>20. CASE HelperStarts(c)
  BY <1>20, ProcTypeOK, TreeInv(c), TreeInv(d), SweepInv(c), SweepInv(d), OrphanInv(c),
     OrphanInv(d) DEF
      HelperStarts, procFixed, ownVars, sweepVars, procOutside, ProcTypeOK, OrphanInv,
      SweepInv, TreeInv, HelperRuns
<1>21. CASE Ends(c)
  BY <1>21, ProcTypeOK, TreeInv(c), TreeInv(d), SweepInv(c), SweepInv(d), OrphanInv(c),
     OrphanInv(d) DEF
      Ends, Corpse, HelperRuns, procFixed, ownVars, sweepVars, procOutside, GuardAlive,
      ProcTypeOK, OrphanInv, SweepInv, TreeInv
<1>22. CASE ClientDies(c)
  BY <1>22, ProcTypeOK, TreeInv(c), TreeInv(d), SweepInv(c), SweepInv(d), OrphanInv(c),
     OrphanInv(d) DEF
      ClientDies, Alive, Nobody, procFixed, ProcTypeOK, OrphanInv, SweepInv, TreeInv,
      HelperRuns
<1>23. CASE GuardKilled(c)
  BY <1>23, ProcTypeOK, TreeInv(c), TreeInv(d), SweepInv(c), SweepInv(d), OrphanInv(c),
     OrphanInv(d) DEF
      GuardKilled, GuardAlive, GuardDies, procFixed, ownVars, sweepVars, Alive,
      LeavesProgram, ProcTypeOK, OrphanInv, SweepInv, TreeInv, HelperRuns
<1>24. CASE
        \/ NumberChangesHands(c)
  <2>1. UNCHANGED <<platform, guard, program, doomed, client, phase, helper, known>>
    BY <1>24 DEF NumberChangesHands, procFixed, treeVars, ownVars, sweepVars
  <2> QED
    BY <2>1, OrphanInv(d) DEF ProcTypeOK, OrphanInv, SweepInv, TreeInv, HelperRuns
<1> QED
  BY <1>1, <1>2, <1>3, <1>4, <1>5, <1>6, <1>7, <1>8, <1>9, <1>10, <1>11, <1>12, <1>13,
      <1>14, <1>15, <1>16, <1>17, <1>18, <1>19, <1>20, <1>21, <1>22, <1>23, <1>24
  DEF ProcStep, GuardTurn, ClientTurn

----------------------------------------------------------------------------
\* The invariant of the process tree.

LEMMA ProcInvInit == ProcInit => ProcInv
<1> SUFFICES ASSUME ProcInit PROVE ProcInv
  OBVIOUS
<1>1. ProcTypeOK
  <2>1. FlagTypes
    BY DEF ProcInit, FlagTypes
  <2>2. TreeTypes /\ OwnTypes
    BY DEF ProcInit, TreeTypes, OwnTypes
  <2>3. SetTypes /\ OutsideTypes
    BY ManagedProcessAssumption DEF ProcInit, SetTypes, OutsideTypes,
       ManagedProcessAssumption
  <2> QED
    BY <2>1, <2>2, <2>3, TypeParts
<1>2. ASSUME NEW c \in Clients PROVE ClientInv(c)
  BY DEF ProcInit, ClientInv, TreeInv, JobInv, NumberInv, SweepInv, OrphanInv, HelperRuns
<1> QED
  BY <1>1, <1>2 DEF ProcInv

LEMMA ProcInvTurn ==
    ASSUME ProcInv, NEW c \in Clients, ProcStep(c)
    PROVE  ProcInv'
<1>1. ProcTypeOK /\ \A d \in Clients : ClientInv(d)
  BY DEF ProcInv
<1>2. TreeInv(c) /\ JobInv(c) /\ NumberInv(c) /\ SweepInv(c) /\ OrphanInv(c)
  BY <1>1 DEF ClientInv
<1>3. FlagTypes' /\ TreeTypes' /\ OwnTypes' /\ SetTypes' /\ OutsideTypes'
  BY <1>1, <1>2, FlagTypesStep, TreeTypesStep, OwnTypesStep, SetTypesStep, OutsideTypesStep
<1>4. ProcTypeOK'
  BY <1>3, TypeParts DEF ProcTypeOK, FlagTypes, TreeTypes, OwnTypes, SetTypes, OutsideTypes
<1>5. ASSUME NEW d \in Clients PROVE ClientInv(d)'
  <2>1. TreeInv(d) /\ JobInv(d) /\ NumberInv(d) /\ SweepInv(d) /\ OrphanInv(d)
    BY <1>1 DEF ClientInv
  <2>2. TreeInv(d)' /\ JobInv(d)'
    BY <1>1, <1>2, <2>1, TreeStep, JobStep
  <2>3. NumberInv(d)' /\ SweepInv(d)'
    BY <1>1, <1>2, <2>1, NumberStep, SweepStep
  <2>4. OrphanInv(d)'
    BY <1>1, <1>2, <2>1, OrphanStep
  <2> QED
    BY <2>2, <2>3, <2>4 DEF ClientInv
<1> QED
  BY <1>4, <1>5 DEF ProcInv

\* Whatever the next step is, it is somebody's, or nothing changes.
LEMMA WhoseStep ==
    [ProcNext]_procVars => (\E c \in Clients : ProcStep(c)) \/ UNCHANGED procVars
BY DEF ProcNext, ProcStep

LEMMA ProcInvStutter == ProcInv /\ UNCHANGED procVars => ProcInv'
<1> SUFFICES ASSUME ProcInv, UNCHANGED procVars PROVE ProcInv'
  OBVIOUS
<1> USE DEF procVars, procFixed, treeVars, ownVars, sweepVars, procOutside
<1>1. ProcTypeOK'
  BY DEF ProcInv, ProcTypeOK
<1>2. ASSUME NEW d \in Clients PROVE ClientInv(d)'
  BY DEF ProcInv, ClientInv, TreeInv, JobInv, NumberInv, SweepInv, OrphanInv, HelperRuns
<1> QED
  BY <1>1, <1>2 DEF ProcInv

\* Every reachable state of the processes satisfies the invariant, for any clients, on
\* any platform and however many are killed.
THEOREM ProcessInvariant == ProcSpec => []ProcInv
<1>1. ProcInv /\ [ProcNext]_procVars => ProcInv'
  BY WhoseStep, ProcInvTurn, ProcInvStutter
<1> QED
  BY <1>1, ProcInvInit, PTL DEF ProcSpec

----------------------------------------------------------------------------
\* What follows of it.

\* A client's part of the invariant.
LEMMA PartsOf ==
    ASSUME ProcInv, NEW c \in Clients
    PROVE  ProcTypeOK /\ TreeInv(c) /\ JobInv(c) /\ NumberInv(c) /\ SweepInv(c) /\ OrphanInv(c)
BY DEF ProcInv, ClientInv

\* A closed handle leaves nothing of its tree that is not ending already (off macOS, and
\* where the program was identified): the program is gone or dying of its guard's death,
\* and what it had started was stopped.
THEOREM ClosedLeavesNothing == ProcSpec => []ClosedMeansGone
<1>1. ASSUME ProcInv PROVE ClosedMeansGone
  <2> SUFFICES ASSUME NEW c \in Clients, client[c] = "closed",
                      known[c] \/ platform = "windows", platform # "macos"
               PROVE  Lasting(c) = {}
    BY DEF ClosedMeansGone
  <2>1. ProcTypeOK /\ TreeInv(c) /\ JobInv(c) /\ OrphanInv(c)
    BY <1>1, PartsOf
  <2>2. platform \in {"linux", "windows"}
    BY <2>1, ManagedProcessAssumption DEF ProcTypeOK, ManagedProcessAssumption
  <2>3. ~HelperRuns(c)
    BY <2>1, <2>2 DEF JobInv, OrphanInv
  <2>4. guard[c] \in {"none", "gone"} /\ ~GuardAlive(c)
    BY <2>1 DEF TreeInv, GuardAlive
  <2>5. CASE platform = "windows"
    BY <2>1, <2>3, <2>5 DEF JobInv, Lasting, Group, ProgramRuns
  <2>6. CASE platform = "linux"
    <3>1. program[c] = "exec" => <<"program", c>> \in doomed
      BY <2>1, <2>4, <2>6 DEF TreeInv, OrphanInv
    <3>2. \A p \in Group(c) : p = <<"program", c>> /\ program[c] \in {"forked", "exec"}
      BY <2>3 DEF Group, ProgramRuns
    <3> QED
      BY <2>4, <2>6, <3>1, <3>2 DEF Lasting
  <2> QED
    BY <2>2, <2>5, <2>6
<1> QED
  BY <1>1, ProcessInvariant, PTL

\* What gets the number of a program after it, in another session than this client's, is
\* signalled by no guard (which has its program unreaped when it signals) and by no sweep
\* (which looks at the session).
THEOREM StrangersAreSpared ==
    ASSUME "same" \notin Sessions
    PROVE  ProcSpec => []SparesStrangers
<1>1. ProcInit => SparesStrangers
  BY DEF ProcInit, SparesStrangers
<1>2. ASSUME ProcInv, SparesStrangers, [ProcNext]_procVars PROVE SparesStrangers'
  <2>1. ASSUME NEW r \in Clients PROVE stranger[r] # "same"
    BY <1>2, PartsOf DEF ProcTypeOK
  <2>2. CASE UNCHANGED procVars
    BY <1>2, <2>2 DEF procVars, SparesStrangers
  <2>3. ASSUME NEW c \in Clients, ProcStep(c) PROVE hit' = hit
    <3>1. ProcTypeOK /\ TreeInv(c) /\ NumberInv(c) /\ SweepInv(c)
      BY <1>2, PartsOf
    <3>2. CASE GuardStops(c) \/ GuardKills(c)
      <4>1. stranger[c] = "none"
        BY <3>1, <3>2 DEF GuardStops, GuardKills, TreeInv, NumberInv
      <4> QED
        BY <3>2, <4>1 DEF GuardStops, GuardKills, TermGroup, HitGroup
    <3>3. CASE StopTerm(c) \/ StopWaits(c)
      <4>1. target[c] \in Clients
        BY <3>1, <3>3 DEF StopTerm, StopWaits, SweepInv
      <4> QED
        BY <2>1, <3>3, <4>1 DEF StopTerm, StopWaits, HitVerified, mistaken
    <3>4. CASE
            \/ GuardArms(c) \/ GuardForks(c) \/ GuardReports(c) \/ SweepStarts(c)
            \/ SweepNext(c) \/ Spawns(c) \/ EntersJob(c) \/ Identifies(c)
            \/ write_record(c) \/ Terminates(c) \/ Reaps(c) \/ after_reap(c)
            \/ ClosesJob(c) \/ StopSettles(c) \/ ProgramExecs(c) \/ HelperStarts(c)
            \/ Ends(c) \/ ClientDies(c) \/ GuardKilled(c) \/ NumberChangesHands(c)
      BY <3>4 DEF GuardArms, GuardForks, GuardReports, SweepStarts, SweepNext, Spawns,
          EntersJob, Identifies, write_record, Terminates, Reaps, after_reap, ClosesJob,
          StopSettles, ProgramExecs, HelperStarts, Ends, ClientDies, GuardKilled,
          NumberChangesHands, procFixed, ownVars, sweepVars, procOutside, GuardDies,
          treeVars, AsksGuard, LeavesProgram, Forget
    <3> QED
      BY <2>3, <3>2, <3>3, <3>4 DEF ProcStep, GuardTurn, ClientTurn
  <2> QED
    BY <1>2, <2>2, <2>3, WhoseStep DEF SparesStrangers
<1> QED
  BY <1>1, <1>2, ProcessInvariant, PTL DEF ProcSpec

\* On Linux a record is removed only when nothing of what it names goes on, or a guard
\* that lives is about to end it.
THEOREM RecordIsKept == ProcSpec => RecordOutlivesOrphan
<1>1. ASSUME ProcInv, [ProcNext]_procVars, NEW r \in Clients,
             record[r] = "written", record'[r] = "removed", platform = "linux"
      PROVE  Lasting(r) = {} \/ (GuardAlive(r) /\ MustStop(r))
  <2>1. ProcTypeOK /\ TreeInv(r) /\ OrphanInv(r)
    BY <1>1, PartsOf
  <2>2. ASSUME NEW c \in Clients, ProcStep(c)
        PROVE  StopSettles(c) /\ r = target[c] /\ ~anything_left(r)
    <3>1. CASE StopSettles(c)
      BY <1>1, <2>1, <3>1 DEF StopSettles, Forget, ProcTypeOK
    <3>2. CASE write_record(c)
      BY <1>1, <2>1, <3>2 DEF write_record, ProcTypeOK
    <3>3. CASE
            \/ GuardArms(c) \/ GuardForks(c) \/ GuardReports(c) \/ GuardStops(c)
            \/ GuardKills(c) \/ SweepStarts(c) \/ SweepNext(c) \/ Spawns(c)
            \/ EntersJob(c) \/ Identifies(c) \/ Terminates(c) \/ Reaps(c)
            \/ after_reap(c) \/ ClosesJob(c) \/ StopTerm(c) \/ StopWaits(c)
            \/ ProgramExecs(c) \/ HelperStarts(c) \/ Ends(c) \/ ClientDies(c)
            \/ GuardKilled(c) \/ NumberChangesHands(c)
      BY <1>1, <3>3 DEF GuardArms, GuardForks, GuardReports, GuardStops, GuardKills,
         SweepStarts,
          SweepNext, Spawns, EntersJob, Identifies, Terminates, Reaps, after_reap,
          ClosesJob, StopTerm, StopWaits, ProgramExecs, HelperStarts, Ends, ClientDies,
          GuardKilled, NumberChangesHands, procFixed, ownVars, sweepVars, procOutside,
          GuardDies, TermGroup, HitGroup, treeVars, AsksGuard, LeavesProgram
    <3> QED
      BY <1>1, <2>2, <3>1, <3>2, <3>3 DEF ProcStep, GuardTurn, ClientTurn
  <2>3. PICK c \in Clients : StopSettles(c) /\ r = target[c] /\ ~anything_left(r)
    BY <1>1, <2>2, WhoseStep DEF procVars, ownVars
  <2>4. ~HelperRuns(r) /\ ~program_matches(r)
    BY <2>3, GroupMembers DEF anything_left
  <2>5. CASE GuardAlive(r)
    <3>1. SweepInv(c) /\ TreeInv(c)
      BY <1>1, PartsOf
    <3>2. ~Alive(r)
      BY <2>1, <2>3, <2>5, <3>1 DEF StopSettles, SweepInv, TreeInv, GuardAlive, Alive
    <3> QED
      BY <2>5, <3>2 DEF MustStop
  <2>6. CASE ~GuardAlive(r)
    <3>1. program[r] = "exec" => <<"program", r>> \in doomed
      BY <1>1, <2>1, <2>6 DEF TreeInv, OrphanInv, GuardAlive, ProcTypeOK
    <3>2. \A p \in Group(r) : p = <<"program", r>> /\ program[r] \in {"forked", "exec"}
      BY <2>4 DEF Group, ProgramRuns
    <3> QED
      BY <1>1, <2>6, <3>1, <3>2 DEF Lasting
  <2> QED
    BY <2>5, <2>6
<1>2. ProcInv /\ [ProcNext]_procVars =>
          [\A c \in Clients :
              record[c] = "written" /\ record'[c] = "removed" /\ platform = "linux" =>
                  Lasting(c) = {} \/ (GuardAlive(c) /\ MustStop(c))]_procVars
  BY <1>1
<1> QED
  BY <1>2, ProcessInvariant, PTL DEF ProcSpec, RecordOutlivesOrphan

----------------------------------------------------------------------------
\* The inductive invariant of a command that is run.

\* What was read is what was written first of the answer; the reader leaves its loop for
\* the reaping once there is nothing left and nobody to write more, or its reading failed.
CommandInv ==
    /\ answer \in Seq(ToSet(Parts)) /\ out \in Seq(ToSet(Parts)) /\ written \in Nat
    /\ Len(out) <= written /\ written <= Len(answer)
    /\ \A i \in 1 .. Len(out) : out[i] = answer[i]
    /\ child = "exited" => written = Len(answer) \/ lost
    /\ run = "reading" => child # "none"
    /\ run = "reaping" =>
         /\ child # "none"
         /\ lost \/ (child # "writing" /\ written <= Len(out))
    /\ run # "done" => end_ = "none" /\ fetched = "none"
    /\ end_ = "exited" => out = answer \/ lost
    /\ fetched \notin {"none", "failed"} => end_ = "exited" /\ fetched = Parsed(out)

LEMMA CommandInvInit == CommandInit => CommandInv
<1> SUFFICES ASSUME CommandInit PROVE CommandInv
  OBVIOUS
<1>1. answer \in Seq(ToSet(Parts))
  BY DEF CommandInit, Answers, SeqOf
<1> QED
  BY <1>1 DEF CommandInit, CommandInv

\* What is there to read continues what was read.
LEMMA ReadIsPrefix ==
    ASSUME CommandInv, NEW n \in 1 .. Len(Unread), Unread # <<>>, out' = out \o SubSeq(Unread, 1, n)
    PROVE  /\ out' \in Seq(ToSet(Parts)) /\ Len(out') <= written
           /\ \A i \in 1 .. Len(out') : out'[i] = answer[i]
<1> DEFINE rest == SubSeq(answer, Len(out) + 1, written)
           read == SubSeq(rest, 1, n)
<1>1. /\ rest \in Seq(ToSet(Parts)) /\ Len(rest) = written - Len(out)
      /\ \A i \in 1 .. Len(rest) : rest[i] = answer[Len(out) + i]
  BY SubSeqProperties DEF CommandInv, Unread
<1>2. /\ read \in Seq(ToSet(Parts)) /\ Len(read) = n /\ n <= Len(rest)
      /\ \A i \in 1 .. n : read[i] = rest[i]
  <2>1. n \in 1 .. Len(rest)
    BY DEF Unread
  <2> HIDE DEF rest
  <2> QED
    BY <1>1, <2>1, SubSeqProperties
<1>3. /\ out' = out \o read /\ out \in Seq(ToSet(Parts)) /\ Len(out) \in Nat
      /\ Len(out) <= written /\ written \in Nat /\ n \in Nat
  BY DEF Unread, CommandInv
<1> HIDE DEF rest, read
<1>4. /\ out' \in Seq(ToSet(Parts)) /\ Len(out') = Len(out) + n
      /\ \A i \in 1 .. Len(out') : out'[i] = IF i <= Len(out) THEN out[i] ELSE read[i - Len(out)]
  <2>1. /\ out \o read \in Seq(ToSet(Parts)) /\ Len(out \o read) = Len(out) + Len(read)
        /\ \A i \in 1 .. Len(out) + Len(read) :
              (out \o read)[i] = IF i <= Len(out) THEN out[i] ELSE read[i - Len(out)]
    BY <1>2, <1>3, ConcatProperties
  <2> QED
    BY <1>2, <1>3, <2>1
<1>5. ASSUME NEW i \in 1 .. Len(out') PROVE out'[i] = answer[i]
  <2>1. CASE i <= Len(out)
    BY <1>3, <1>4, <2>1 DEF CommandInv
  <2>2. CASE i > Len(out)
    <3>1. i \in Int /\ i - Len(out) \in 1 .. n /\ i - Len(out) \in 1 .. Len(rest)
      BY <1>1, <1>2, <1>3, <1>4, <2>2
    <3>2. out'[i] = rest[i - Len(out)]
      BY <1>2, <1>4, <2>2, <3>1
    <3>3. rest[i - Len(out)] = answer[Len(out) + (i - Len(out))]
      BY <1>1, <3>1
    <3>4. Len(out) + (i - Len(out)) = i
      BY <1>3, <3>1
    <3> QED
      BY <3>2, <3>3, <3>4
  <2> QED
    BY <1>3, <2>1, <2>2
<1> QED
  BY <1>1, <1>2, <1>3, <1>4, <1>5

LEMMA CommandInvStep == CommandInv /\ [CommandNext]_commandVars => CommandInv'
<1> SUFFICES ASSUME CommandInv, [CommandNext]_commandVars PROVE CommandInv'
  OBVIOUS
<1> USE DEF commandFixed
<1>1. CASE CommandStarts
  BY <1>1 DEF CommandStarts, CommandInv
<1>2. CASE ChildWrites
  BY <1>2 DEF ChildWrites, CommandInv
<1>3. CASE ChildStops
  BY <1>3 DEF ChildStops, CommandInv
<1>4. CASE ReadsOutput
  <2>1. PICK n \in {1, Len(Unread)} : out' = out \o SubSeq(Unread, 1, n)
    BY <1>4 DEF ReadsOutput
  <2>2. Unread \in Seq(ToSet(Parts)) /\ Unread # <<>>
    BY <1>4, SubSeqProperties DEF ReadsOutput, Unread, CommandInv
  <2>3. n \in 1 .. Len(Unread)
    BY <2>2
  <2>4. /\ out' \in Seq(ToSet(Parts)) /\ Len(out') <= written
        /\ \A i \in 1 .. Len(out') : out'[i] = answer[i]
    BY <2>1, <2>2, <2>3, ReadIsPrefix
  <2> QED
    BY <1>4, <2>4 DEF ReadsOutput, CommandInv
<1>5. CASE ReadToEnd
  <2>1. ASSUME ~lost PROVE written <= Len(out)
    <3>1. /\ Len(out) + 1 \in Int /\ written \in Int /\ Len(out) \in Int
          /\ \A i \in Len(out) + 1 .. written : answer[i] \in ToSet(Parts)
      BY DEF CommandInv
    <3>2. Len(Unread) = IF Len(out) + 1 <= written THEN written - (Len(out) + 1) + 1 ELSE 0
      BY <3>1, SubSeqProperties DEF Unread
    <3>3. Len(Unread) = 0
      BY <1>5, <2>1 DEF ReadToEnd
    <3> QED
      BY <3>1, <3>2, <3>3
  <2>2. child \notin {"none", "writing"}
    BY <1>5 DEF ReadToEnd, OutputOpen, CommandInv
  <2>3. run' = "reaping" /\ UNCHANGED <<child, written, out, lost>>
    BY <1>5 DEF ReadToEnd
  <2>4. lost \/ (child # "writing" /\ written <= Len(out))
    BY <2>1, <2>2
  <2> QED
    BY <1>5, <2>2, <2>3, <2>4 DEF ReadToEnd, CommandInv
<1>6. CASE KillsChild
  <2>1. end_' # "exited"
    BY <1>6 DEF KillsChild, StopsFor
  <2>2. out' = <<>> \/ out' = out
    BY <1>6 DEF KillsChild
  <2> QED
    BY <1>6, <2>1, <2>2 DEF KillsChild, CommandInv
<1>7. CASE ReapsChild
  <2>1. child = "exited" => out = answer \/ lost
    BY <1>7, SeqEqual DEF ReapsChild, CommandInv
  <2> QED
    BY <1>7, <2>1 DEF ReapsChild, CommandInv
<1>8. CASE fetch_broker_credentials
  BY <1>8 DEF fetch_broker_credentials, CommandInv
<1>10. CASE ReadFails
  <2>1. run' \in {"reading", "reaping"} /\ lost' = TRUE
    BY <1>10 DEF ReadFails
  <2>2. run = "reading" /\ UNCHANGED <<answer, child, written, out, end_, fetched>>
    BY <1>10 DEF ReadFails
  <2> QED
    BY <2>1, <2>2 DEF CommandInv, Parsed
<1>9. CASE CommandCancelled \/ CommandExpires \/ UNCHANGED commandVars
  BY <1>9 DEF CommandCancelled, CommandExpires, commandVars, CommandInv, Parsed
<1> QED
  BY <1>1, <1>2, <1>3, <1>4, <1>5, <1>6, <1>7, <1>8, <1>9, <1>10
  DEF CommandNext, CommandTurn

\* Credentials are read off an answer that is all there, whatever the command, its limit
\* and its interruptions: end of output came before the exit that says it went well.  Off
\* the beginning of one only where a poll() or a read of the output failed.
THEOREM AnswersAreWhole == CommandSpec => []WholeAnswerOnly
<1>1. CommandInv => WholeAnswerOnly
  <2> SUFFICES ASSUME CommandInv, fetched \notin {"none", "failed"}
               PROVE  fetched = Parsed(out) /\ IsPrefix(out, answer) /\ (out = answer \/ lost)
    BY DEF WholeAnswerOnly
  <2>1. fetched = Parsed(out) /\ (out = answer \/ lost)
    BY DEF CommandInv
  <2>2. /\ out \in Seq(ToSet(Parts)) /\ answer \in Seq(ToSet(Parts)) /\ Len(out) <= Len(answer)
        /\ \A i \in 1 .. Len(out) : out[i] = answer[i]
    BY DEF CommandInv
  <2>3. IsPrefix(out, answer)
    <3> DEFINE n == Len(out)
               o == SubSeq(out, 1, n)
               a == SubSeq(answer, 1, n)
    <3>1. n \in Nat /\ n <= Len(answer) /\ \A i \in 1 .. n : i \in DOMAIN out /\ i \in DOMAIN answer
      BY <2>2
    <3>2. /\ \A i \in 1 .. n : out[i] \in ToSet(Parts)
          /\ \A i \in 1 .. n : answer[i] \in ToSet(Parts)
      BY <2>2, <3>1
    <3>3. /\ o \in Seq(ToSet(Parts)) /\ Len(o) = n
          /\ \A i \in 1 .. n : o[i] = out[i]
      BY <3>1, <3>2, SubSeqProperties
    <3>4. /\ a \in Seq(ToSet(Parts)) /\ Len(a) = n
          /\ \A i \in 1 .. n : a[i] = answer[i]
      BY <3>1, <3>2, SubSeqProperties
    <3>5. o = a
      <4> HIDE DEF o, a, n
      <4> QED
        BY <2>2, <3>1, <3>3, <3>4, SeqEqual DEF n
    <3> QED
      BY <3>1, <3>5 DEF IsPrefix
  <2> QED
    BY <2>1, <2>3
<1> QED
  BY <1>1, CommandInvInit, CommandInvStep, PTL DEF CommandSpec

----------------------------------------------------------------------------
\* The capture: every reconnect is counted by the schedule, which nothing there refills,
\* and the loop only waits for one the schedule still allowed when the connection ended.
Counted == schedule \in ReconnectSchedule /\ schedule.attempts = reconnects
Allowed == doing = "wait" => Enabled /\ schedule.attempts < MaxAttempts
CaptureInv == CaptureBounded /\ Counted /\ Allowed

\* An outcome is one of the policy's, whatever the end says (classify_connection()).
LEMMA Outcome == ASSUME NEW end PROVE classify_connection(end) \in ConnectionOutcome
BY DEF classify_connection, NeverConnected, ResetOutcome, ConnectionOutcome

\* What connection_ended() makes of a schedule: the same attempts, pending only if one
\* more is allowed.
LEMMA EndedSchedule ==
    ASSUME NEW s \in ReconnectSchedule, NEW outcome \in ConnectionOutcome
    PROVE  /\ ScheduleEnded(s, outcome) \in ReconnectSchedule
           /\ ScheduleEnded(s, outcome).attempts = s.attempts
           /\ ScheduleEnded(s, outcome).pending => Enabled /\ s.attempts < MaxAttempts
<1>1. outcome_is_retriable(outcome) \in BOOLEAN BY DEF outcome_is_retriable
<1>2. CASE should_retry(outcome, s.attempts)
  BY <1>2 DEF ScheduleEnded, ReconnectSchedule, should_retry
<1>3. CASE ~should_retry(outcome, s.attempts)
  BY <1>1, <1>3, ConfigAssumption DEF ScheduleEnded, ReconnectSchedule
<1> QED BY <1>2, <1>3

\* attempt_started() counts one.
LEMMA AttemptedSchedule ==
    ASSUME NEW s \in ReconnectSchedule
    PROVE  /\ ScheduleAttempted(s) \in ReconnectSchedule
           /\ ScheduleAttempted(s).attempts = s.attempts + 1
<1>1. s.attempts \in Nat BY DEF ReconnectSchedule
<1>2. s.attempts + 1 \in Nat BY <1>1
<1> DEFINE idle == [s EXCEPT !.pending = FALSE]
<1>3. idle \in ReconnectSchedule BY DEF ReconnectSchedule
<1>4. \A t \in ReconnectSchedule : \A n \in Nat :
        /\ [t EXCEPT !.attempts = n] \in ReconnectSchedule
        /\ [t EXCEPT !.attempts = n].attempts = n
  BY DEF ReconnectSchedule
<1>5. ScheduleAttempted(s) = [idle EXCEPT !.attempts = s.attempts + 1]
  BY DEF ScheduleAttempted, ReconnectSchedule
<1> HIDE DEF idle
<1> QED BY <1>2, <1>3, <1>4, <1>5

\* The end of an attempt keeps the invariant.
LEMMA JudgedKeeps ==
    ASSUME CaptureInv, UNCHANGED reconnects, NEW end, Judged(end)
    PROVE  CaptureInv'
<1> DEFINE outcome == classify_connection(end)
           next    == ScheduleEnded(schedule, outcome)
<1>1. next \in ReconnectSchedule /\ next.attempts = schedule.attempts
      /\ (next.pending => Enabled /\ schedule.attempts < MaxAttempts)
  BY Outcome, EndedSchedule DEF CaptureInv, Counted
<1>2. \/ doing' = "exited" /\ UNCHANGED schedule
      \/ schedule' = next /\ (doing' = "wait" => next.pending)
  BY DEF Judged, Exits
<1> HIDE DEF outcome, next
<1> QED BY <1>1, <1>2 DEF CaptureInv, CaptureBounded, Counted, Allowed

\* The first attempt is no reconnect.
LEMMA CaptureStarts == CaptureInit => CaptureInv
BY ConfigAssumption
   DEF CaptureInit, CaptureInv, CaptureBounded, Counted, Allowed, NewSchedule, ReconnectSchedule,
       ConnectionOutcome

\* Every step of the capture keeps the invariant.
LEMMA CaptureSteps == CaptureInv /\ [CaptureNext]_headlessVars => CaptureInv'
<1> SUFFICES ASSUME CaptureInv, [CaptureNext]_headlessVars PROVE CaptureInv'
  OBVIOUS
<1> USE DEF CaptureInv, CaptureBounded, Counted, Allowed
<1>1. CASE ConnectSucceeds BY <1>1 DEF ConnectSucceeds
<1>2. CASE ConnectFails
  <2>1. CASE \E failure \in ConnectFailure \ {"none"} :
               Judged([NoResult EXCEPT !.connect_failure = failure])
    BY <1>2, <2>1, JudgedKeeps DEF ConnectFails
  <2>2. CASE doing' = "exited" /\ UNCHANGED schedule
    BY <1>2, <2>2 DEF ConnectFails
  <2> QED BY <1>2, <2>1, <2>2 DEF ConnectFails, Exits
<1>3. CASE Hears BY <1>3 DEF Hears
<1>4. CASE IngestThrows BY <1>4 DEF IngestThrows, Exits
<1>5. CASE ReceiveEnds
  <2>1. UNCHANGED reconnects /\ \E end : Judged(end)
    BY <1>5 DEF ReceiveEnds
  <2> QED BY <2>1, JudgedKeeps
<1>6. CASE Reconnects
  <2>1. /\ Enabled /\ schedule.attempts < MaxAttempts
        /\ doing' = "connect" /\ reconnects' = reconnects + 1
        /\ schedule' = ScheduleAttempted(schedule)
    BY <1>6 DEF Reconnects
  <2>2. schedule' \in ReconnectSchedule /\ schedule'.attempts = schedule.attempts + 1
    BY <2>1, AttemptedSchedule
  <2>3. schedule.attempts \in Nat BY DEF ReconnectSchedule
  <2> QED BY <2>1, <2>2, <2>3, ConfigAssumption
<1>7. CASE WritesPicture BY <1>7 DEF WritesPicture, Exits
<1>8. CASE Passes BY <1>8 DEF Passes
<1>9. CASE UNCHANGED headlessVars BY <1>9 DEF headlessVars
<1> QED BY <1>1, <1>2, <1>3, <1>4, <1>5, <1>6, <1>7, <1>8, <1>9 DEF CaptureNext, Exited

\* CaptureBounded for any configuration and any capture window (run_capture()).
THEOREM AlwaysCaptureBounded == CaptureSpec => []CaptureBounded
<1>1. CaptureInv => CaptureBounded BY DEF CaptureInv
<1> QED BY <1>1, CaptureStarts, CaptureSteps, PTL DEF CaptureSpec

----------------------------------------------------------------------------
(* TunnelStderr: a yes is true, a no comes with ssh's words, and no byte is slept    *)
(* through.                                                                         *)

\* Every set of numbers has a least.
LessThan == {p \in Nat \X Nat : p[1] < p[2]}
LEMMA LessThanIsWellFounded == IsWellFoundedOn(LessThan, Nat)
BY NatLessThanWellFounded DEF OpToRel, LessThan

\* What holds of 0 and of each next number holds of all of them up to n.
LEMMA Upward ==
    ASSUME NEW n \in Nat, NEW S, 0 \in S, \A k \in 1..n : k - 1 \in S => k \in S
    PROVE  n \in S
<1> DEFINE Bad == {k \in 0..n : k \notin S}
<1> SUFFICES ASSUME Bad # {} PROVE FALSE
  <2>1. n \in 0..n
    OBVIOUS
  <2> QED BY <2>1
<1>1. Bad \in SUBSET Nat
  OBVIOUS
<1>2. PICK k \in Bad : \A y \in Bad : ~(<<y, k>> \in LessThan)
  BY <1>1, LessThanIsWellFounded, WFMin
<1>3. k \in 0..n /\ k \notin S
  BY <1>2
<1>4. k # 0
  BY <1>3
<1>5. k \in 1..n /\ k - 1 \in 0..n /\ k - 1 < k
  BY <1>3, <1>4
<1>6. <<k - 1, k>> \in LessThan
  BY <1>5 DEF LessThan
<1>7. k - 1 \notin Bad
  BY <1>2, <1>6
<1> QED BY <1>3, <1>5, <1>7

\* The pieces of a chunk are fed one after the other.
FedTo(f, state, chunk, n) ==
    f = [k \in 0..n |-> IF k = 0 THEN state ELSE Fed(f[k - 1], chunk[k])]

LEMMA FedExists ==
    ASSUME NEW state, NEW chunk, NEW n \in Nat
    PROVE  \E f : FedTo(f, state, chunk, n)
<1> DEFINE S == {k \in 0..n : \E f : FedTo(f, state, chunk, k)}
<1>1. 0 \in S
  <2>1. FedTo([i \in 0..0 |-> state], state, chunk, 0)
    BY DEF FedTo
  <2> QED BY <2>1
<1>2. ASSUME NEW k \in 1..n, k - 1 \in S PROVE k \in S
  <2>1. PICK g : FedTo(g, state, chunk, k - 1)
    BY <1>2
  <2> DEFINE f == [i \in 0..k |-> IF i = k THEN Fed(g[k - 1], chunk[k]) ELSE g[i]]
  <2>2. \A i \in 0..k - 1 : g[i] = IF i = 0 THEN state ELSE Fed(g[i - 1], chunk[i])
    BY <2>1 DEF FedTo
  <2>3. ASSUME NEW i \in 0..k
        PROVE  f[i] = IF i = 0 THEN state ELSE Fed(f[i - 1], chunk[i])
    <3>1. CASE i = 0
      <4>1. i \in 0..k - 1 /\ i # k
        BY <3>1
      <4> QED BY <2>2, <3>1, <4>1
    <3>2. CASE i # 0 /\ i # k
      <4>1. i \in 0..k - 1 /\ i - 1 \in 0..k /\ i - 1 # k
        BY <3>2
      <4>2. f[i] = g[i] /\ f[i - 1] = g[i - 1]
        BY <3>2, <4>1
      <4> QED BY <2>2, <3>2, <4>1, <4>2
    <3>3. CASE i = k
      <4>1. k - 1 \in 0..k /\ k - 1 # k /\ k \in 0..k /\ k # 0
        OBVIOUS
      <4>2. f[k - 1] = g[k - 1] /\ f[k] = Fed(g[k - 1], chunk[k])
        BY <4>1
      <4> QED BY <3>3, <4>1, <4>2
    <3> QED BY <3>1, <3>2, <3>3
  <2>4. f = [i \in 0..k |-> f[i]]
    OBVIOUS
  <2> HIDE DEF f
  <2>5. FedTo(f, state, chunk, k)
    BY <2>3, <2>4 DEF FedTo
  <2>6. k \in 0..n
    OBVIOUS
  <2> QED BY <2>5, <2>6
<1> HIDE DEF S
<1>3. n \in S
  BY <1>1, <1>2, Upward
<1> QED BY <1>3 DEF S

Feeds(f, state, chunk, n) ==
    /\ f[0] = state /\ FedAll(state, chunk) = f[n]
    /\ \A k \in 1..n : f[k] = Fed(f[k - 1], chunk[k])

LEMMA FedIs ==
    ASSUME NEW state, NEW chunk, NEW n \in Nat, Len(chunk) = n
    PROVE  \E f : Feeds(f, state, chunk, n)
<1>1. \E f : FedTo(f, state, chunk, Len(chunk))
  BY FedExists
<1>2. PICK f : FedTo(f, state, chunk, Len(chunk)) /\ FedAll(state, chunk) = f[Len(chunk)]
  BY <1>1 DEF FedAll, FedTo
<1>3. \A k \in 0..n : f[k] = IF k = 0 THEN state ELSE Fed(f[k - 1], chunk[k])
  BY <1>2 DEF FedTo
<1>4. 0 \in 0..n /\ \A k \in 1..n : k \in 0..n /\ k # 0
  OBVIOUS
<1>5. f[0] = state /\ \A k \in 1..n : f[k] = Fed(f[k - 1], chunk[k])
  BY <1>3, <1>4
<1> QED BY <1>2, <1>5 DEF Feeds

LEMMA FedNothing == \A state : FedAll(state, <<>>) = state
<1> SUFFICES ASSUME NEW state PROVE FedAll(state, <<>>) = state
  OBVIOUS
<1>1. \E f : Feeds(f, state, <<>>, 0)
  <2>1. Len(<<>>) = 0 /\ 0 \in Nat
    OBVIOUS
  <2> QED BY <2>1, FedIs
<1> QED BY <1>1 DEF Feeds

LEMMA FedOneMore ==
    ASSUME NEW T, NEW chunk \in Seq(T), NEW p \in T, NEW state
    PROVE  FedAll(state, Append(chunk, p)) = Fed(FedAll(state, chunk), p)
<1> DEFINE n == Len(chunk)
           more == Append(chunk, p)
<1>1. n \in Nat /\ Len(more) = n + 1 /\ more[n + 1] = p /\ \A i \in 1..n : more[i] = chunk[i]
  OBVIOUS
<1> HIDE DEF more
<1>2. PICK f : Feeds(f, state, chunk, n)
  BY <1>1, FedIs
<1>3. PICK g : Feeds(g, state, more, n + 1)
  <2>1. n + 1 \in Nat
    BY <1>1
  <2> QED BY <1>1, <2>1, FedIs
<1> DEFINE S == {k \in 0..n : g[k] = f[k]}
<1>4. 0 \in S
  <2>1. 0 \in 0..n
    BY <1>1
  <2> QED BY <1>2, <1>3, <2>1 DEF Feeds
<1>5. ASSUME NEW k \in 1..n, k - 1 \in S PROVE k \in S
  <2>1. k \in 0..n /\ k \in 1..n + 1
    BY <1>1
  <2>2. f[k] = Fed(f[k - 1], chunk[k]) /\ g[k] = Fed(g[k - 1], more[k])
    BY <1>2, <1>3, <2>1 DEF Feeds
  <2> QED BY <1>1, <1>5, <2>1, <2>2
<1> HIDE DEF S
<1>6. n \in S
  BY <1>1, <1>4, <1>5, Upward
<1>7. n + 1 \in 1..n + 1 /\ n + 1 - 1 = n
  BY <1>1
<1>8. g[n + 1] = Fed(g[n], p)
  BY <1>1, <1>3, <1>7 DEF Feeds
<1>9. g[n] = f[n]
  BY <1>6 DEF S
<1> QED BY <1>2, <1>3, <1>8, <1>9 DEF Feeds, more

\* The beginnings of a sequence, one longer than the other.
LEMMA Beginnings ==
    ASSUME NEW T, NEW b \in Seq(T), NEW k \in 1..Len(b)
    PROVE  /\ SubSeq(b, 1, k - 1) \in Seq(T) /\ b[k] \in T
           /\ SubSeq(b, 1, k) = Append(SubSeq(b, 1, k - 1), b[k])
OBVIOUS

LEMMA FedBoth ==
    ASSUME NEW T, NEW a \in Seq(T), NEW b \in Seq(T), NEW state
    PROVE  FedAll(state, a \o b) = FedAll(FedAll(state, a), b)
<1> DEFINE n == Len(b)
           From(k) == SubSeq(b, 1, k)
           S == {k \in 0..n : FedAll(state, a \o From(k)) = FedAll(FedAll(state, a), From(k))}
<1>1. n \in Nat
  OBVIOUS
<1>2. 0 \in S
  <2>1. From(0) = <<>> /\ a \o <<>> = a /\ 0 \in 0..n
    OBVIOUS
  <2>2. FedAll(FedAll(state, a), <<>>) = FedAll(state, a)
    BY FedNothing
  <2> QED BY <2>1, <2>2
<1>3. ASSUME NEW k \in 1..n, k - 1 \in S PROVE k \in S
  <2> DEFINE c == From(k - 1)
             p == b[k]
  <2>1. c \in Seq(T) /\ p \in T /\ From(k) = Append(c, p)
    BY Beginnings
  <2>2. FedAll(state, a \o c) = FedAll(FedAll(state, a), c)
    BY <1>3
  <2>3. k \in 0..n
    BY <1>1
  <2> HIDE DEF c, p, From
  <2>4. a \o Append(c, p) = Append(a \o c, p) /\ a \o c \in Seq(T)
    BY <2>1
  <2>5. FedAll(state, Append(a \o c, p)) = Fed(FedAll(state, a \o c), p)
    BY <2>1, <2>4, FedOneMore
  <2>6. FedAll(FedAll(state, a), Append(c, p)) = Fed(FedAll(FedAll(state, a), c), p)
    BY <2>1, FedOneMore
  <2> QED BY <2>1, <2>2, <2>3, <2>4, <2>5, <2>6
<1> HIDE DEF S
<1>4. n \in S
  BY <1>1, <1>2, <1>3, Upward
<1>5. From(n) = b
  OBVIOUS
<1> QED BY <1>4, <1>5 DEF S

\* The words of ssh's output are found piece by piece as well.
WordsTo(f, pieces, n) ==
    f = [k \in 0..n |-> IF k = 0 THEN <<>>
                        ELSE IF pieces[k] \in {"nl", "debug"} THEN f[k - 1]
                        ELSE Append(f[k - 1], pieces[k])]

LEMMA WordsExist ==
    ASSUME NEW pieces, NEW n \in Nat
    PROVE  \E f : WordsTo(f, pieces, n)
<1> DEFINE Next1(words, k) == IF pieces[k] \in {"nl", "debug"} THEN words
                              ELSE Append(words, pieces[k])
           S == {k \in 0..n : \E f : WordsTo(f, pieces, k)}
<1>1. 0 \in S
  <2>1. WordsTo([i \in 0..0 |-> <<>>], pieces, 0)
    BY DEF WordsTo
  <2> QED BY <2>1
<1>2. ASSUME NEW k \in 1..n, k - 1 \in S PROVE k \in S
  <2>1. PICK g : WordsTo(g, pieces, k - 1)
    BY <1>2
  <2> DEFINE f == [i \in 0..k |-> IF i = k THEN Next1(g[k - 1], k) ELSE g[i]]
  <2>2. \A i \in 0..k - 1 : g[i] = IF i = 0 THEN <<>> ELSE Next1(g[i - 1], i)
    BY <2>1 DEF WordsTo
  <2> HIDE DEF Next1
  <2>3. ASSUME NEW i \in 0..k
        PROVE  f[i] = IF i = 0 THEN <<>> ELSE Next1(f[i - 1], i)
    <3>1. CASE i = 0
      <4>1. i \in 0..k - 1 /\ i # k
        BY <3>1
      <4> QED BY <2>2, <3>1, <4>1
    <3>2. CASE i # 0 /\ i # k
      <4>1. i \in 0..k - 1 /\ i - 1 \in 0..k /\ i - 1 # k
        BY <3>2
      <4>2. f[i] = g[i] /\ f[i - 1] = g[i - 1]
        BY <3>2, <4>1
      <4> QED BY <2>2, <3>2, <4>1, <4>2
    <3>3. CASE i = k
      <4>1. k - 1 \in 0..k /\ k - 1 # k /\ k \in 0..k /\ k # 0
        OBVIOUS
      <4>2. f[k - 1] = g[k - 1] /\ f[k] = Next1(g[k - 1], k)
        BY <4>1
      <4> QED BY <3>3, <4>1, <4>2
    <3> QED BY <3>1, <3>2, <3>3
  <2>4. f = [i \in 0..k |-> f[i]]
    OBVIOUS
  <2> HIDE DEF f
  <2>5. WordsTo(f, pieces, k)
    BY <2>3, <2>4 DEF WordsTo, Next1
  <2>6. k \in 0..n
    OBVIOUS
  <2> QED BY <2>5, <2>6
<1> HIDE DEF S
<1>3. n \in S
  BY <1>1, <1>2, Upward
<1> QED BY <1>3 DEF S

Words(f, pieces, n) ==
    /\ f[0] = <<>> /\ Worded(pieces) = f[n]
    /\ \A k \in 1..n : f[k] = IF pieces[k] \in {"nl", "debug"} THEN f[k - 1]
                              ELSE Append(f[k - 1], pieces[k])

LEMMA WordsAre ==
    ASSUME NEW pieces, NEW n \in Nat, Len(pieces) = n
    PROVE  \E f : Words(f, pieces, n)
<1>1. \E f : WordsTo(f, pieces, Len(pieces))
  BY WordsExist
<1>2. PICK f : WordsTo(f, pieces, Len(pieces)) /\ Worded(pieces) = f[Len(pieces)]
  BY <1>1 DEF Worded, WordsTo
<1>3. \A k \in 0..n : f[k] = IF k = 0 THEN <<>>
                             ELSE IF pieces[k] \in {"nl", "debug"} THEN f[k - 1]
                             ELSE Append(f[k - 1], pieces[k])
  BY <1>2 DEF WordsTo
<1>4. 0 \in 0..n /\ \A k \in 1..n : k \in 0..n /\ k # 0
  OBVIOUS
<1>5. f[0] = <<>> /\ \A k \in 1..n : f[k] = IF pieces[k] \in {"nl", "debug"} THEN f[k - 1]
                                            ELSE Append(f[k - 1], pieces[k])
  BY <1>3, <1>4
<1> QED BY <1>2, <1>5 DEF Words

LEMMA NoWords == Worded(<<>>) = <<>>
<1>1. Len(<<>>) = 0 /\ 0 \in Nat
  OBVIOUS
<1>2. \E f : Words(f, <<>>, 0)
  BY <1>1, WordsAre
<1> QED BY <1>2 DEF Words

LEMMA WordsOneMore ==
    ASSUME NEW T, NEW pieces \in Seq(T), NEW p \in T
    PROVE  Worded(Append(pieces, p)) = IF p \in {"nl", "debug"} THEN Worded(pieces)
                                       ELSE Append(Worded(pieces), p)
<1> DEFINE n == Len(pieces)
           more == Append(pieces, p)
<1>1. n \in Nat /\ Len(more) = n + 1 /\ more[n + 1] = p /\ \A i \in 1..n : more[i] = pieces[i]
  OBVIOUS
<1> HIDE DEF more
<1>2. PICK f : Words(f, pieces, n)
  BY <1>1, WordsAre
<1>3. PICK g : Words(g, more, n + 1)
  <2>1. n + 1 \in Nat
    BY <1>1
  <2> QED BY <1>1, <2>1, WordsAre
<1> DEFINE S == {k \in 0..n : g[k] = f[k]}
<1>4. 0 \in S
  <2>1. 0 \in 0..n
    BY <1>1
  <2> QED BY <1>2, <1>3, <2>1 DEF Words
<1>5. ASSUME NEW k \in 1..n, k - 1 \in S PROVE k \in S
  <2>1. k \in 0..n /\ k \in 1..n + 1
    BY <1>1
  <2>2. f[k] = IF pieces[k] \in {"nl", "debug"} THEN f[k - 1] ELSE Append(f[k - 1], pieces[k])
    BY <1>2 DEF Words
  <2>3. g[k] = IF more[k] \in {"nl", "debug"} THEN g[k - 1] ELSE Append(g[k - 1], more[k])
    BY <1>3, <2>1 DEF Words
  <2>4. more[k] = pieces[k] /\ g[k - 1] = f[k - 1]
    BY <1>1, <1>5
  <2> QED BY <2>1, <2>2, <2>3, <2>4
<1> HIDE DEF S
<1>6. n \in S
  BY <1>1, <1>4, <1>5, Upward
<1>7. n + 1 \in 1..n + 1 /\ n + 1 - 1 = n
  BY <1>1
<1>8. g[n + 1] = IF p \in {"nl", "debug"} THEN g[n] ELSE Append(g[n], p)
  BY <1>1, <1>3, <1>7 DEF Words
<1>9. g[n] = f[n]
  BY <1>6 DEF S
<1> QED BY <1>2, <1>3, <1>8, <1>9 DEF Words, more

\* The scanner and the sink, as typed values.
Pieces == Bodies \cup {"nl"}
Scans == [line : Bodies \cup {NoLine}, listening : BOOLEAN,
          state : {"pending", "ready", "failed"}]
States == [scan : Scans, sunk : Seq(Bodies \cup {NoLine})]
\* Has the scanner heard of an interactive session?
Heard(state) == state.scan.state = "ready" \/ state.scan.line = "interactive"

LEMMA FedTyped ==
    ASSUME NEW state \in States, NEW piece \in Pieces
    PROVE  /\ Fed(state, piece) \in States
           /\ Heard(Fed(state, piece)) => Heard(state) \/ piece = "interactive"
<1>1. state.scan \in Scans /\ state.sunk \in Seq(Bodies \cup {NoLine})
  BY DEF States
<1>2. CASE piece = "nl"
  <2> DEFINE line == state.scan.line
             next == Scan(state.scan, line)
             after == [next EXCEPT !.line = NoLine]
             passed == Delivered(state.sunk, line)
  <2>1. line \in Bodies \cup {NoLine}
    BY <1>1 DEF Scans
  <2>2. next \in Scans
    BY <1>1 DEF Scan, Scans
  <2>3. after \in Scans /\ after.state = next.state /\ after.line = NoLine
    BY <2>2 DEF Scans, NoLine
  <2>4. passed \in Seq(Bodies \cup {NoLine})
    BY <1>1, <2>1 DEF Delivered
  <2>5. Fed(state, piece) = [scan |-> after, sunk |-> passed]
    BY <1>2 DEF Fed
  <2>6. next.state = "ready" => state.scan.state = "ready" \/ line = "interactive"
    BY <1>1 DEF Scan, Scans
  <2> HIDE DEF line, next, after, passed
  <2>7. Fed(state, piece) \in States
    BY <2>3, <2>4, <2>5 DEF States
  <2>8. NoLine # "interactive"
    BY DEF NoLine
  <2>9. Heard(Fed(state, piece)) => next.state = "ready"
    BY <2>3, <2>5, <2>8 DEF Heard
  <2> QED BY <2>6, <2>7, <2>9 DEF Heard, line
<1>3. CASE piece # "nl"
  <2>1. piece \in Bodies
    BY <1>3 DEF Pieces
  <2>2. Fed(state, piece) = [state EXCEPT !.scan.line = piece]
    BY <1>3 DEF Fed
  <2>3. [state.scan EXCEPT !.line = piece] \in Scans
    BY <1>1, <2>1 DEF Scans
  <2>4. Fed(state, piece) = [state EXCEPT !.scan = [state.scan EXCEPT !.line = piece]]
    BY <2>2 DEF States
  <2>5. Fed(state, piece) \in States
    BY <2>3, <2>4 DEF States
  <2>6. Fed(state, piece).scan.state = state.scan.state /\ Fed(state, piece).scan.line = piece
    BY <1>1, <2>4 DEF States, Scans
  <2> QED BY <2>5, <2>6 DEF Heard
<1> QED BY <1>2, <1>3

\* What a chunk makes of them: it is the chunk that says so, if it was not said before.
LEMMA FedAllTyped ==
    ASSUME NEW state \in States, NEW chunk \in Seq(Pieces)
    PROVE  /\ FedAll(state, chunk) \in States
           /\ Heard(FedAll(state, chunk)) =>
                Heard(state) \/ \E i \in 1..Len(chunk) : chunk[i] = "interactive"
<1> DEFINE n == Len(chunk)
           Said == \E i \in 1..n : chunk[i] = "interactive"
<1>1. n \in Nat
  OBVIOUS
<1>2. PICK f : Feeds(f, state, chunk, n)
  BY <1>1, FedIs
<1> DEFINE S == {k \in 0..n : f[k] \in States /\ (Heard(f[k]) => Heard(state) \/ Said)}
<1>3. 0 \in S
  <2>1. 0 \in 0..n
    BY <1>1
  <2> QED BY <1>2, <2>1 DEF Feeds
<1>4. ASSUME NEW k \in 1..n, k - 1 \in S PROVE k \in S
  <2>1. f[k - 1] \in States /\ (Heard(f[k - 1]) => Heard(state) \/ Said)
    BY <1>4
  <2>2. f[k] = Fed(f[k - 1], chunk[k]) /\ chunk[k] \in Pieces /\ k \in 0..n
    BY <1>1, <1>2 DEF Feeds
  <2>3. f[k] \in States /\ (Heard(f[k]) => Heard(f[k - 1]) \/ chunk[k] = "interactive")
    BY <2>1, <2>2, FedTyped
  <2> QED BY <2>1, <2>2, <2>3
<1> HIDE DEF S
<1>5. n \in S
  BY <1>1, <1>3, <1>4, Upward
<1>6. FedAll(state, chunk) = f[n]
  BY <1>2 DEF Feeds
<1> QED BY <1>5, <1>6 DEF S

Now == [scan |-> scan, sunk |-> sunk]
Begin == [scan |-> [line |-> NoLine, listening |-> FALSE, state |-> "pending"],
          sunk |-> <<>>]

TunnelTypes ==
    /\ ssh \in Running \cup {"exited"}
    /\ said \in Seq(Pieces) /\ pipe \in Seq(Pieces) /\ pending_ \in Seq(Pieces)
    /\ Now \in States
    /\ reader \in {"top", "poll", "drain", "wake", "ending", "closing", "gone"}
    /\ stop_ \in BOOLEAN /\ ended_ \in BOOLEAN /\ drained_ \in BOOLEAN /\ dropped_ \in BOOLEAN
    /\ notify \in [bytes : BOOLEAN, read : BOOLEAN, write : BOOLEAN]

\* The thread ends behind the last byte of an ssh that is gone; the owner has the end of the
\* stream before it closes its descriptor, and before it returns without a yes.
EndsInv ==
    /\ ended_ <=> reader \in {"closing", "gone"}
    /\ reader \in {"ending", "closing", "gone"} => pipe = <<>> /\ ssh = "exited"
    /\ (reader = "drain" => stop_) /\ (stop_ => ssh = "exited")
    /\ (~notify.read => ended_) /\ (drained_ => ended_)
    /\ pc = "last" => ended_
    /\ pc = "done" => drained_ \/ result = "ready"

\* Between the two parts of take() there need be no wake-up, as the bytes come next.
WakeInv ==
    pending_ # <<>> /\ pc # "bytes" => notify.bytes \/ reader = "wake" \/ ~notify.write

\* What the scanner heard of, or may still, ssh said once it had bound.
Interactive(pieces) == \E i \in 1..Len(pieces) : pieces[i] = "interactive"
HeardInv ==
    /\ Interactive(said) => ssh \in {"session", "exited"}
    /\ Interactive(pipe) \/ Interactive(pending_) \/ Heard(Now) => Interactive(said)

\* What ssh said is whole lines while it may say more, and the words of those lines and of
\* what is behind them.
Spoken(state) == IF state.scan.line = NoLine THEN state.sunk
                 ELSE Delivered(state.sunk, state.scan.line)
SpeaksWell(s, stage) ==
    /\ stage \in {"connecting", "listens", "bound"} => FedAll(Begin, s).scan.line = NoLine
    /\ Worded(s) = Spoken(FedAll(Begin, s))

\* What is not dropped is on its way from ssh to the sink, in order.
Flows(now, waits, comes, s) == FedAll(now, waits \o comes) = FedAll(Begin, s)
WordsInv ==
    /\ SpeaksWell(said, ssh)
    /\ ~dropped_ /\ ~drained_ => Flows(Now, pending_, pipe, said)
    /\ ~dropped_ /\ drained_ => pending_ = <<>> /\ scan.line = NoLine /\ sunk = Worded(said)

TunnelInv == TunnelTypes /\ EndsInv /\ WakeInv /\ HeardInv /\ WordsInv

LEMMA BeginTyped == Begin \in States
BY DEF Begin, States, Scans

\* A line of ssh's, and a last one without an end.
LEMMA LineSpoken ==
    ASSUME NEW s \in Seq(Pieces), NEW body \in Bodies,
           FedAll(Begin, s).scan.line = NoLine, Worded(s) = Spoken(FedAll(Begin, s))
    PROVE  \A stage : SpeaksWell(s \o <<body, "nl">>, stage)
<1> DEFINE w == FedAll(Begin, s)
           one == Append(s, body)
           two == Append(one, "nl")
           after == Fed(w, body)
           end == Fed(after, "nl")
<1>1. body \in Pieces /\ "nl" \in Pieces /\ body # "nl" /\ body # NoLine
  BY DEF Pieces, Bodies, NoLine
<1>2. s \o <<body, "nl">> = two /\ one \in Seq(Pieces)
  BY <1>1
<1>3. FedAll(Begin, one) = after
  BY <1>1, FedOneMore
<1>4. w \in States
  BY BeginTyped, FedAllTyped
<1>5. Worded(s) = w.sunk
  BY DEF Spoken
<1>6. Worded(one) = IF body = "debug" THEN w.sunk ELSE Append(w.sunk, body)
  BY <1>1, <1>5, WordsOneMore
<1>7. after \in States /\ after.scan.line = body /\ after.sunk = w.sunk
  <2>1. after = [w EXCEPT !.scan.line = body]
    BY <1>1 DEF Fed
  <2>2. after \in States
    BY <1>1, <1>4, FedTyped
  <2>3. w.scan \in Scans
    BY <1>4 DEF States
  <2> HIDE DEF w
  <2>4. after.scan.line = body /\ after.sunk = w.sunk
    BY <1>4, <2>1, <2>3 DEF States, Scans
  <2> QED BY <2>2, <2>4
<1> HIDE DEF w, one, after
<1>8. FedAll(Begin, two) = end
  BY <1>1, <1>2, <1>3, FedOneMore
<1>9. Worded(two) = Worded(one)
  BY <1>1, <1>2, WordsOneMore
<1>10. end.scan.line = NoLine /\ end.sunk = Delivered(w.sunk, body)
  <2> DEFINE next == Scan(after.scan, after.scan.line)
  <2>1. end = [scan |-> [next EXCEPT !.line = NoLine], sunk |-> Delivered(after.sunk, body)]
    BY <1>7 DEF Fed
  <2>2. next \in Scans
    <3>1. after.scan \in Scans
      BY <1>7 DEF States
    <3> QED BY <3>1 DEF Scan, Scans
  <2> HIDE DEF next, end
  <2>3. [next EXCEPT !.line = NoLine].line = NoLine
    BY <2>2 DEF Scans
  <2> QED BY <1>7, <2>1, <2>3
<1> HIDE DEF end
<1>11. Worded(two) = end.sunk
  BY <1>6, <1>9, <1>10 DEF Delivered
<1> HIDE DEF two
<1> QED BY <1>2, <1>8, <1>10, <1>11 DEF SpeaksWell, Spoken

LEMMA LastSpoken ==
    ASSUME NEW s \in Seq(Pieces), NEW body \in Bodies, body # "debug",
           FedAll(Begin, s).scan.line = NoLine, Worded(s) = Spoken(FedAll(Begin, s))
    PROVE  SpeaksWell(s \o <<body>>, "leaving")
<1> DEFINE w == FedAll(Begin, s)
           one == Append(s, body)
           after == Fed(w, body)
<1>1. body \in Pieces /\ body # "nl" /\ body # NoLine
  BY DEF Pieces, Bodies, NoLine
<1>2. s \o <<body>> = one
  BY <1>1
<1>3. FedAll(Begin, one) = after
  BY <1>1, FedOneMore
<1>4. w \in States
  BY BeginTyped, FedAllTyped
<1>5. Worded(s) = w.sunk
  BY DEF Spoken
<1>6. Worded(one) = Append(w.sunk, body)
  BY <1>1, <1>5, WordsOneMore
<1>7. after.scan.line = body /\ after.sunk = w.sunk
  <2>1. after = [w EXCEPT !.scan.line = body]
    BY <1>1 DEF Fed
  <2>2. w.scan \in Scans
    BY <1>4 DEF States
  <2> HIDE DEF w
  <2> QED BY <1>4, <2>1, <2>2 DEF States, Scans
<1> HIDE DEF w, one, after
<1> QED BY <1>1, <1>2, <1>3, <1>6, <1>7 DEF SpeaksWell, Spoken, Delivered

\* Whoever adds to what ssh said, or moves it on, keeps the order.
LEMMA FlowsOn ==
    ASSUME NEW now, NEW waits \in Seq(Pieces), NEW comes \in Seq(Pieces),
           NEW s \in Seq(Pieces), NEW w \in Seq(Pieces), Flows(now, waits, comes, s)
    PROVE  Flows(now, waits, comes \o w, s \o w)
<1>1. waits \o (comes \o w) = (waits \o comes) \o w /\ waits \o comes \in Seq(Pieces)
  OBVIOUS
<1>2. FedAll(now, (waits \o comes) \o w) = FedAll(FedAll(now, waits \o comes), w)
  BY <1>1, FedBoth
<1>3. FedAll(Begin, s \o w) = FedAll(FedAll(Begin, s), w)
  BY FedBoth
<1> QED BY <1>1, <1>2, <1>3 DEF Flows

LEMMA FlowsTaken ==
    ASSUME NEW now, NEW waits \in Seq(Pieces), NEW comes \in Seq(Pieces), NEW s,
           Flows(now, waits, comes, s)
    PROVE  Flows(FedAll(now, waits), <<>>, comes, s)
<1>1. <<>> \o comes = comes
  OBVIOUS
<1>2. FedAll(now, waits \o comes) = FedAll(FedAll(now, waits), comes)
  BY FedBoth
<1> QED BY <1>1, <1>2 DEF Flows

LEMMA InteractiveParts ==
    ASSUME NEW a \in Seq(Pieces), NEW b \in Seq(Pieces)
    PROVE  Interactive(a \o b) <=> Interactive(a) \/ Interactive(b)
<1> DEFINE c == a \o b
           m == Len(a)
           n == Len(b)
<1>1. /\ m \in Nat /\ n \in Nat /\ Len(c) = m + n
      /\ \A i \in 1..m : c[i] = a[i]
      /\ \A i \in 1..n : c[m + i] = b[i]
  OBVIOUS
<1> HIDE DEF c, m, n
<1>2. /\ \A i \in 1..m : i \in 1..m + n
      /\ \A i \in 1..n : m + i \in 1..m + n
      /\ \A i \in 1..m + n : i \in 1..m \/ (i - m \in 1..n /\ m + (i - m) = i)
  BY <1>1
<1>3. Interactive(c) <=> \E i \in 1..m + n : c[i] = "interactive"
  BY <1>1 DEF Interactive
<1>4. (\E i \in 1..m + n : c[i] = "interactive")
        <=> (\E i \in 1..m : a[i] = "interactive") \/ (\E i \in 1..n : b[i] = "interactive")
  <2>1. ASSUME NEW i \in 1..m + n, c[i] = "interactive"
        PROVE  (\E j \in 1..m : a[j] = "interactive") \/ (\E j \in 1..n : b[j] = "interactive")
    <3>1. CASE i \in 1..m
      BY <1>1, <2>1, <3>1
    <3>2. CASE i - m \in 1..n /\ m + (i - m) = i
      <4>1. c[m + (i - m)] = b[i - m]
        BY <1>1, <3>2
      <4> QED BY <2>1, <3>2, <4>1
    <3> QED BY <1>2, <3>1, <3>2
  <2>2. ASSUME NEW i \in 1..m, a[i] = "interactive"
        PROVE  \E j \in 1..m + n : c[j] = "interactive"
    BY <1>1, <1>2, <2>2
  <2>3. ASSUME NEW i \in 1..n, b[i] = "interactive"
        PROVE  \E j \in 1..m + n : c[j] = "interactive"
    BY <1>1, <1>2, <2>3
  <2> QED BY <2>1, <2>2, <2>3
<1> QED BY <1>3, <1>4 DEF Interactive, c, m, n

LEMMA TunnelStarts0 == TunnelInit => TunnelInv
<1> SUFFICES ASSUME TunnelInit PROVE TunnelInv
  OBVIOUS
<1>1. Now = Begin
  BY DEF TunnelInit, Now, Begin
<1>2. FedAll(Begin, <<>>) = Begin /\ <<>> \o <<>> = <<>>
  BY FedNothing
<1>3. said = <<>> /\ pipe = <<>> /\ pending_ = <<>> /\ ssh = "connecting" /\ ~drained_
  BY DEF TunnelInit
<1>4. TunnelTypes
  <2>1. <<>> \in Seq(Pieces) /\ "connecting" \in Running /\ said = <<>>
    BY <1>3 DEF Running
  <2>2. reader = "top" /\ ~stop_ /\ ~ended_ /\ ~dropped_ /\ stop_ \in BOOLEAN
        /\ ended_ \in BOOLEAN /\ drained_ \in BOOLEAN /\ dropped_ \in BOOLEAN
    BY DEF TunnelInit
  <2>3. notify \in [bytes : BOOLEAN, read : BOOLEAN, write : BOOLEAN]
    BY DEF TunnelInit
  <2>4. Now \in States
    BY <1>1, BeginTyped
  <2> QED BY <1>3, <2>1, <2>2, <2>3, <2>4 DEF TunnelTypes
<1>5. EndsInv /\ WakeInv
  BY DEF TunnelInit, EndsInv, WakeInv
<1>6. HeardInv
  <2>1. ~Interactive(<<>>)
    BY DEF Interactive
  <2>2. ~Heard(Now)
    BY <1>1 DEF Heard, Begin, NoLine
  <2> QED BY <1>3, <2>1, <2>2 DEF HeardInv
<1>7. WordsInv
  <2>1. Begin.scan.line = NoLine /\ Begin.sunk = <<>>
    BY DEF Begin
  <2>2. SpeaksWell(<<>>, "connecting")
    BY <1>2, <2>1, NoWords DEF SpeaksWell, Spoken
  <2> QED BY <1>1, <1>2, <1>3, <2>2 DEF WordsInv, Flows
<1> QED BY <1>4, <1>5, <1>6, <1>7 DEF TunnelInv

\* What ssh writes, and the stage it is in behind it.
LEMMA WritesKeep ==
    ASSUME TunnelInv, NEW w \in Seq(Pieces), said' = said \o w, pipe' = pipe \o w,
           ssh # "exited", ssh' \in Running, SpeaksWell(said \o w, ssh'),
           Interactive(said \o w) => ssh' = "session",
           UNCHANGED <<captureVars, notify, ownerVars>>
    PROVE  TunnelInv'
<1>t. TunnelTypes /\ EndsInv /\ WakeInv /\ HeardInv /\ WordsInv
  BY DEF TunnelInv
<1>s. UNCHANGED <<reader, ended_, pending_, dropped_, notify, stop_, drained_, pc, scan, sunk,
                  result>>
  BY DEF captureVars, ownerVars
<1>n. Now' = Now
  BY <1>s DEF Now
<1>1. reader \notin {"ending", "closing", "gone"} /\ ~stop_ /\ ~ended_ /\ ~drained_
  BY <1>t DEF EndsInv, TunnelTypes
<1>2. TunnelTypes'
  BY <1>t, <1>s, <1>n DEF TunnelTypes
<1>3. EndsInv' /\ WakeInv'
  BY <1>t, <1>s, <1>1 DEF EndsInv, WakeInv
<1>4. HeardInv'
  <2>1. /\ Interactive(said \o w) <=> Interactive(said) \/ Interactive(w)
        /\ Interactive(pipe \o w) <=> Interactive(pipe) \/ Interactive(w)
    BY <1>t, InteractiveParts DEF TunnelTypes
  <2>2. Interactive(said') <=> Interactive(said \o w)
    OBVIOUS
  <2>3. Interactive(pipe') <=> Interactive(pipe \o w)
    OBVIOUS
  <2> QED BY <1>t, <1>s, <1>n, <2>1, <2>2, <2>3 DEF HeardInv
<1>5. WordsInv'
  <2>1. Flows(Now, pending_, pipe, said) => Flows(Now, pending_, pipe \o w, said \o w)
    BY <1>t, FlowsOn DEF TunnelTypes
  <2> QED BY <1>t, <1>s, <1>n, <1>1, <2>1 DEF WordsInv
<1> QED BY <1>2, <1>3, <1>4, <1>5 DEF TunnelInv

\* A step that neither speaks, reads nor feeds: ssh's, or one of the owner's, which may end it.
MovesOn ==
    /\ UNCHANGED <<said, pipe, reader, ended_, pending_, dropped_, drained_, scan, sunk>>
    /\ \/ ssh' = ssh /\ stop_' = stop_
       \/ ssh = "listens" /\ ssh' = "bound" /\ stop_' = stop_
       \/ ssh' = "exited" /\ (stop_' = stop_ \/ stop_' = TRUE)
    /\ \/ notify' = notify
       \/ notify' = [notify EXCEPT !.bytes = FALSE] /\ pc' = "bytes"
    /\ \/ pc' = pc /\ result' = result
       \/ /\ pc # "bytes" /\ (pc' = "last" => ended_)
          /\ pc' = "done" => drained_ \/ result' = "ready"

LEMMA MovesKeep ==
    ASSUME TunnelInv, MovesOn
    PROVE  TunnelInv'
<1>t. TunnelTypes /\ EndsInv /\ WakeInv /\ HeardInv /\ WordsInv
  BY DEF TunnelInv
<1>s. UNCHANGED <<said, pipe, reader, ended_, pending_, dropped_, drained_, scan, sunk>>
  BY DEF MovesOn
<1>m. /\ \/ ssh' = ssh /\ stop_' = stop_
         \/ ssh = "listens" /\ ssh' = "bound" /\ stop_' = stop_
         \/ ssh' = "exited" /\ (stop_' = stop_ \/ stop_' = TRUE)
      /\ \/ notify' = notify
         \/ notify' = [notify EXCEPT !.bytes = FALSE] /\ pc' = "bytes"
      /\ \/ pc' = pc /\ result' = result
         \/ /\ pc # "bytes" /\ (pc' = "last" => ended_)
            /\ pc' = "done" => drained_ \/ result' = "ready"
  BY DEF MovesOn
<1>n. Now' = Now
  BY <1>s DEF Now
<1>1. notify \in [bytes : BOOLEAN, read : BOOLEAN, write : BOOLEAN]
  BY <1>t DEF TunnelTypes
<1>2. /\ notify' \in [bytes : BOOLEAN, read : BOOLEAN, write : BOOLEAN]
      /\ notify'.read = notify.read /\ notify'.write = notify.write
      /\ notify'.bytes = notify.bytes \/ pc' = "bytes"
  BY <1>m, <1>1
<1>3. TunnelTypes'
  BY <1>t, <1>m, <1>s, <1>n, <1>2 DEF TunnelTypes, Running
<1>4. ssh = "exited" => ssh' = "exited"
  BY <1>m
<1>5. EndsInv'
  <2>1. (stop_ => stop_') /\ (stop_' => stop_ \/ ssh' = "exited")
    BY <1>m
  <2>2. (pc' = "last" => ended_) /\ (pc' = "done" => drained_ \/ result' = "ready")
    BY <1>m, <1>t DEF EndsInv
  <2> QED BY <1>t, <1>s, <1>2, <1>4, <2>1, <2>2 DEF EndsInv
<1>6. WakeInv'
  <2>1. pc' # "bytes" => pc # "bytes"
    BY <1>m
  <2> QED BY <1>t, <1>s, <1>2, <2>1 DEF WakeInv
<1>7. HeardInv'
  <2>1. Interactive(said) => ssh' \in {"session", "exited"}
    BY <1>m, <1>t DEF HeardInv
  <2> QED BY <1>t, <1>s, <1>n, <2>1 DEF HeardInv
<1>8. WordsInv'
  <2>1. SpeaksWell(said, ssh)
    BY <1>t DEF WordsInv
  <2>2. PICK stage : stage = ssh'
    OBVIOUS
  <2>3. SpeaksWell(said, stage)
    BY <1>m, <2>1, <2>2 DEF SpeaksWell
  <2> QED BY <1>t, <1>s, <1>n, <2>2, <2>3 DEF WordsInv
<1> QED BY <1>3, <1>5, <1>6, <1>7, <1>8 DEF TunnelInv

LEMMA SshKeeps == TunnelInv /\ Ssh => TunnelInv'
<1> SUFFICES ASSUME TunnelInv, Ssh PROVE TunnelInv'
  OBVIOUS
<1>t. /\ said \in Seq(Pieces) /\ SpeaksWell(said, ssh)
      /\ Interactive(said) => ssh \in {"session", "exited"}
  BY DEF TunnelInv, TunnelTypes, WordsInv, HeardInv
<1>u. UNCHANGED <<holder, captureVars, notify, ownerVars, cancelled_, late>>
  BY DEF Ssh
<1>s. SshSpeaks
  BY DEF Ssh
<1>w. \A body \in Bodies : <<body, "nl">> \in Seq(Pieces) /\ <<body>> \in Seq(Pieces)
  <2> SUFFICES ASSUME NEW body \in Bodies
               PROVE  <<body, "nl">> \in Seq(Pieces) /\ <<body>> \in Seq(Pieces)
    OBVIOUS
  <2>1. body \in Pieces /\ "nl" \in Pieces
    BY DEF Pieces
  <2> QED BY <2>1
<1>p. ASSUME ssh \in {"connecting", "listens", "bound"}
      PROVE  FedAll(Begin, said).scan.line = NoLine /\ Worded(said) = Spoken(FedAll(Begin, said))
  BY <1>t, <1>p DEF SpeaksWell
<1>i. ASSUME NEW w \in Seq(Pieces), ssh \in {"connecting", "listens", "bound"},
             Interactive(said \o w), ~Interactive(w)
      PROVE  FALSE
  BY <1>t, <1>i, InteractiveParts
<1>l. ASSUME NEW body \in Bodies, Says(body), ssh \in {"connecting", "listens", "bound"},
             ssh' \in Running, body = "interactive" => ssh' = "session"
      PROVE  TunnelInv'
  <2> DEFINE w == <<body, "nl">>
  <2>1. said' = said \o w /\ pipe' = pipe \o w /\ w \in Seq(Pieces)
    BY <1>l, <1>w DEF Says, Writes
  <2>2. \A stage : SpeaksWell(said \o w, stage)
    BY <1>t, <1>l, <1>p, LineSpoken
  <2>3. Interactive(w) => body = "interactive"
    BY DEF Interactive
  <2> HIDE DEF w
  <2>4. Interactive(said \o w) => ssh' = "session"
    BY <1>i, <1>l, <2>1, <2>3
  <2>5. PICK stage : stage = ssh'
    OBVIOUS
  <2>6. SpeaksWell(said \o w, ssh')
    BY <2>2, <2>5
  <2> QED BY <1>u, <1>l, <2>1, <2>4, <2>6, WritesKeep
<1>1. CASE ssh \in {"connecting", "bound"} /\ (\E body \in {"debug", "warning"} : Says(body))
           /\ UNCHANGED <<ssh, bound>>
  <2>1. PICK body \in {"debug", "warning"} : Says(body)
    BY <1>1
  <2>2. body \in Bodies /\ body # "interactive"
    BY DEF Bodies
  <2>3. ssh' \in Running /\ ssh \in {"connecting", "listens", "bound"}
    BY <1>1 DEF Running
  <2> QED BY <1>l, <2>1, <2>2, <2>3
<1>2. CASE ssh = "connecting" /\ Says("listening") /\ ssh' = "listens"
  BY <1>2, <1>l DEF Bodies, Running
<1>3. CASE ssh = "connecting" /\ Says("refused") /\ ssh' = "leaving"
  BY <1>3, <1>l DEF Bodies, Running
<1>4. CASE ssh = "connecting" /\ Writes(<<"refused">>) /\ ssh' = "leaving"
  <2> DEFINE w == <<"refused">>
  <2>1. said' = said \o w /\ pipe' = pipe \o w /\ w \in Seq(Pieces)
    BY <1>4, <1>w DEF Writes, Bodies
  <2>2. SpeaksWell(said \o w, "leaving")
    <3>1. "refused" \in Bodies /\ "refused" # "debug"
      BY DEF Bodies
    <3> QED BY <1>t, <1>p, <1>4, <3>1, LastSpoken
  <2>3. ~Interactive(w)
    BY DEF Interactive
  <2> HIDE DEF w
  <2>4. ~Interactive(said \o w)
    BY <1>4, <1>i, <2>1, <2>3
  <2>5. SpeaksWell(said \o w, ssh')
    BY <1>4, <2>2
  <2>6. ssh' \in Running /\ ssh # "exited"
    BY <1>4 DEF Running
  <2> QED BY <1>u, <2>1, <2>4, <2>5, <2>6, WritesKeep
<1>5. CASE ssh = "listens" /\ Says("bind_failed") /\ ssh' = "leaving"
  BY <1>5, <1>l DEF Bodies, Running
<1>6. CASE ssh = "bound" /\ Says("interactive") /\ ssh' = "session"
  BY <1>6, <1>l DEF Bodies, Running
<1>7. CASE \/ ssh = "connecting" /\ Says("listening") /\ ssh' = "listens" /\ UNCHANGED bound
           \/ ssh = "listens" /\ Says("bind_failed") /\ ssh' = "leaving" /\ UNCHANGED bound
           \/ ssh = "bound" /\ Says("interactive") /\ ssh' = "session" /\ UNCHANGED bound
  BY <1>7, <1>2, <1>5, <1>6, Zenon
<1>8. CASE /\ ssh = "connecting" /\ (Says("refused") \/ Writes(<<"refused">>))
           /\ ssh' = "leaving" /\ UNCHANGED bound
  BY <1>8, <1>3, <1>4, Zenon
<1>9. CASE \/ /\ ssh = "listens" /\ bound' = TRUE /\ ssh' = "bound" /\ UNCHANGED <<said, pipe>>
            \/ /\ ssh \in Running /\ ssh' = "exited" /\ bound' = FALSE
               /\ UNCHANGED <<said, pipe>>
  <2>1. MovesOn
    BY <1>9, <1>u DEF MovesOn, captureVars, ownerVars
  <2> QED BY <2>1, MovesKeep
<1> QED BY <1>s, <1>1, <1>7, <1>8, <1>9, Zenon DEF SshSpeaks

\* A sequence cut in two, and the end of one.
LEMMA CutInTwo ==
    ASSUME NEW q \in Seq(Pieces), NEW n \in 1..Len(q)
    PROVE  /\ SubSeq(q, 1, n) \in Seq(Pieces) /\ SubSeq(q, n + 1, Len(q)) \in Seq(Pieces)
           /\ q = SubSeq(q, 1, n) \o SubSeq(q, n + 1, Len(q))
OBVIOUS

LEMMA EndOf ==
    ASSUME NEW q \in Seq(Pieces), NEW k \in 0..Len(q)
    PROVE  /\ SubSeq(q, k + 1, Len(q)) \in Seq(Pieces)
           /\ Interactive(SubSeq(q, k + 1, Len(q))) => Interactive(q)
           /\ k = 0 => SubSeq(q, k + 1, Len(q)) = q
<1> DEFINE r == SubSeq(q, k + 1, Len(q))
<1>1. r \in Seq(Pieces) /\ Len(r) = Len(q) - k /\ \A i \in 1..Len(r) : r[i] = q[k + i]
  OBVIOUS
<1>2. k = 0 => r = q
  OBVIOUS
<1> HIDE DEF r
<1>3. \A i \in 1..Len(r) : k + i \in 1..Len(q)
  BY <1>1
<1>4. Interactive(r) => Interactive(q)
  BY <1>1, <1>3 DEF Interactive
<1> QED BY <1>1, <1>2, <1>4 DEF r

LEMMA ReaderKeeps == TunnelInv /\ Reader => TunnelInv'
<1> SUFFICES ASSUME TunnelInv, Reader PROVE TunnelInv'
  OBVIOUS
<1>t. TunnelTypes /\ EndsInv /\ WakeInv /\ HeardInv /\ WordsInv
  BY DEF TunnelInv
<1>s. UNCHANGED <<ssh, said, stop_, drained_, pc, scan, sunk, result>>
  BY DEF Reader, sshVars, ownerVars
<1>n. Now' = Now
  BY <1>s DEF Now
<1>p. pc # "done"
  BY DEF Reader
<1>i. pipe' = pipe /\ pending_' = pending_ => HeardInv'
  BY <1>t, <1>s, <1>n DEF HeardInv
<1>w. pipe' = pipe /\ pending_' = pending_ /\ dropped_' = dropped_ => WordsInv'
  BY <1>t, <1>s, <1>n DEF WordsInv
<1>1. CASE ReaderLooks
  <2>1. UNCHANGED <<pipe, ended_, pending_, dropped_, notify>> /\ reader = "top"
        /\ reader' = IF stop_ THEN "drain" ELSE "poll"
    BY <1>1 DEF ReaderLooks
  <2>2. TunnelTypes'
    BY <1>t, <1>s, <1>n, <2>1 DEF TunnelTypes
  <2>3. EndsInv' /\ WakeInv'
    BY <1>t, <1>s, <2>1 DEF EndsInv, WakeInv
  <2> QED BY <1>i, <1>w, <2>1, <2>2, <2>3 DEF TunnelInv
<1>2. CASE (PollEnds \/ DrainEnds) /\ UNCHANGED <<pipe, ended_, pending_, dropped_, notify>>
  <2>1. /\ reader \in {"poll", "drain"} /\ pipe = <<>>
        /\ \/ reader' \in {"top", "poll"}
           \/ reader' = "ending" /\ (ssh = "exited" \/ reader = "drain")
    BY <1>2 DEF PollEnds, DrainEnds, HungUp
  <2>2. TunnelTypes'
    BY <1>t, <1>s, <1>n, <1>2, <2>1 DEF TunnelTypes
  <2>3. EndsInv' /\ WakeInv'
    BY <1>t, <1>s, <1>2, <2>1 DEF EndsInv, WakeInv
  <2> QED BY <1>i, <1>w, <1>2, <2>2, <2>3 DEF TunnelInv
<1>3. ASSUME NEW n \in 1..Len(pipe), Reads(n) PROVE TunnelInv'
  <2> DEFINE got == SubSeq(pipe, 1, n)
             rest == SubSeq(pipe, n + 1, Len(pipe))
             all == pending_ \o got
             excess == IF Len(all) > Capacity THEN Len(all) - Capacity ELSE 0
             kept == SubSeq(all, excess + 1, Len(all))
  <2>1. /\ reader \in {"poll", "drain"} /\ pipe' = rest /\ pending_' = kept
        /\ dropped_' = (dropped_ \/ excess > 0) /\ reader' = "wake"
        /\ UNCHANGED <<ended_, notify>>
    BY <1>3 DEF Reads
  <2>2. pipe \in Seq(Pieces) /\ pending_ \in Seq(Pieces)
    BY <1>t DEF TunnelTypes
  <2>3. got \in Seq(Pieces) /\ rest \in Seq(Pieces) /\ pipe = got \o rest
    BY <2>2, CutInTwo
  <2> HIDE DEF got, rest
  <2>4. all \in Seq(Pieces) /\ all \o rest = pending_ \o pipe
    BY <2>2, <2>3
  <2> HIDE DEF all
  <2>5. excess \in 0..Len(all) /\ (excess > 0) \in BOOLEAN
    <3>1. Len(all) \in Nat /\ Capacity \in Nat
      BY <2>4, TunnelAssumption
    <3> QED BY <3>1
  <2> HIDE DEF excess
  <2>6. kept \in Seq(Pieces) /\ (Interactive(kept) => Interactive(all))
        /\ (excess = 0 => kept = all)
    BY <2>4, <2>5, EndOf
  <2> HIDE DEF kept
  <2>7. TunnelTypes'
    BY <1>t, <1>s, <1>n, <2>1, <2>3, <2>5, <2>6 DEF TunnelTypes
  <2>8. ~ended_ /\ ~drained_
    BY <1>t, <2>1 DEF EndsInv
  <2>9. EndsInv' /\ WakeInv'
    BY <1>t, <1>s, <1>p, <2>1, <2>8 DEF EndsInv, WakeInv
  <2>10. HeardInv'
    <3>1. Interactive(rest) \/ Interactive(kept) => Interactive(pipe) \/ Interactive(pending_)
      <4>1. Interactive(all) <=> Interactive(pending_) \/ Interactive(got)
        BY <2>2, <2>3, InteractiveParts DEF all
      <4>2. Interactive(pipe) <=> Interactive(got) \/ Interactive(rest)
        BY <2>3, InteractiveParts
      <4> QED BY <2>6, <4>1, <4>2
    <3> QED BY <1>t, <1>s, <1>n, <2>1, <3>1 DEF HeardInv
  <2>11. WordsInv'
    <3>1. SpeaksWell(said, ssh)
      BY <1>t DEF WordsInv
    <3>2. ASSUME ~dropped_' PROVE Flows(Now, kept, rest, said)
      <4>0. ~(dropped_ \/ excess > 0)
        BY <2>1, <3>2
      <4>e. ~(excess > 0) => excess = 0
        BY <2>4, <2>5
      <4>1. ~dropped_ /\ excess = 0
        BY <4>0, <4>e
      <4>2. Flows(Now, pending_, pipe, said)
        BY <1>t, <2>8, <4>1 DEF WordsInv
      <4>3. kept = all
        BY <2>6, <4>1
      <4> QED BY <2>4, <4>2, <4>3 DEF Flows
    <3> QED BY <1>s, <1>n, <2>1, <2>8, <3>1, <3>2 DEF WordsInv
  <2> QED BY <2>7, <2>9, <2>10, <2>11 DEF TunnelInv
<1>4. CASE ReaderWakes
  <2>1. /\ reader = "wake" /\ reader' = "top" /\ notify' = [notify EXCEPT !.bytes = notify.read]
        /\ UNCHANGED <<pipe, ended_, pending_, dropped_>>
    BY <1>4 DEF ReaderWakes
  <2>2. notify \in [bytes : BOOLEAN, read : BOOLEAN, write : BOOLEAN] /\ notify.read
    BY <1>t, <2>1 DEF TunnelTypes, EndsInv
  <2>3. notify' \in [bytes : BOOLEAN, read : BOOLEAN, write : BOOLEAN]
        /\ notify'.bytes /\ notify'.read
    BY <2>1, <2>2
  <2>4. TunnelTypes'
    BY <1>t, <1>s, <1>n, <2>1, <2>3 DEF TunnelTypes
  <2>5. EndsInv' /\ WakeInv'
    BY <1>t, <1>s, <2>1, <2>3 DEF EndsInv, WakeInv
  <2> QED BY <1>i, <1>w, <2>1, <2>4, <2>5 DEF TunnelInv
<1>5. CASE ReaderEnds /\ UNCHANGED <<pipe, pending_, dropped_>>
  <2>1. \/ reader = "ending" /\ ended_' = TRUE /\ reader' = "closing" /\ notify' = notify
        \/ /\ reader = "closing" /\ notify' = [notify EXCEPT !.write = FALSE]
           /\ reader' = "gone" /\ ended_' = ended_
    BY <1>5 DEF ReaderEnds
  <2>2. notify \in [bytes : BOOLEAN, read : BOOLEAN, write : BOOLEAN]
    BY <1>t DEF TunnelTypes
  <2>3. /\ notify' \in [bytes : BOOLEAN, read : BOOLEAN, write : BOOLEAN]
        /\ notify'.read = notify.read /\ notify'.bytes = notify.bytes
        /\ notify'.write => notify.write
    BY <2>1, <2>2
  <2>4. TunnelTypes'
    BY <1>t, <1>s, <1>n, <1>5, <2>1, <2>3 DEF TunnelTypes
  <2>5. EndsInv' /\ WakeInv'
    BY <1>t, <1>s, <1>5, <2>1, <2>3 DEF EndsInv, WakeInv
  <2> QED BY <1>i, <1>w, <1>5, <2>4, <2>5 DEF TunnelInv
<1> QED BY <1>1, <1>2, <1>3, <1>4, <1>5 DEF Reader

\* The owner takes what is there and feeds it, and the end of the stream with it.
LEMMA TakesKeep ==
    ASSUME TunnelInv, NEW next, TakeBytes(next), pc \in {"bytes", "last"},
           next \in {"look", "done"}, pc = "last" <=> next = "done",
           UNCHANGED <<ssh, said, pipe, reader, ended_, dropped_, stop_, result>>
    PROVE  TunnelInv'
<1>t. TunnelTypes /\ EndsInv /\ WakeInv /\ HeardInv /\ WordsInv
  BY DEF TunnelInv
<1>y. /\ Now \in States /\ pending_ \in Seq(Pieces) /\ pipe \in Seq(Pieces)
      /\ ended_ \in BOOLEAN /\ notify \in [bytes : BOOLEAN, read : BOOLEAN, write : BOOLEAN]
  BY <1>t DEF TunnelTypes
<1> DEFINE all == FedAll(Now, Taken)
           full == IF ended_ /\ all.scan.line # NoLine THEN Fed(all, "nl") ELSE all
<1>1. /\ pending_' = <<>> /\ drained_' = ended_ /\ pc' = next
      /\ notify' = [notify EXCEPT !.read = @ /\ ~ended_]
      /\ scan' = full.scan /\ sunk' = full.sunk
  BY DEF TakeBytes, Feed, Now
<1>2. /\ Taken \in Seq(Pieces) /\ (Interactive(Taken) => Interactive(pending_))
      /\ ~dropped_ => Taken = pending_
  <2>1. <<"warning">> \in Seq(Pieces) /\ ~Interactive(<<"warning">>)
    BY DEF Interactive, Pieces, Bodies
  <2>2. CASE Taken = pending_
    BY <1>y, <2>2
  <2>3. CASE Taken = <<"warning">> \o pending_ /\ dropped_
    <3>1. <<"warning">> \o pending_ \in Seq(Pieces)
      BY <1>y, <2>1
    <3>2. Interactive(<<"warning">> \o pending_) <=>
            Interactive(<<"warning">>) \/ Interactive(pending_)
      BY <1>y, <2>1, InteractiveParts
    <3> QED BY <2>1, <2>3, <3>1, <3>2
  <2>4. Taken = pending_ \/ (Taken = <<"warning">> \o pending_ /\ dropped_)
    BY DEF Taken
  <2> QED BY <2>2, <2>3, <2>4
<1>3. all \in States /\ (Heard(all) => Heard(Now) \/ Interactive(Taken))
  BY <1>y, <1>2, FedAllTyped DEF Interactive
<1> HIDE DEF all
<1>4. /\ full \in States /\ (Heard(full) => Heard(all))
      /\ ended_ => full.scan.line = NoLine /\ full.sunk = Spoken(all)
  <2>1. CASE ended_ /\ all.scan.line # NoLine
    <3>1. full = Fed(all, "nl") /\ "nl" \in Pieces /\ "nl" # "interactive"
      BY <2>1 DEF Pieces
    <3>2. Fed(all, "nl") \in States /\ (Heard(Fed(all, "nl")) => Heard(all))
      BY <1>3, <3>1, FedTyped
    <3>3. Fed(all, "nl").scan.line = NoLine /\ Fed(all, "nl").sunk = Spoken(all)
      <4> DEFINE scanned == Scan(all.scan, all.scan.line)
      <4>1. Fed(all, "nl") = [scan |-> [scanned EXCEPT !.line = NoLine],
                              sunk |-> Delivered(all.sunk, all.scan.line)]
        BY DEF Fed
      <4>2. scanned \in Scans
        <5>1. all.scan \in Scans
          BY <1>3 DEF States
        <5> QED BY <5>1 DEF Scan, Scans
      <4> HIDE DEF scanned
      <4>3. [scanned EXCEPT !.line = NoLine].line = NoLine
        BY <4>2 DEF Scans
      <4>4. Spoken(all) = Delivered(all.sunk, all.scan.line)
        BY <2>1 DEF Spoken
      <4> HIDE DEF scanned
      <4>5. Fed(all, "nl").scan = [scanned EXCEPT !.line = NoLine]
            /\ Fed(all, "nl").sunk = Delivered(all.sunk, all.scan.line)
        BY <4>1
      <4> QED BY <4>3, <4>4, <4>5
    <3> QED BY <3>1, <3>2, <3>3
  <2>2. CASE ~(ended_ /\ all.scan.line # NoLine)
    BY <1>3, <2>2 DEF Spoken
  <2> QED BY <2>1, <2>2
<1> HIDE DEF full
<1>5. Now' = full
  <2>1. Now' = [scan |-> full.scan, sunk |-> full.sunk]
    BY <1>1 DEF Now
  <2> QED BY <1>4, <2>1 DEF States
<1>6. TunnelTypes'
  <2>1. <<>> \in Seq(Pieces)
    OBVIOUS
  <2>2. notify' \in [bytes : BOOLEAN, read : BOOLEAN, write : BOOLEAN]
    BY <1>1, <1>y
  <2> QED BY <1>t, <1>1, <1>4, <1>5, <2>1, <2>2 DEF TunnelTypes
<1>7. EndsInv' /\ WakeInv'
  <2>1. notify'.read = (notify.read /\ ~ended_)
    BY <1>1, <1>y
  <2>2. ~notify'.read => ended_
    BY <1>t, <1>y, <2>1 DEF EndsInv
  <2>3. next = "done" => ended_
    BY <1>t DEF EndsInv
  <2>4. EndsInv'
    BY <1>t, <1>1, <2>2, <2>3 DEF EndsInv
  <2> QED BY <1>1, <2>4 DEF WakeInv
<1>8. HeardInv'
  <2>1. ~Interactive(<<>>)
    BY DEF Interactive
  <2> QED BY <1>t, <1>1, <1>2, <1>3, <1>4, <1>5, <2>1 DEF HeardInv
<1>9. WordsInv'
  <2>1. SpeaksWell(said, ssh)
    BY <1>t DEF WordsInv
  <2>2. ASSUME ~dropped_, ~drained_
        PROVE  Flows(all, <<>>, pipe, said)
    BY <1>t, <1>y, <1>2, <2>2, FlowsTaken DEF WordsInv, all
  <2>3. ASSUME ~dropped_, ~ended_
        PROVE  Flows(full, <<>>, pipe, said)
    <3>1. ~drained_ /\ full = all
      BY <1>t, <2>3 DEF EndsInv, full
    <3> QED BY <2>2, <2>3, <3>1
  <2>4. ASSUME ~dropped_, ended_
        PROVE  full.scan.line = NoLine /\ full.sunk = Worded(said)
    <3>1. CASE drained_
      <4>1. Taken = <<>> /\ scan.line = NoLine /\ sunk = Worded(said)
        BY <1>t, <1>2, <2>4, <3>1 DEF WordsInv
      <4>2. all = Now
        BY <4>1, FedNothing DEF all
      <4>3. all.scan.line = NoLine /\ all.sunk = Worded(said)
        BY <4>1, <4>2 DEF Now
      <4> QED BY <1>4, <2>4, <4>3 DEF Spoken
    <3>2. CASE ~drained_
      <4>1. Flows(all, <<>>, pipe, said)
        BY <2>2, <2>4, <3>2
      <4>2. pipe = <<>> /\ <<>> \o <<>> = <<>>
        BY <1>t, <2>4 DEF EndsInv
      <4>3. all = FedAll(Begin, said)
        BY <4>1, <4>2, FedNothing DEF Flows
      <4>4. Spoken(all) = Worded(said)
        BY <2>1, <4>3 DEF SpeaksWell
      <4> QED BY <1>4, <2>4, <4>4
    <3> QED BY <3>1, <3>2
  <2>5. scan'.line = full.scan.line /\ sunk' = full.sunk
    BY <1>1
  <2>6. SpeaksWell(said, ssh)'
    <3>1. UNCHANGED <<said, ssh>>
      OBVIOUS
    <3> QED BY <2>1, <3>1
  <2>7. ~dropped_' /\ ~drained_' => Flows(Now, pending_, pipe, said)'
    BY <1>1, <1>5, <2>3
  <2>8. ~dropped_' /\ drained_' => (pending_ = <<>> /\ scan.line = NoLine /\ sunk = Worded(said))'
    BY <1>1, <2>4, <2>5
  <2> QED BY <2>6, <2>7, <2>8 DEF WordsInv
<1> QED BY <1>6, <1>7, <1>8, <1>9 DEF TunnelInv

LEMMA OwnerKeeps == TunnelInv /\ Owner => TunnelInv'
<1> SUFFICES ASSUME TunnelInv, Owner PROVE TunnelInv'
  OBVIOUS
<1>s. UNCHANGED <<holder, said, pipe, reader, ended_, dropped_, cancelled_, late>>
  BY DEF Owner
<1>1. CASE TunnelStarts
  <2>m. MovesOn
    BY <1>s, <1>1 DEF TunnelStarts, MovesOn
  <2> QED BY <2>m, MovesKeep
<1>2. CASE Drains
  <2>1. UNCHANGED <<stop_, result, ssh, bound>>
    BY <1>2 DEF Drains
  <2>2. CASE pc = "drain" /\ TakeWakeUps("bytes")
    <3>m. MovesOn
      BY <1>s, <2>1, <2>2 DEF TakeWakeUps, MovesOn
    <3> QED BY <3>m, MovesKeep
  <2>3. CASE pc = "bytes" /\ TakeBytes("look")
    BY <1>s, <2>1, <2>3, TakesKeep
  <2>4. CASE pc = "last" /\ TakeBytes("done")
    BY <1>s, <2>1, <2>4, TakesKeep
  <2> QED BY <1>2, <2>2, <2>3, <2>4 DEF Drains
<1>3. CASE Looks
  <2>1. /\ pc = "look" /\ UNCHANGED <<notify, pending_, scan, sunk, drained_>>
        /\ \/ result' = "ready" /\ pc' = "done" /\ UNCHANGED <<stop_, ssh>>
           \/ pc' = "join" /\ stop_' = TRUE /\ ssh' = "exited"
           \/ pc' = "poll" /\ UNCHANGED <<stop_, ssh>>
    BY <1>3 DEF Looks
  <2>m. MovesOn
    BY <1>s, <2>1 DEF MovesOn
  <2> QED BY <2>m, MovesKeep
<1>4. CASE Wakes
  <2>m. MovesOn
    BY <1>s, <1>4 DEF Wakes, MovesOn
  <2> QED BY <2>m, MovesKeep
<1>5. CASE Joins
  <2>1. ended_
    BY <1>5 DEF Joins, TunnelInv, EndsInv
  <2>m. MovesOn
    BY <1>s, <1>5, <2>1 DEF Joins, MovesOn
  <2> QED BY <2>m, MovesKeep
<1> QED BY <1>1, <1>2, <1>3, <1>4, <1>5 DEF Owner

LEMMA TunnelKeeps == TunnelInv /\ [TunnelNext]_tunnelVars => TunnelInv'
<1> SUFFICES ASSUME TunnelInv, [TunnelNext]_tunnelVars PROVE TunnelInv'
  OBVIOUS
<1>1. CASE Cancels \/ DeadlinePasses
  <2>m. MovesOn
    BY <1>1 DEF Cancels, DeadlinePasses, MovesOn, sshVars, captureVars, ownerVars
  <2> QED BY <2>m, MovesKeep
<1>2. CASE UNCHANGED tunnelVars
  <2>m. MovesOn
    BY <1>2 DEF MovesOn, tunnelVars, sshVars, captureVars, ownerVars
  <2> QED BY <2>m, MovesKeep
<1> QED BY <1>1, <1>2, SshKeeps, ReaderKeeps, OwnerKeeps DEF TunnelNext

LEMMA WaitTells == TunnelInv => WaitIsTrue
<1> SUFFICES ASSUME TunnelInv PROVE WaitIsTrue
  OBVIOUS
<1>1. ReadyMeansBound
  BY DEF TunnelInv, HeardInv, Heard, Now, ReadyMeansBound
<1>2. LastWordsHeard
  BY DEF TunnelInv, EndsInv, WordsInv, LastWordsHeard
<1>3. NoByteLeftBehind
  BY DEF TunnelInv, WakeInv, NoByteLeftBehind
<1> QED BY <1>1, <1>2, <1>3 DEF WaitIsTrue

\* WaitIsTrue for any capacity of the buffer and any output of ssh's, however it is cut
\* into reads and whatever helper holds its stderr (SshTunnel::wait_ready()).
THEOREM WaitAlwaysTrue == TunnelSpec => []WaitIsTrue
<1>1. TunnelSpec => []TunnelInv
  BY TunnelStarts0, TunnelKeeps, PTL DEF TunnelSpec
<1> QED BY <1>1, WaitTells, PTL
=============================================================================
