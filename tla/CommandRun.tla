----------------------------- MODULE CommandRun -----------------------------
(* A remote command run for its output: SystemCommandRunner::run(), and what         *)
(* fetch_broker_credentials() makes of the output (managed_transport.cpp).           *)
(*                                                                                   *)
(* The answer of the broker command is its parts in order, each of which may be      *)
(* missing; the child writes them one by one, may close its output early, live on,   *)
(* fail, or leave a process behind that holds its pipes.                             *)
EXTENDS Naturals, Sequences, SequencesExt

CONSTANT MaxOutput    \* max_output_bytes_ in parts; 0 is no limit
ASSUME CommandAssumption == MaxOutput \in Nat

Parts == <<"token", "pem marker", "certificate", "quic marker", "alpn">>

VARIABLES
    windows,
    answer,                    \* what the far side has to say
    child, written, left_open, \* the child, how much of it it wrote, who else holds its pipe
    run, out, end_,            \* run(): its stage, what it read, why it stopped
    lost,                      \* a poll() or a read of the output failed
    cancel_set, expired,
    fetched                    \* fetch_broker_credentials()'s outcome

commandFixed == <<windows, answer, left_open>>
commandVars  == <<commandFixed, child, written, run, out, end_, lost, cancel_set, expired, fetched>>

\* Some of the parts, in their order.
Position(p) == CHOOSE i \in DOMAIN Parts : Parts[i] = p
Answers ==
    {a \in SeqOf(ToSet(Parts), Len(Parts)) :
        \A i, j \in DOMAIN a : i < j => Position(a[i]) < Position(a[j])}

CommandInit ==
    /\ windows \in BOOLEAN
    /\ answer \in Answers
    /\ left_open \in BOOLEAN
    /\ child = "none" /\ written = 0
    /\ run = "idle" /\ out = <<>> /\ end_ = "none" /\ lost = FALSE
    /\ cancel_set = FALSE /\ expired = FALSE
    /\ fetched = "none"

\* The output is open while the child has it, or one it left behind: that one lives
\* until the guard of nobody ends it.
OutputOpen == child = "writing" \/ (left_open /\ child # "none")

Unread == SubSeq(answer, Len(out) + 1, written)

----------------------------------------------------------------------------
\* pipe(), fork() and exec, any of which may fail; a cancel that came first starts nothing.
CommandStarts ==
    /\ run = "idle"
    /\ \/ ~cancel_set /\ run' = "reading" /\ child' = "writing" /\ UNCHANGED end_
       \/ /\ run' = "done" /\ UNCHANGED child
          /\ end_' = IF cancel_set THEN "cancelled" ELSE "not started"
    /\ UNCHANGED <<commandFixed, written, out, lost, cancel_set, expired, fetched>>

ChildWrites ==
    /\ child = "writing" /\ written < Len(answer)
    /\ written' = written + 1
    /\ UNCHANGED <<commandFixed, child, run, out, end_, lost, cancel_set, expired, fetched>>

\* It exits, well or badly, or closes its output and goes on.
ChildStops ==
    /\ \/ child = "writing" /\ child' \in {"exited", "failed", "silent"}
       \/ child = "silent" /\ child' \in {"exited", "failed"}
    /\ child' = "exited" => written = Len(answer) \/ lost
    /\ UNCHANGED <<commandFixed, written, run, out, end_, lost, cancel_set, expired, fetched>>

Oversized == MaxOutput # 0 /\ Len(out) > MaxOutput

\* Why the loop is left before the end of the output.  On Windows the limit comes first,
\* and what is there to read, or the exit, before the cancel and the deadline.
StopsFor ==
    CASE windows /\ Oversized -> "oversized"
      [] windows /\ ~Oversized /\ (Unread # <<>> \/ child \in {"exited", "failed"}) -> "none"
      [] OTHER -> IF cancel_set THEN "cancelled" ELSE IF Oversized THEN "oversized"
                  ELSE IF expired THEN "timed out" ELSE "none"

ReadsOutput ==
    /\ run = "reading" /\ StopsFor = "none" /\ Unread # <<>> /\ ~lost
    /\ \E n \in {1, Len(Unread)} : out' = out \o SubSeq(Unread, 1, n)
    /\ UNCHANGED <<commandFixed, child, written, run, end_, lost, cancel_set, expired, fetched>>

\* Mutant: the child's exit ends the reading, whatever the pipe still holds.
ReadToExit ==
    /\ run = "reading" /\ StopsFor = "none"
    /\ child \in {"exited", "failed"} \/ ~OutputOpen
    /\ run' = "reaping"
    /\ UNCHANGED <<commandFixed, child, written, out, end_, lost, cancel_set, expired, fetched>>

\* POSIX reads to the end of the output; Windows to the exit and then what is left.
ReadToEnd ==
    /\ run = "reading" /\ StopsFor = "none"
    /\ Unread = <<>> \/ lost
    /\ IF windows THEN child \in {"exited", "failed"} ELSE ~OutputOpen
    /\ run' = "reaping"
    /\ UNCHANGED <<commandFixed, child, written, out, end_, lost, cancel_set, expired, fetched>>

\* A failing poll() ends the loop, as if there were no more; a failing read() is taken for
\* the end of the output, with the standard error still to be read.  On Windows it is the
\* reading after the exit that a failing PeekNamedPipe() or ReadFile() ends.
ReadFails ==
    /\ run = "reading" /\ StopsFor = "none" /\ ~lost
    /\ lost' = TRUE
    /\ \/ run' = "reaping" /\ (~windows \/ child \in {"exited", "failed"})
       \/ UNCHANGED run /\ ~windows
    /\ UNCHANGED <<commandFixed, child, written, out, end_, cancel_set, expired, fetched>>

\* SIGKILL and the reaping; what was too much is dropped.
KillsChild ==
    /\ run = "reading" /\ StopsFor # "none"
    /\ child' = "failed"
    /\ end_' = StopsFor /\ run' = "done"
    /\ out' = IF StopsFor = "oversized" THEN <<>> ELSE out
    /\ UNCHANGED <<commandFixed, written, lost, cancel_set, expired, fetched>>

\* waitpid() without a bound: neither the deadline nor a cancel is looked at any more.
ReapsChild ==
    /\ run = "reaping" /\ child \in {"exited", "failed"}
    /\ end_' = child /\ run' = "done"
    /\ UNCHANGED <<commandFixed, child, written, out, lost, cancel_set, expired, fetched>>

\* The token is what precedes the certificate's marker, the certificate what follows it
\* up to the next marker; no advertisement is no QUIC.
Parsed(text) ==
    LET has == ToSet(text) IN
    CASE "pem marker" \notin has -> "no marker"
      [] "token" \notin has -> "no token"
      [] "certificate" \notin has -> "no certificate"
      [] {"quic marker", "alpn"} \subseteq has -> "credentials, QUIC"
      [] OTHER -> "credentials"

fetch_broker_credentials ==
    /\ run = "done" /\ fetched = "none"
    /\ fetched' = IF end_ = "exited" THEN Parsed(out) ELSE "failed"
    /\ UNCHANGED <<commandFixed, child, written, run, out, end_, lost, cancel_set, expired>>

CommandCancelled ==
    /\ run # "done" /\ ~cancel_set /\ cancel_set' = TRUE
    /\ UNCHANGED <<commandFixed, child, written, run, out, end_, lost, expired, fetched>>

CommandExpires ==
    /\ run \notin {"idle", "done"} /\ ~expired /\ expired' = TRUE
    /\ UNCHANGED <<commandFixed, child, written, run, out, end_, lost, cancel_set, fetched>>

CommandTurn ==
    ReadsOutput \/ ReadToEnd \/ KillsChild \/ ReapsChild \/ fetch_broker_credentials

CommandNext ==
    \/ CommandStarts \/ ChildWrites \/ ChildStops \/ CommandTurn \/ ReadFails
    \/ CommandCancelled \/ CommandExpires
    \/ fetched # "none" /\ UNCHANGED commandVars

CommandFairness == WF_commandVars(CommandTurn) /\ WF_commandVars(CommandExpires)

CommandSpec == CommandInit /\ [][CommandNext]_commandVars /\ CommandFairness

----------------------------------------------------------------------------
(* Properties. *)

\* Credentials are taken from a whole answer: never from one cut short by a failed child,
\* the deadline, a cancel or the limit, which might lack its QUIC advertisement.  Where the
\* reading itself fails they are taken from a beginning of it.
WholeAnswerOnly ==
    fetched \notin {"none", "failed"} =>
        fetched = Parsed(out) /\ IsPrefix(out, answer) /\ (out = answer \/ lost)

\* "Spawns the command and reads its stdout to completion".  Violated by a poll() or a
\* read() that fails before a good exit.
ReadsToCompletion == fetched \notin {"none", "failed"} => out = answer

\* "Under a wall-clock deadline (so an unreachable host cannot wedge the UI)".  Violated
\* by a child that closes its output and lives on.
CommandEnds == (run = "reading") ~> (run = "done")
============================================================================
