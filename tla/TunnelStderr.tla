---------------------------- MODULE TunnelStderr ----------------------------
(* How the client learns from ssh's stderr whether its forward is up: StderrCapture *)
(* (a thread that always reads, so that ssh is never blocked), the scanner of ssh's *)
(* lines and SshTunnel::wait_ready() (managed_transport.cpp).                       *)
(*                                                                                 *)
(* The pipe carries the bodies of lines and their ends ("nl"); its last line may be  *)
(* without one.  ssh, external, says that it listens before it binds, and enters the *)
(* session after it bound.  Windows has no wake-up pipe: there the wait only sleeps. *)
EXTENDS Naturals, Sequences

CONSTANTS
    Capacity,    \* process_stderr_capacity, in pieces of output
    MaxSaid      \* bound on the pieces ssh writes

ASSUME TunnelAssumption == Capacity \in Nat \ {0} /\ MaxSaid \in Nat

VARIABLES
    ssh, bound, said,        \* ssh: its stage, whether the forward is bound, all it wrote
    holder,                  \* something it started still holds its stderr
    pipe,
    reader, stop_, ended_,   \* StderrCapture: its thread, stop_, ended_
    pending_, dropped_, drained_,
    notify,                  \* the wake-up pipe: bytes in it, and its two ends
    pc, scan, sunk,          \* wait_ready(), readiness_ and the unended line, the sink
    cancelled_, late, result

sshVars     == <<ssh, bound, said>>
captureVars == <<reader, ended_, pending_, dropped_>>
ownerVars   == <<stop_, drained_, pc, scan, sunk, result>>
tunnelVars  == <<holder, sshVars, pipe, captureVars, notify, ownerVars, cancelled_, late>>

NoLine == "none"
Bodies == {"debug", "warning", "listening", "interactive", "bind_failed", "refused"}
Running == {"connecting", "listens", "bound", "session", "leaving"}

TunnelInit ==
    /\ holder \in BOOLEAN
    /\ ssh = "connecting" /\ bound = FALSE /\ said = <<>> /\ pipe = <<>>
    /\ reader = "top" /\ stop_ = FALSE /\ ended_ = FALSE
    /\ pending_ = <<>> /\ dropped_ = FALSE /\ drained_ = FALSE
    /\ notify = [bytes |-> FALSE, read |-> TRUE, write |-> TRUE]
    /\ pc = "idle" /\ sunk = <<>>
    /\ scan = [line |-> NoLine, listening |-> FALSE, state |-> "pending"]
    /\ cancelled_ = FALSE /\ late = FALSE /\ result = "none"

----------------------------------------------------------------------------
(* ssh. *)

Writes(pieces) ==
    /\ Len(said) + Len(pieces) <= MaxSaid
    /\ said' = said \o pieces
    /\ pipe' = pipe \o pieces

Says(body) == Writes(<<body, "nl">>)

SshSpeaks ==
    \/ /\ ssh \in {"connecting", "bound"} /\ \E body \in {"debug", "warning"} : Says(body)
       /\ UNCHANGED <<ssh, bound>>
    \/ ssh = "connecting" /\ Says("listening") /\ ssh' = "listens" /\ UNCHANGED bound
    \/ ssh = "connecting" /\ (Says("refused") \/ Writes(<<"refused">>)) /\ ssh' = "leaving" /\ UNCHANGED bound
    \/ ssh = "listens" /\ Says("bind_failed") /\ ssh' = "leaving" /\ UNCHANGED bound
    \/ ssh = "bound" /\ Says("interactive") /\ ssh' = "session" /\ UNCHANGED bound
    \/ ssh = "listens" /\ bound' = TRUE /\ ssh' = "bound" /\ UNCHANGED <<said, pipe>>
    \/ ssh \in Running /\ ssh' = "exited" /\ bound' = FALSE /\ UNCHANGED <<said, pipe>>

\* What happens while the wait lasts is what counts.
Waiting == pc \notin {"idle", "done"} /\ result = "none"

Ssh ==
    /\ Waiting /\ SshSpeaks
    /\ UNCHANGED <<holder, captureVars, notify, ownerVars, cancelled_, late>>

HungUp == pipe = <<>> /\ ssh = "exited" /\ ~holder

----------------------------------------------------------------------------
(* StderrCapture's thread. *)

ReaderLooks ==
    /\ reader = "top"
    /\ reader' = IF stop_ THEN "drain" ELSE "poll"
    /\ UNCHANGED <<pipe, ended_, pending_, dropped_, notify>>

\* Mutant: nothing but output or the end of it wakes the poll.
PollOfOutput ==
    /\ reader = "poll" /\ pipe = <<>>
    /\ reader' = IF HungUp THEN "ending" ELSE "poll"

\* The poll is bounded, so a stop is seen whoever else holds the pipe.
PollEnds ==
    /\ reader = "poll" /\ pipe = <<>>
    /\ reader' = IF HungUp THEN "ending" ELSE "top"

\* Mutant: a stop ends the reading at once.
DrainAtOnce == reader = "drain" /\ reader' = "ending"

\* A stop ends it once the pipe is empty.
DrainEnds == reader = "drain" /\ pipe = <<>> /\ reader' = "ending"

Reads(n) ==
    /\ reader \in {"poll", "drain"} /\ n <= Len(pipe)
    /\ pipe' = SubSeq(pipe, n + 1, Len(pipe))
    /\ LET all == pending_ \o SubSeq(pipe, 1, n)
           excess == IF Len(all) > Capacity THEN Len(all) - Capacity ELSE 0 IN
       /\ pending_' = SubSeq(all, excess + 1, Len(all))
       /\ dropped_' = (dropped_ \/ excess > 0)
    /\ reader' = "wake"
    /\ UNCHANGED <<ended_, notify>>

ReaderWakes ==
    /\ reader = "wake"
    /\ reader' = "top"
    /\ notify' = [notify EXCEPT !.bytes = notify.read]
    /\ UNCHANGED <<pipe, ended_, pending_, dropped_>>

ReaderEnds ==
    \/ /\ reader = "ending" /\ ended_' = TRUE /\ reader' = "closing"
       /\ UNCHANGED notify
    \/ /\ reader = "closing" /\ notify' = [notify EXCEPT !.write = FALSE]
       /\ reader' = "gone" /\ UNCHANGED ended_

Reader ==
    /\ pc \notin {"idle", "done"}
    /\ \/ ReaderLooks
       \/ (PollEnds \/ DrainEnds) /\ UNCHANGED <<pipe, ended_, pending_, dropped_, notify>>
       \/ \E n \in 1..Len(pipe) : Reads(n)
       \/ ReaderWakes
       \/ ReaderEnds /\ UNCHANGED <<pipe, pending_, dropped_>>
    /\ UNCHANGED <<holder, sshVars, ownerVars, cancelled_, late>>

----------------------------------------------------------------------------
(* The owner: take(), feed() and the scanner, wait_ready(). *)

\* Mutant: the first of the two lines is taken for both.
ScanOfOne(s, line) ==
    CASE s.state # "pending" -> s
      [] line = "bind_failed" -> [s EXCEPT !.state = "failed"]
      [] line = "listening" -> [s EXCEPT !.state = "ready"]
      [] OTHER -> s

\* A bind that fails is final; ssh logs "listening" before it binds, so only the line
\* that follows means bound.
Scan(s, line) ==
    CASE s.state # "pending" -> s
      [] line = "bind_failed" -> [s EXCEPT !.state = "failed"]
      [] line = "listening" -> [s EXCEPT !.listening = TRUE]
      [] line = "interactive" /\ s.listening -> [s EXCEPT !.state = "ready"]
      [] OTHER -> s

\* Lines of the default log level go on to the sink.
Delivered(lines, line) == IF line = "debug" THEN lines ELSE Append(lines, line)

Fed(state, piece) ==
    IF piece = "nl"
    THEN [scan |-> [Scan(state.scan, state.scan.line) EXCEPT !.line = NoLine],
          sunk |-> Delivered(state.sunk, state.scan.line)]
    ELSE [state EXCEPT !.scan.line = piece]

FedAll(state, chunk) ==
    LET fed[k \in 0..Len(chunk)] == IF k = 0 THEN state ELSE Fed(fed[k - 1], chunk[k])
    IN  fed[Len(chunk)]

\* What the scanner and the sink are once `chunk` was fed; the stream's end ends a line.
Feed(chunk, ended) ==
    LET all  == FedAll([scan |-> scan, sunk |-> sunk], chunk)
        full == IF ended /\ all.scan.line # NoLine THEN Fed(all, "nl") ELSE all IN
    scan' = full.scan /\ sunk' = full.sunk

\* A cut line's end alone is what is left of it: the marker says that some was dropped.
Taken == IF pending_ # <<>> /\ Head(pending_) = "nl" /\ dropped_
         THEN <<"warning">> \o pending_ ELSE pending_

\* take(): the wake-ups are drained first, the bytes after; one that is at the end of
\* the stream closes the descriptor.
TakeWakeUps(next) ==
    /\ notify' = [notify EXCEPT !.bytes = FALSE]
    /\ pc' = next
    /\ UNCHANGED <<pending_, scan, sunk, drained_>>

TakeBytes(next) ==
    /\ pending_' = <<>>
    /\ Feed(Taken, ended_)
    /\ drained_' = ended_
    /\ notify' = [notify EXCEPT !.read = @ /\ ~ended_]
    /\ pc' = next

TunnelStarts ==
    /\ pc = "idle" /\ pc' = "drain"
    /\ UNCHANGED <<notify, pending_, scan, sunk, drained_, stop_, result, ssh, bound>>

\* Mutant: the bytes are taken first, and a wake-up that came since is drained too.
DrainsBytesFirst ==
    /\ \/ pc = "drain" /\ TakeBytes("bytes")
       \/ pc = "bytes" /\ TakeWakeUps("look")
       \/ pc = "last" /\ TakeBytes("done")
    /\ UNCHANGED <<stop_, result, ssh, bound>>

Drains ==
    /\ \/ pc = "drain" /\ TakeWakeUps("bytes")
       \/ pc = "bytes" /\ TakeBytes("look")
       \/ pc = "last" /\ TakeBytes("done")
    /\ UNCHANGED <<stop_, result, ssh, bound>>

\* One turn of the loop.  running() that finds ssh gone, and terminate(), end in
\* finish(), which joins the reader.
Looks ==
    /\ pc = "look"
    /\ \/ /\ scan.state = "ready"
          /\ result' = "ready" /\ pc' = "done" /\ UNCHANGED <<stop_, ssh, bound>>
       \/ /\ scan.state # "ready"
          /\ \/ scan.state = "failed" /\ result' = "failed"
             \/ scan.state = "pending" /\ cancelled_ /\ result' = "cancelled"
             \/ scan.state = "pending" /\ ~cancelled_ /\ late /\ ssh # "exited"
                /\ result' = "timeout"
             \/ scan.state = "pending" /\ ~cancelled_ /\ ssh = "exited" /\ result' = "exited"
          /\ pc' = "join" /\ stop_' = TRUE /\ ssh' = "exited" /\ bound' = FALSE
       \/ /\ scan.state = "pending" /\ ~cancelled_ /\ ~late /\ ssh # "exited"
          /\ pc' = "poll" /\ UNCHANGED <<result, stop_, ssh, bound>>
    /\ UNCHANGED <<notify, pending_, scan, sunk, drained_>>

\* Of output, of the end of it, of the cancel token or after 100 ms.
Wakes ==
    /\ pc = "poll" /\ pc' = "drain"
    /\ UNCHANGED <<notify, pending_, scan, sunk, drained_, stop_, result, ssh, bound>>

\* finish() has joined the reader; what it left is drained at the end.
Joins ==
    /\ pc = "join" /\ reader = "gone" /\ pc' = "last"
    /\ UNCHANGED <<notify, pending_, scan, sunk, drained_, stop_, result, ssh, bound>>

Owner ==
    /\ TunnelStarts \/ Drains \/ Looks \/ Wakes \/ Joins
    /\ UNCHANGED <<holder, said, pipe, reader, ended_, dropped_, cancelled_, late>>

OwnerTurn == pc # "idle" /\ Owner

Cancels ==
    /\ Waiting /\ ~cancelled_ /\ cancelled_' = TRUE
    /\ UNCHANGED <<holder, sshVars, pipe, captureVars, notify, ownerVars, late>>

DeadlinePasses ==
    /\ Waiting /\ ~late /\ late' = TRUE
    /\ UNCHANGED <<holder, sshVars, pipe, captureVars, notify, ownerVars, cancelled_>>

TunnelNext ==
    \/ Ssh \/ Reader \/ Owner \/ Cancels \/ DeadlinePasses
    \/ pc = "done" /\ UNCHANGED tunnelVars

TunnelFairness ==
    WF_tunnelVars(OwnerTurn) /\ WF_tunnelVars(Reader) /\ WF_tunnelVars(DeadlinePasses)

TunnelSpec == TunnelInit /\ [][TunnelNext]_tunnelVars /\ TunnelFairness

----------------------------------------------------------------------------
(* Properties. *)

\* A wait that sleeps has a wake-up coming for every byte it has not read.
NoByteLeftBehind ==
    pc = "poll" /\ pending_ # <<>> =>
        notify.bytes \/ reader = "wake" \/ ~notify.write

\* A forward that is reported ready has been bound by this ssh, whatever else it said
\* and however its output was cut into reads (its exit since then excepted).
ReadyMeansBound == scan.state = "ready" => ssh \in {"session", "exited"}

\* The bodies of ssh's lines, but for its debug output.
Worded(pieces) ==
    LET words[k \in 0..Len(pieces)] ==
            IF k = 0 THEN <<>>
            ELSE IF pieces[k] \in {"nl", "debug"} THEN words[k - 1]
            ELSE Append(words[k - 1], pieces[k])
    IN  words[Len(pieces)]

\* A wait that fails has passed on everything ssh had to say, its last words included.
LastWordsHeard ==
    pc = "done" /\ result # "ready" /\ ~dropped_ => sunk = Worded(said)

\* The wait ends, also when something ssh started holds its stderr open.
WaitEnds == (pc # "idle") ~> (pc = "done")

\* What the wait promises of any one moment: its yes is true, its no comes with ssh's own
\* words, and it sleeps through nothing.
WaitIsTrue == ReadyMeansBound /\ LastWordsHeard /\ NoByteLeftBehind

\* The wait for a forward (wait_ready()): it is true to the end, and it ends.
TunnelWaits == []WaitIsTrue /\ WaitEnds
============================================================================
