----------------------------- MODULE MCProcesses -----------------------------
(* Four independent components checked in one run: the process tree of a tunnel, the *)
(* wait for its forward, a command that is run, and the headless capture.  A         *)
(* behaviour is of one of them; the others stay in an initial state of theirs.       *)
EXTENDS ManagedProcess, TunnelStderr, CommandRun, Capture
CONSTANTS c1, c2
VARIABLE subject
all == <<subject, procVars, tunnelVars, commandVars, headlessVars>>
Init ==
    /\ subject \in {"process", "tunnel", "command", "capture"}
    /\ ProcInit /\ TunnelInit /\ CommandInit /\ CaptureInit
    /\ subject # "process" => platform = "linux" /\ ~script
    /\ subject # "tunnel" => ~holder
    /\ subject # "command" => ~windows /\ ~left_open /\ answer = <<>>
    /\ subject # "capture" => ~profile
Next ==
    \/ subject = "process" /\ ProcNext /\ UNCHANGED <<subject, tunnelVars, commandVars, headlessVars>>
    \/ subject = "tunnel" /\ TunnelNext /\ UNCHANGED <<subject, procVars, commandVars, headlessVars>>
    \/ subject = "command" /\ CommandNext /\ UNCHANGED <<subject, procVars, tunnelVars, headlessVars>>
    \/ subject = "capture" /\ CaptureNext /\ UNCHANGED <<subject, procVars, tunnelVars, commandVars>>
MCSpec == Init /\ [][Next]_all /\ ProcFairness /\ TunnelFairness /\ CommandFairness
=============================================================================
