# A formal model of the DeBeOS remote desktop client

This directory holds TLA+ modules for `haiku-remote-client`, the RP/URP1 client
of the DeBeOS remote desktop: what its threads, its connection logic, its byte
stream layers and its profile file do, the properties that make them correct,
the TLC runs that check those on small instances, and TLAPS proofs of the most
important ones for every value of the constants. Every definition is translated
from the code under `src/src` and `src/include/haiku_remote`; `PROJECT.json`
maps each one to its lines. Where a file is named without a directory below, it
is in `src/src`.

Commands, from this directory: `tlc -workers 2 -config MCDesktopController.cfg
MCDesktopController` (and likewise for the other runs; `PROJECT.json` pairs each
configuration with its module), `tlapm DesktopControllerProofs.tla` (and likewise for
the other modules of section 5).

## 1. The system

A front end (`sdl_main.cpp`, `x11_main.cpp`, or the headless `main.cpp`) picks a
saved profile, an `AsyncConnect` walks the routes the profile allows on a worker
thread, and the resulting transport carries a `Session`, which decodes
app_server's drawing into a surface and answers what app_server waits for. When
the connection ends, a policy decides whether to build it again.

| component | state it keeps | operations | talks to |
|---|---|---|---|
| reconnect policy (`reconnect.cpp`) | `ReconnectSchedule`: attempts, pending, deadline | `connection_ended`, `request_now`, `attempt_started`, `established`, `classify_connection` | called by the desktop controller and the headless loop |
| desktop controller (`desktop_session.cpp`) | live / connecting / running, schedule, deferred size, modifiers, the link | `start`, `advance`, `receive`, `set_modifiers`, `apply_display_size`, `after_events`, `finish` | owns a `Session`, a `DesktopShell`, a `SessionLink`; its loop thread shares the session with the link's worker |
| connect flow (`connect_flow.cpp`) | stage list; `AsyncConnect`: token, mutex, question, answer, result | `connect_impl`, `ask_trust`, `answer_trust`, `cancel`, `take_result` | worker thread against the owner's loop; calls managed transport |
| launch plan (`profile_launch.cpp`) | none | `plan_launch` | gives the walk its routes |
| managed transport (`managed_transport.cpp`) | processes, their guard, record files, `CancelToken`, stderr transcripts | `open_connection`, `fetch_broker_credentials`, `SshTunnel`, orphan sweep | ssh children; the connect flow's observer |
| transports (`transport.cpp`, `tcp_socket.cpp`, `websocket.cpp`, `quic.cpp`, `broker_handshake.cpp`) | socket, frame and send buffers, how the peer ended | `connect`, `send_all`, `receive`, `abort`, `close` | `abort` from another thread than the rest |
| known brokers (`known_brokers.cpp`) | certificate fingerprints in a file | `lookup`, `resolve_broker_trust`, `record_broker_trust` | the trust question of the walk |
| session (`session.cpp`) | layers, drawing states, palette, cursor, identity and generation | `start`, `reset`, `ingest`, `handle` | the server, through a sender callback |
| framer, segment decoder (`protocol.cpp`, `wire_decoder.cpp`) | half-read frames and segments, latched failures | `feed`, `take_pending` | below the session |
| profile store and library (`profile_store.cpp`, `profile_library.cpp`) | `connections.json`, its model in memory | `load`, `save`, migration, recovery | every screen and session end saves; other clients share the file |
| screens (`connect_screen.cpp`, `library_screen.cpp`, `desktop_shell.cpp`) | focus, forms, regions of the last frame, pending confirmations, a settling resize | pointer, key, `take` | front ends |
| desktop loops (`sdl_main.cpp`, `x11_main.cpp`) | window and shadow, damage, deferred sizes, who owns a press, modifiers | one turn: events, `after_events`, `needs_present`, present | the controller, the shell, the input encoder |
| X11 clipboard (`x11_main.cpp`) | ownership, the request under way, INCR transfers in both directions | `set`, `get`, its thread's `handle` and timeouts | the UI thread, the X server, other X clients |
| headless capture (`main.cpp`) | schedule, deadline, picture | `run_capture` | session, reconnect policy |
| font fetcher (`font_fetch.cpp`) | queue, fonts tried, worker, `.partial` files | `want`, `fetch`, `wait_idle` | ssh, text engine, other clients' caches |
| surface, painter, AGG port, text engine, viewport | pixels | drawing | session, front ends |

What is hard about it:

* **Two threads and one session.** During a reconnect the worker resets and
  handshakes the very `Session` the event loop paints from and sends through.
* **Who stops whom.** A cancel may meet a spawn, a handshake that succeeds at
  that moment, a question nobody has answered yet, or a worker about to sleep.
* **How a connection ended decides what happens next.** A drop is retried, a
  refusal and an eviction are not: two clients that retried evictions would take
  a session from each other for ever.
* **A byte stream that changes its encoding** behind an acknowledgement, at no
  read boundary, and with one server generation *before* it.
* **State across connections**: what must go (drawing state, half-read frames)
  and what must stay (identity, generation; within a connection the palette).
* **Files several processes write**, across kills and power losses: the library, the
  trusted brokers, the font cache, the records of running tunnels.
* **Processes that outlive each other**: client, guard and ssh may die in any order, and
  the numbers they leave behind are used again.
* **What is handled is older than what is true**: a press on a control of the last frame,
  a key event stamped with the modifiers of before, a selection event of an ownership
  that has passed, a caret in a text that has changed.

What makes each component correct is stated with its module below; the hazards,
at their lines, are in `PROJECT.json`, and those no property covers yet say so.

## 2. Modules

| module | stands for | composed with |
|---|---|---|
| `ReconnectPolicy` | `reconnect.cpp`: pure operators | used by `DesktopController` and `Capture` |
| `DesktopController` | the controller, both links, the event loop, the worker | implements `Outage` |
| `Outage` | abstract: an outage spends a budget of attempts, an ended desktop stays ended | |
| `ConnectFlow` | the stage list and `plan_launch`: pure operators | used by `ConnectWalk` |
| `ConnectWalk` | `connect_impl` calling `open_connection`, on the worker | extended by `AsyncConnect` |
| `AsyncConnect` | the worker's and owner's threads, mutex and condition variable | implements `RouteFallback` |
| `RouteFallback` | abstract: routes in order, never another one behind a decision | |
| `WireLayers` | `Framer` and `SegmentDecoder`: pure operators | used by `SessionStream` |
| `SessionStream` | `Session` with an external server and TCP | implements `MessageChannel` |
| `MessageChannel` | abstract: a FIFO channel, messages handled in order, once | |
| `LibraryStore` | library, store and `atomic_write_file`, the file system, crashes | |
| `ManagedProcess` | client, guard, ssh and a wrapper script's child; lifeline, record files, orphan sweep | |
| `TunnelStderr` | `StderrCapture`'s thread, the scanner of ssh's lines, `wait_ready()` | |
| `CommandRun` | `SystemCommandRunner::run()` and what is parsed of its output | |
| `Capture` | the loop of `main.cpp` | uses `ReconnectPolicy` |
| `TcpSocket` | connecting, reading and closing against `abort()` | |
| `KnownBrokers` | trust on first use over the file several clients share | |
| `BrokerSession` | the broker connection over WebSocket and QUIC, and the bridge at its other end | |
| `FontFetch` | fonts wanted, tried, queued and fetched; `.partial` files; index and repaint | |
| `DesktopWindow` | the X11 loop's turns, damage, the bar and panel over the desktop, fit and deferred sizes | |
| `DesktopInput` | events with the state they were stamped with, and what the remote hears | |
| `LibraryScreen` | list, editor and transfer prompt over the regions of the last frame | |
| `FieldEdit` | caret, selection, clipboard and composition in a text field, in bytes | |
| `ConnectScreen` | the progress screen: buttons, focus, the trust question | |
| `X11Clipboard` | the clipboard thread, the UI thread and other X clients | |
| `DesktopControllerProofs`, `DesktopProofs`, `ConnectProofs`, `ProcessProofs`, `TransportProofs`, `SessionStreamProofs`, `LibraryStoreProofs`, `ScreenProofs` | theorems (`Capture`'s are in `ProcessProofs`) | |
| `MC*` | the instances TLC checks | |

`MCProcesses`, `MCTransports`, `MCUserInterface` and `MCDesktopWindow` each hold several
components that share no state. Their variable `subject` says which one a behaviour is
of, and the others stay in one of their initial states: the reachable states are the
sum of the components', not their product, and a property of one is checked in the
states of that one. They are separate components in one run, not a composition.

### DesktopController

`pc` is where the front end's loop stands: `start`, then round and round `top`
(collect or start an attempt: `advance`), `poll` (`receive`, or the idle wait),
`events` (what the window and toolbar ask: `after_events`), `settle` (a settled
resize), `present`, until `ended`. A window event may be handled at `events`
only. The worker's attempt goes `routing` (whatever `AsyncConnect` does before a
transport exists), `handshake`, `answered`, `ok`, or to a failure; its steps
interleave with the loop's. On its way it may stand in a wait that hears no cancel
(`Unheard`): `asking`, a trust question whose wake-up is lost (`connect_flow.cpp:1673-1677`
and `1757`) or a command that closed its output and lives on (`managed_transport.cpp:1035`);
`fetching`, the same of the connect's font fetch. Tearing an attempt down joins its worker:
`Teardown` is enabled only once the worker is through (`Joined`), Reconnect first stands at
`joining`, and `finish()` waits at the top of the loop. `font_ssh` is the ssh of a live connection's
background fetch that closed its output: taking the result of the next attempt lets
go of the last connection's fetcher, whose destructor joins it (`FetcherJoined`).

For what is painted there are `dirty`, `full`, and `fits`: the front end has a picture
of its window's size (SDL's texture, made at the first present; X11's image, anew after a resize).
`ReadsSurface` is when a present reads the session's surface, `torn` that it did so while the worker
was writing it. `session.sender` says which transport the send
callback captured, so that one left behind is visible. `runs_handshake`
distinguishes `ProfileLink` (worker) from `OptionsLink`. The deadline of a
pending attempt is a boolean that time may set. Message contents, the shell's
texts and statistics are left out; a session's message count is kept up to 1,
the only comparison the code makes of it.

### ConnectFlow, ConnectWalk, AsyncConnect

A plan is a sequence of routes of five shapes; a route needs credentials, a
tunnel, or nothing. The checklist is, per route of the plan, what each kind of stage
shows; the order in which they are listed is the plan's. `ConnectWalk` keeps `connect_impl`'s outer loop
(`pc = "loop"`: one `open_connection` from route `first`) and inside it the
walk, the child processes forked, the transport made, connected and refused, the
trust decision, the handshake and the font replay. Every step can fail in each
way the code distinguishes; the token may be set between any two. `AsyncConnect`
splits the wait on `trust_cv_` into its steps: look at the predicate holding the
mutex (`checking`), between the look and the sleep (`blocking`), asleep, and awake
without the mutex (`asked`). Wake-ups may be spurious. The owner is either the
progress screen or the reconnect of a `ProfileLink`, whose `connect_done`
rejects any question.

### WireLayers, SessionStream

A stream is a sequence of units: a frame is two header units and a payload unit,
a segment one to three head units in front of what it carries. That keeps what
the code's decisions depend on (where a header is complete, whether the first
varint is short enough to tell a segment from a frame) and abstracts lengths and
contents; `varint` bytes, zstd and payload decoding are not in it. Reads take any
number of units, so that boundaries fall everywhere. The server is external,
written from what `session.cpp`'s comments and `PROTOCOL.md` rely on: one that
predates `RP_HELLO`, one that has neither capability, one with `RP_RESYNC`, one
that compresses, and one without the queued-ack fix, whose acknowledgement leaves
through the encoder it switches on. A drawing engine that asks something
synchronously waits; a request may be one the client cannot decode.

### LibraryStore

Directory entries, the entry on the medium, inodes with their text and what of
it is durable, a client's model in memory and its place in a save. One action
per system call, each of which may fail, in processes killed anywhere, on a
machine that may lose power (a rename that was not flushed may or may not have
happened; unflushed text may be whole, old or partial). A load's calls fail as well: an `exists()`
that fails counts as a missing file (`LoadMissing`), a library that cannot be opened or read to its end as
a corrupt one, which is moved aside if that rename works (`LoadCorrupt`). A client that then began
empty beside a file that is still there is `blind`; `overwrote` remembers that such a client's save
replaced it, which is the one excuse of `NothingDropped` and the subject of `RecoversGracefully`. A profile is told by its
mode, which is what the v1 to v2 migration changes. Duplicates of a profile,
favourites and imports are all `Edit`, and the recording of a connection, which also
saves, is `RecordConnection`.

### ManagedProcess, TunnelStderr, CommandRun

`ManagedProcess` follows `spawn()` from the fork of the guard to `terminate()`. `client`,
`guard`, `program` and `helper` are where each process stands; `doomed` are those a
signal has reached that have not died yet, so that a process may still act, or be looked
at, in between. `record` is the file a later client reads. A process group's number may be
taken by somebody else as soon as the group is empty: `stranger` says by whom, and
`hit` records a signal that reached one. On Linux, on macOS (no parent-death signal) and
on Windows (a kill-on-close job and no guard) the code differs, and so do the actions' guards.

`TunnelStderr` has the reader thread with its bounded buffer, the wake-up pipe whose ends
are closed in a certain order, and `wait_ready()`'s poll. `ssh` writes pieces of lines:
the body and the end of a line may come in different reads, and the last line may have
no end. What a piece says is kept only as far as the scanner tells pieces apart.

`CommandRun`'s answer is its parts in order, each of which may be missing. The child
writes them one by one and may close its output, fail, live on, or leave behind a process
that holds its pipes; the deadline, a cancel and the output limit cut it short anywhere, and so does a
`poll()` or `read()` that fails (`ReadFails`), which the code takes for the end of the output: `lost`
remembers it. `WholeAnswerOnly` is exact about it: credentials are the whole answer's, or, after such a failure
and a good exit, those of a beginning of it.

### TcpSocket, KnownBrokers, BrokerSession, FontFetch

`TcpSocket` has the kernel's descriptor numbers: `holder` says whose each is, and a closed
one may be handed to anybody. `connect()` is split where the mutex is released. On
Windows `abort()` closes the descriptor, elsewhere it shuts it down.

`KnownBrokers` has a load and a save as two steps, with other clients between them, and
broker certificates that change. `vouched` is a history: which certificates somebody
accepted for which broker. The file's line format is left out; an unreadable file and a
failed save are not.

`BrokerSession` is one connection: `connect()` with its TLS handshake, trust check, token and
the broker's answer, then the stream in both directions, a close by either side, sends
that wait for room, and `abort()`. What was read and not decoded yet is counted, not listed.
The far end is the bridge in
`src/tools/quic_bridge_mock.cpp`, which is the repository's own implementation of the
broker's side. MsQuic is external.

`FontFetch` has the session's thread, the fetcher's worker and a rival client over the same
cache directory. The client may be killed anywhere and started again over what it left.
`KeepsTail` says whether the C++ library keeps the last block of a file until `close()`, whose
error the code does not look at; libstdc++'s `ofstream` passes a write as large as a font's
straight through, and the runs have it `FALSE`. The ssh of a fetch is stopped by its deadline, its limit or the
destructor's cancel while its output is open (`SshStopped`); once it has closed it (`SshClosesOutput`) it is
waited for without a bound (`reaping`), and only its own exit (`SshEnds`) ends that.

### DesktopWindow, DesktopInput

`DesktopWindow` keeps, for the bar's area, the panel's and the rest, what the session's
surface, the shadow and the window hold there, and what is marked dirty; a turn of the
loop handles a batch of events, applies sizes, and presents. Of the link it has only
whether it is up, connecting or down. `lapse` records the four ways in which a chosen
size is lost (see the findings); the fourth, Fit put off and on again in one batch while an
older size still settles, takes seven events and came out of the proof attempt of `FitFollows`.

`DesktopInput` keeps what the user holds, the events queued with the state the window system
stamped them with, what the shell owns, and what the remote has been told.

### LibraryScreen, FieldEdit, ConnectScreen, X11Clipboard

The screens' controls are those of the last frame (`shown`, `buttons`), and several events may
be handled before the next. `LibraryScreen` has its three views with focus, search,
paging, deletion behind its question, and saves that fail or that validation refuses; a profile is an
identity with a text that stands for all of its fields. `FieldEdit` has the bytes of one field: a two-byte
character is a `lead` and a `trail`. `ConnectScreen` has every key and press, with the attempt
asking, withdrawing its question, failing or succeeding at any moment.

`X11Clipboard` has the thread's event queue, in the order the server sent it, the properties
and transfers of both directions, and other clients that take the selection, ask for it,
serve it in pieces and die. A text is whole, or a number of chunks of a long one. With `Late` FALSE nothing comes of
a conversion given up, from another client or from our own window: its events are left in the queue as ones
`handle()` has nothing to do for (`Ignored`), so that they still take their place among the others.

## 3. Runs

Runs that pass:

| run | properties | what it shows |
|---|---|---|
| `desktop` | `ControllerConsistent`, `TornIsRepainted`, `SessionLeftToWorker`, `RefusalIsFinal`, `OutagePromise` | the controller's pieces agree wherever the loop stands; the session is the worker's until it was joined; a frame read while the worker drew is painted again; who was sent away stays away; the outage is bounded |
| `desktop_fair` | `OutageEnds`, `QuitReleases` | every outage ends, and a quit releases everything, unless a wait that hears no cancel lasts for ever |
| `desktop_window` | `ShownIsCurrent`, `FitFollows`, `HeardAsDone` | the window is current whenever nothing calls for a present; the desktop follows the window; clicks are heard in pairs and letters under their modifiers |
| `async_connect` | `WalkInOrder`, `FinishedMeansReleased`, `CancelWins`, `FallbackPromise`, `AttemptSettles` | stages, trust, fallback and cancellation of an attempt, and that it ends |
| `session_stream` | `LayersInStep`, `NoEngineLeftWaiting`, `StateIsCurrent`, `ChannelPromise` | the byte layers never lose, mix or hold back a message, across reconnections |
| `library_store` | `SavedIsSafe`, `SaveIsAllOrNothing`, `NothingDropped` | atomicity, durability and migration of `connections.json`, and what of it failing loads leave |
| `processes` | `SparesStrangers`, `RecordOutlivesOrphan`, `NothingLeftBehind`, `TunnelWaits`, `WholeAnswerOnly`, `CaptureBounded` | no ssh outlives its client, no stranger is signalled, a forward's answer is true, half an answer is never parsed unless reading failed, the capture reconnects within its budget |
| `transports` | `AbortIsSafe`, `TrustIsKept`, `BrokerStreamOrdered`, `CallsReturn`, `WholeFontsAlone`, `RepaintOwed`, `FetcherSettles` | `abort()` is final; trust is only what was accepted; nothing is proxied before the proof; calls return; fonts are whole, and what they replace is painted again; a fetch settles unless its ssh lives on with its output closed |
| `user_interface` | `StatusIsTrue`, `DeletedAsAsked`, `CharactersWhole`, `AcceptedByClick`, `ClipboardTrue` | the status line claims only what is on disk; deletion and trust only by their own control; no half characters; a paste is one owner's whole text |

A property that names a component as a whole is the conjunction of named parts, each with
a comment of its own in the module (`NothingLeftBehind` is the type invariant,
`ClosedMeansGone` and `DeadTakesItsTree`, for example).

Bounds, and why they are enough:

* `desktop`: 3 sizes of which one is invalid, 2 modifier masks, 2 attempts, 1 press of
  Reconnect. Two attempts are the fewest with a first, a last and one refused; a second
  press only reaches states the first reached, because `request_now` resets the schedule. Two
  valid sizes tell a deferred one from a later one. `desktop_fair`: 1 size and 1 mask.
* `async_connect`: every plan `plan_launch` gives, at most four routes.
* `session_stream`: one connection to each of five kinds of server with 2 messages of the engine
  or a close, or with 1 such message and 1 segment cut anywhere; or two connections, to
  the same server or another, with 1 message each and 1 repaint. A second segment or a
  second connection is what makes a boundary or a leftover matter. Both occur, not in the same behaviour:
  a connection begins with the layers reset, so that cuts of an earlier one can reach a later one
  only through a missing reset, which the second budget exercises with its drops at every read.
* `library_store`: 2 profiles, 1 client, 6 initial files (none, corrupt, v1, v2, v2 with an
  invalid profile, v3), 3 saves, 2 failing calls, 2 stops or power losses: a save,
  a failed one and another behind them, with a restart between each. Two failures are a file that cannot
  be read and cannot be moved aside either.
* `processes`: 2 clients of which one only sweeps, 3 platforms, 2 processes killed from
  outside (the client and its guard, the worst case of the sweep), one later user of a group number, in another
  login session. A stderr buffer of 3 pieces and 4 pieces said, so that it overflows; 4 parts of
  output, one fewer than a whole answer has, so that the limit cuts it. The capture
  has 2 attempts, a backoff of 1 then 2, and a window of 6.
* `transports`: 2 descriptors, so that one may be a stranger's; 2 addresses, so that one
  follows a failed one; 2 connects of one object. 2 clients, 1 broker, 2 certificates
  of which one comes later. 2 messages each way and a path that holds one, so that a send waits.
  2 fonts and 2 connections, in one process or after a kill.
* `user_interface`: 3 profiles, 2 to a page, 1 failing save, 1 event of a session, 2 events in
  a batch; a field of 5 bytes and 6 keys, with one- and two-byte characters; 2 questions, 4
  inputs, 1 retry; 2 other X clients, 3 calls of the UI thread, 2 selections taken, 1 paste
  elsewhere, 1 death, texts of one request or two.
* `desktop_window`: 2 sizes, 4 window events or presses; 6 things the user does, 3
  waiting at once, 1 connection that ends.

Deadlock is checked in the runs of `MCDesktopController` and `MCAsyncConnect`, where the end
is an explicit stuttering action. Elsewhere a system may really stop (every bound spent, both ends
closed, nothing left to read), so it is off there; what must not stop is stated as liveness.

Runs that end in a violation, each a disagreement of the code with what its own comments say
(quoted in `PROJECT.json` under `findings`):

| run | property | what happens |
|---|---|---|
| `async_cancel_hang` | `CancelEndsAttempt` | `AsyncConnect::cancel()` notifies without the mutex; between the worker's look and its sleep the wake-up is lost and the joining destructor never returns |
| `clipboard_stuck` | `EveryWaitBounded` | a stale `SelectionClear` makes `begin_get()` replace the event mask of the client's own window, and `server_time()` waits for an event that no longer comes |
| `input_modifiers` | `ModifiersAgree` | a modifier's own key event is recorded with the modifiers of before it |

Further disagreements, with the configuration that shows each. Those with a `.cfg` of their own run
as they are; for the others put the property in place of the ones the named configuration lists.

| property | configuration | what happens |
|---|---|---|
| `DeferredIsLatest` | `MCDesktopDeferred.cfg` | a size deferred to an attempt that fails is applied later, over a newer one |
| `ModifiersInSync` | `MCDesktopController.cfg` | modifiers changed while the link is down are recorded as sent |
| `NoTornFrame` | `MCDesktopTorn.cfg` | with X11 an expose during a reconnect copies the surface the worker writes; with `FrontEnd = "sdl"` the first present does, if there was none before the reconnect |
| `TeardownBounded` | `MCDesktopFair.cfg` | Reconnect during an attempt joins a worker that may stand in a wait no cancel ends |
| `RecoversGracefully` | `MCLibraryStore.cfg` | a library whose `exists()` failed, or that could neither be read nor moved aside, is replaced by the next save |
| `ReadsToCompletion` | `MCProcesses.cfg` | a failing `poll()` or `read()` before a good exit: credentials of the beginning of an answer |
| `FetcherStops` | `MCTransports.cfg` | the destructor waits for an ssh that closed its output and lives on |
| `NewerLeftUntouched` | `MCLibraryNewer.cfg` | a file of a newer schema is loaded as an empty library, which the next save writes over it |
| `NeverHalfWritten` | `MCLibraryShared.cfg` | two clients share one temporary file |
| `SparesStrangers` | `MCProcesses.cfg` with `Sessions = {"same"}` | a number used again in the same login session passes the sweep's tests |
| `WholeFontsAlways` | `MCFontShared.cfg` | two clients write one `.partial` file |
| `PasteIsNow` | `MCClipboardStuck.cfg` with `Late = TRUE` | the late answer to an abandoned conversion is taken for the next one's |
| `CommandEnds` | `MCProcesses.cfg` | a child that closes its output and lives on is waited for without limit |
| `UsageBeforeSession` | `MCProcesses.cfg` | an undecodable message in mid-session exits with the status of bad arguments |
| `EntryKept` | `MCTransports.cfg` | of two clients recording at once one overwrites the other's entry |
| `OrderlyMeansWhole` | `MCTransports.cfg` | over wss a close frame read together with data drops that data |
| `EraseInText` | `MCUserInterface.cfg` | a composition after Escape erases beyond the end of the field |
| `CancelledIsUndone` | `MCUserInterface.cfg` | an edit whose save failed survives its Cancel |
| `ButtonsAgree`, `ExposeAtOnce`, `FitAlways` | `MCDesktopWindow.cfg` | a button the bar owns is in the mask sent with others; an expose waits for an attempt to end; four ways in which a fitted size is lost |

One wording difference has no property: `docs/client.md:113` calls an export an
"ordinary schema-v1 file", while `serialize()` writes version 2.

## 4. Fairness

Nothing is ever assumed of a server, a broker, the network or the user.

* `FairSpec` of `DesktopController`: weak fairness of the loop (its waits are capped at a second
  and woken, but for the joins, where its step is not enabled), of time, and of the worker's step
  except in `Unheard`: every other wait of an attempt has a timeout or hears the cancel. Nothing is assumed
  of the answer to a lost question or of a command that lives on, so neither `OutageEnds`
  nor `QuitReleases` is unconditional: an outage ends unless its attempt waits so for ever (`WaitsUnheard`), and a
  quit releases everything unless the join it stands in waits so for ever (`JoinHangs`).
* `FairSpec` of `AsyncConnect`: weak fairness of the worker, strong fairness of the owner's
  turns, which need a mutex the worker may take again and again when it wakes for
  nothing (the owner asks for it every quarter of a second). Whether the user answers
  is not assumed: `AttemptEnds` excuses an attempt that waits for its user. Here a command that has
  closed its output is assumed to exit, as an assumption on the far side's programs: the code
  has no bound there, which is `CommandEnds`, and `DesktopController` makes no such assumption.
* `ProcFairness`: a guard that is alive gets its turns, a forked program reaches its
  `exec`, and a process a signal has reached dies. The client's own turns are not fair: it may hang.
* `TunnelFairness`, `CommandFairness`: the thread that waits and the reader run, and a
  deadline passes. ssh's and the child's steps are not fair.
* `BrokerSessionFairness`: the client's own steps and its timers. The bridge's are not fair, which is why
  `CallsReturn` speaks of QUIC, where every wait has a deadline, and of a cancelled `connect()`. Over
  TCP a send waits as long as the far end does (`tcp_socket.cpp:200`).
* `FontFairness`: the fetch and the worker. While its output is open the ssh has a wall-clock limit and hears the
  cancel; that it exits once it has closed it is not assumed (`SshEnds` is not fair), and `FetcherSettles` says so.
* `SocketFairness`: the steps of `connect()`, each bounded by ten seconds.
* `SessionStream`, `LibraryStore`, the screens, the clipboard and the window have no fairness. What
  one would ask of them over time is said as an invariant of the states in which nothing is left
  to do: `NoEngineLeftWaiting`, `ShownIsCurrent`, `FitFollows`, `EveryWaitBounded`.

## 5. Proofs

For every value of the constants, under the modules' `ASSUME`s, which TLC evaluates in the runs.
Each theorem follows one way: an inductive invariant that holds initially, that every action
keeps (one step per action), and that implies the property. Each was checked by TLC before it was
proved; the parts it needs beyond the property say what the property rests on.

* `DesktopControllerProofs`. `TypeCorrect` is `Spec => []TypeOK`;
  `InvAlways` is the inductive invariant. `OnePhase` alone is not inductive: it needs
  to know what the loop's position says (`Control`: at `poll` the desktop runs, at `deferred`
  nobody connects, `connecting` means an attempt was counted, a live connection has a link).
  `ServerKnowsSize` needs what the handshake said to be remembered until the attempt is
  collected (`HandshakeSize`): the worker told the server `attempt.size`, and no step of the
  loop changes the canvas meanwhile. From it follow the `Always...` theorems of the parts,
  `AlwaysConsistent` of the whole, `TornNeverStays` under either front end (what a present reads while an attempt runs
  stays marked for the one that follows it: `PaintOwed`), the action properties `WorkerOwnsSession` and `SentAwayStaysAway`, and the refinement `ImplementsOutage`.
* `DesktopProofs`, for any sizes and events. `AlwaysCurrent`: what a present must take account of
  makes the desktop dirty (`StaleIsDirty`), the window shows the overlays composed last over the
  desktop of then (`AsComposed`), the shell remembers what it composed (`AsRemembered`), and an
  overlay's pixels are those the shell would draw unless it said otherwise (`PixelsTrue`).
  `FitAlwaysFollows`: a fitted window's size is the desktop's, or waits in the batch's choice, in
  the settler or deferred (`FitKept`), unless one of the four lapses happened; the property was
  believed without the fourth until this invariant failed, at seven events, more than the runs' bound.
  `ClicksAlwaysPaired` under either front end, and `AlwaysHeardAsDone` for X11 (its assumption; under SDL
  letters are handled under the modifiers of later). The events that wait are stamped one after the
  other (`Stamped`), what the remote has down was pressed by the user in the events handled so far
  and is not the bar's (`PressedIsHeld`), and the modifiers told last are the remote's (`ToldIsHeard`).
* `ConnectProofs`, for every set of plans `plan_launch` gives. `AttemptInvariant` is the inductive
  invariant `AttemptInv`: for each point of the worker which route it is on and what of it stands (`RouteInv`),
  what is settled (`ResultInv`), that a broker command is started once (`FetchInv`), that a child forked after
  the cancel has only the end before it (`LateInv`), what the owner was handed (`OwnerInv`), and of the checklist
  which stage runs (`StageInv`), what a route given up shows (`GivenUpInv`) and what the end shows (`EndInv`). From it:
  `WalkIsInOrder`, `FinishedIsReleased`, `CancelAlwaysWins`, and the refinement `AttemptImplementsFallback` of `RouteFallback`.
* `ProcessProofs`, for any number of clients. `ProcInv` relates client, guard and program (`TreeInv`), the job
  on Windows, numbers given out again (only once what had them is gone), the target of a sweep, and on
  Linux what outlives its guard (about to die, and starting nothing: `OrphanInv`). From it
  `StrangersAreSpared` (assuming `"same" \notin Sessions`: no number is used again in the client's own login
  session, where the property is false), `ClosedLeavesNothing` (`ClosedMeansGone`, which excepts macOS) and
  `RecordIsKept`. `AnswersAreWhole` is `CommandRun`'s: what was read is a prefix of what was written,
  and the exit is looked at only once there is nothing left to read, or reading has failed (`lost`). `AlwaysCaptureBounded` is `Capture`'s: every
  reconnect is counted by a schedule nothing refills, and the loop waits only for one that was still allowed.
  `WaitAlwaysTrue` is the safety part of `TunnelWaits`. `TunnelInv` says that what waits in the buffer, then what is in the pipe,
  makes of scanner and sink what all of ssh's output makes of fresh ones (`WordsInv`, as long as nothing was dropped and until the end of
  the stream was fed), that an "interactive" anywhere on that way means ssh is past its bind (`HeardInv`), that the reader
  ends behind the last byte of an ssh that is gone (`EndsInv`), and that bytes that wait have their wake-up (`WakeInv`).
  It rests on `FedBoth`: two chunks one after the other feed as their concatenation does, wherever a line was cut.
* `TransportProofs`. `AbortAlwaysSafe`: from the moment a candidate is published `socket_` is that
  candidate, until Windows' `abort()` takes it away; before that it is empty.
  `AlwaysTrusted`: what the file, and every copy loaded of it, names was vouched
  for; a client that is about to save has its grounds (no entry in its copy, or the user's "replace" to a
  changed certificate). `SessionInvariant` and `StreamIsOrdered`: what leads each stream, that the session port
  was given no more than the client sent less what is on its way (`OnTheWay`), and over QUIC the shape of
  what is under way: an answer, drawings, an end, as many drawings as were drawn and not read (`UnderWay`).
  `FontInvariant`, `RepaintAlwaysOwed`, and `FontsAreWhole` (assuming `~KeepsTail`; it speaks of a cache no other client writes to).
* `SessionStreamProofs`, for any tokens, budgets, servers and reads, and any limit on a message.
  `SessionIsChannel` is the refinement of `MessageChannel`: the messages handled are those sent, in their order, each
  once. It rests on `NoMessageLost` (`NothingLost`), which accounts for every unit: a unit is known by its message, its
  place in the frame and the frame's size; as long as the layers have not failed, what the layers hold (the frame begun,
  then the segment begun), what the wire carries and what the encoder has not written are, one behind the other
  and in order, exactly the units of the messages sent and not handled (`Due`). Layer by layer: `DecodeKeeps`
  (of a run of segments the complete ones' units leave, the rest stays), `FramedForwards` (the frames that are
  all there are the next messages), `FedPasses` and `ReroutedPasses` (the two layers together, before compression, from its
  beginning, and for the bytes read behind the acknowledgement), `SegmentCarries` and `FrameCarries` for the server's side,
  then a lemma per action. That the k-th frame that ends is the k-th message missing is shown from the order of the units and
  the rank of a place in a finite set (`Ranks`, `NextFrames`); `WireLayers` cuts runs with `Picked`, a choice
  by rank, because a recursive filter could only be reasoned about by induction over its argument.
  A desynchronisation is no part of it: a layer that fails delivers nothing wrong and is over.
  `StateAlwaysCurrent` has an invariant of its own, `SessionInv`: what each message the server sent says, by its place in
  `sent` (`SaysSo`: a state is stated in the era of its place, there is one acknowledgement, and no barrier before it);
  what the session is when the first k of them have been handled (`KeptAt`), which `handle` of the next one keeps
  (`HandledKept`, `EndOneMore`); one `hello` on its way at most (`HeardOf`); and, for each engine that waits, its request
  among the messages not handled or its answer on the way (`OwedAt`). A read handles its messages in turn
  (`HandledInTurn`, a recursive function; that it has a value is shown by the least length without one), so that what
  one message keeps any read keeps (`ReadsSession`).
  `LayersAlwaysInStep` and `NoEngineForgotten` are theorems of `Spec /\ []ReadsFit`: what is pending and what has arrived of an
  uncompressed stream is together within the Framer's limit (otherwise a legal stream desynchronises it,
  `protocol.cpp:379`, section 6). Their invariant `LayersInv` says what has not been passed on looks like (`Arriving`): whole frames
  up to a place, whole segments behind it (`Shaped`); the first of these opens the zstd frame under a header
  that is told from a frame's (`Opening`); while the acknowledgement is awaited it is the last frame before them if it came in
  a frame of its own (`PlainAck`); a layer that no longer awaits it is the one they are for. What the layers keep is less
  than a frame and less than a segment (`Held`). `FramedInStep` says where the Framer's loop then stops: behind all whole frames,
  behind the acknowledgement, or where the segments begin; from it follow a read before compression, after it and across
  its beginning (`FedFrames`, `FedSegments`, `AwaitInStep`). Nothing on its way and only part of a frame held means
  that nothing sent is unhandled (`NothingHeld`), and then `OwedAt` leaves no engine waiting.
* `LibraryStoreProofs`, for one client (its assumption; two share one temporary file and the
  property is false of them): `SavedAlwaysSafe`, `AlwaysAllOrNothing` and `LibraryIsKept`, all with loads that fail. The invariant
  says that what has the library's name, in the directory or on the medium, is a whole text that is all on
  the medium; that the temporary file is neither of them; and, for each position of a save,
  what has been settled: the descriptor is the temporary file's, its text is this save's, it is
  flushed before the rename. It carries the types of texts, so that a library this client understands
  never says what only a newer schema can. For `LibraryIsKept` every text that is, or may become, the library is loyal
  (`Loyal`): it says of each profile only routes a user gave it; and unless a blind client's save replaced it, the first
  library's profiles but those removed are all in the file under the name, or in one moved aside (`KeptInv`).
* `ScreenProofs`. `StatusAlwaysTrue`: every handler of `LibraryScreen` is truthful (`Truthful`: it says "done" only of a
  save that goes well, or with nothing changed since it was said), handler by handler.
  `AlwaysDeletedAsAsked` needs `DeleteInv`: a question is only up on the list, and only of the profile whose Delete was the
  last control pressed; the editor edits a profile there is; selection and scroll are numbers of the list. Under it are the
  lemmas on the library: what `Only` leaves of a sequence is what is at its places (an induction by `Upward`, whose predicate is a
  set: what holds of 0 and of each next number holds of all), so `Reorder` loses nothing, and with less than `MaxIds`
  profiles an id is free (the pigeonhole principle).
  `CharactersAlwaysWhole` (assuming that what comes in is in whole characters): caret and anchor stand on
  stops of the text, unless the text was cleared under them, which leaves nothing to split; what is between two
  stops is whole, whole texts joined are whole, and every position the code computes (the next character or word, a double
  click's run, a clamp) is a stop. The least and greatest of a set of offsets exist by the library's
  well-foundedness of the numbers. `AlwaysAcceptedByClick`: an accepting answer is pending only behind
  the click that put it there.
  `ServedAlwaysWhole` of `X11Clipboard`, for any clients, texts and number of chunks: a requestor that is alive and reading has the
  first chunks of one of our texts, and its property holds the next or its deletion is in the thread's queue
  exactly once (`ServingInv`); the answer to a request is the last of the requestor's events, so a second request starts afresh.
  `ClipboardAlwaysTrue` (assuming `~Late`: no owner answers after it was given up; with late answers the property is
  false, section 3) is the other direction as well. `ConversionInv` gives, for the phase the thread is in, where the one answer
  it waits for is: with the client asked, in the queue as a refusal or a text behind the notice of its
  property, or, for chunks, in the sender's next step or the property; and that nothing else of a conversion is anywhere.
  `CallInv` has what `get()` may return, and that whoever owns the selection offers a text counted in `since`.

Left to TLC:

* Liveness and everything with `ENABLED`, which the prover cannot do: `OutageEnds`, `QuitReleases`,
  `AttemptSettles`, the `WaitEnds` of `TunnelWaits`, `CallsReturn`, `FetcherSettles`, and the part of `NothingLeftBehind` that a dead client takes
  its tree with it.
* `ReadsFit`, the premise of two theorems of `SessionStreamProofs`: that what has arrived of an uncompressed stream fits
  the Framer's limit follows from no assumption on the constants. TLC found it true in every state of the run's instance.
* The value of `Doubled`, a recursive function, beyond its type.

## 6. Not modelled, and why

* Rasterisation (`painter.cpp`, `agg_port.cpp`, `text_engine.cpp` but for its font index, `surface.cpp`,
  `png_writer.cpp`): numeric code compared with app_server's own output by goldens; it has no state
  that interleaves.
* `json.cpp`, `launch_arguments.cpp`, `connection_profile.cpp`: parsing and validation of text without state; a model would be a
  transliteration. `LibraryStore` has a profile that validation refuses.
* `test_script.cpp`, the tests, the other tools and vendored code.
* In `SessionStream`: cursors, statistics, zstd, the field readers, and the limit the framer puts on a message against a
  whole read (`protocol.cpp:379`), which needs byte counts.
* In the transports: the text of HTTP and TLS, the plain TCP and recording transports' wrappers.
* In the managed transport: the wording of commands, records and of ssh's errors, and the reading of those into causes.
* In the screens: layout, painting, most form fields, the text of an import or export.
* In the front ends: SDL's text input events (letters are keys in `DesktopInput`), window placement, cursors, SDL's clipboard, which is SDL's.
* The desktop's window and its input are checked each by itself, with the link reduced to its state;
  `DesktopController` has the link's own behaviour.
* The desktop ends where `run_desktop` returns. `~ProfileLink` and the session's end come after that; they let go of
  the last connection's font fetcher, and may wait for its worker as `FetcherStops` says.
* Where the endpoint came from the command line and a terminal is there, the trust question is asked at it
  (`transport.cpp:442-446`), in a read that no cancel ends. For the desktop's `OptionsLink` that is `asking`; how
  the answer is read is left out.
* Sizes above 16384, which `valid_display_size` refuses and `ResizeSettler` clamps to, are outside `DesktopWindow`'s
  `Sizes`; the library's "N saved connections." line is a note like others; a card whose deletion is being asked
  about has no star region in `LibraryScreen`.
* A save whose directory could not be flushed reports success (`result = "ok_unflushed"` in
  `LibraryStore`): the code ignores that error deliberately, so `SavedIsDurable` does not count it.

## 7. What could come next

* `ReadsFit` from the sizes of the messages and of the reads, in bytes, so that the premise of `LayersAlwaysInStep` becomes
  a statement about the Framer's limit alone.
* `BrokerSession` composed with `SessionStream`, so that a send that waits meets the replies
  a server waits for; `DesktopWindow` composed with `DesktopController`.
* Pure algorithms against reference definitions: letterbox and damage mapping, region
  arithmetic of the surface, `feed` at the limit of a message.
