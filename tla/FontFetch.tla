------------------------------ MODULE FontFetch ------------------------------
(* The server's own font files (font_fetch.cpp, the font part of session.cpp, the    *)
(* connect stage of connect_flow.cpp): the session's thread hears which files the    *)
(* server draws with and wants those this host does not have; they are fetched over  *)
(* ssh, at first in the connect stage by that thread, later by FontFetcher's worker; *)
(* a file is kept when it is the one the server named, given to the text engine,     *)
(* and the server is asked to paint again.                                           *)
(* The cache outlives the client, which may be killed, and other clients of the same *)
(* user may fetch the same file into it.  A font is an identity with a checksum and  *)
(* a safe path: the others are turned down by note_font_identity() or skipped.       *)
EXTENDS Naturals, FiniteSets

CONSTANTS
    Fonts,
    KeepsTail,       \* a C++ library whose ofstream writes its last block when it is closed
    MaxConnections   \* bound: connections, in one process or after it was killed

ASSUME FontAssumption ==
    IsFiniteSet(Fonts) /\ KeepsTail \in BOOLEAN /\ MaxConnections \in Nat

VARIABLES
    shared,          \* another client fetches the same files at the same time
    guest,           \* what the path of each font holds on the guest
    cache, partial,  \* per font: the stored file, and the one it is written into
    rival,           \* per font: the file another client has open, if any
    thread,          \* the session's thread
    heard, wanted,   \* fonts_checked_, fonts_wanted_
    seen,            \* font_generation_seen_
    added, indexed,  \* the engine's added files; what was in each when it was indexed
    tried, queue, stop,   \* FontFetcher's
    worker,
    fetch, found, writing, stored, \* fetch_guest_fonts(): where it is, what it has yet to store,
                                \* the one it writes, what is in the cache now
    connections

fontVars == <<shared, guest, cache, partial, rival, thread, heard, wanted, seen, added, indexed,
              tried, queue, stop, worker, fetch, found, writing, stored, connections>>
sessionPart == <<thread, heard, wanted, seen>>
fetcherPart == <<tried, queue, stop, worker>>
fetchPart   == <<fetch, found, writing, stored>>
diskPart    == <<cache, partial, rival>>

Content == {"none", "torn", "whole"}

FreshConnection ==
    /\ thread' = "replay" /\ heard' = {} /\ wanted' = {}
    /\ tried' = {} /\ queue' = {} /\ stop' = FALSE /\ worker' = "none"
    /\ fetch' = "none" /\ found' = {} /\ writing' = "none" /\ stored' = {}

FontInit ==
    /\ shared \in BOOLEAN
    /\ guest \in [Fonts -> {"right", "other", "missing"}]
    /\ cache = [f \in Fonts |-> "none"] /\ partial = [f \in Fonts |-> "none"]
    /\ rival = [f \in Fonts |-> "none"]
    /\ thread = "replay" /\ heard = {} /\ wanted = {} /\ seen = 0
    /\ added = {} /\ indexed = [f \in Fonts |-> "none"]
    /\ tried = {} /\ queue = {} /\ stop = FALSE /\ worker = "none"
    /\ fetch = "none" /\ found = {} /\ writing = "none" /\ stored = {}
    /\ connections = 1

\* Mutant: the engine remembers that files were added, not how many.
GenerationOnce == IF added = {} THEN 0 ELSE 1

generation == Cardinality(added)

\* A face loads from a file that is what the server named; of a torn one it may.
has_identical(f) == indexed[f] # "none"

----------------------------------------------------------------------------
(* The session's thread. *)

notify(w) == IF w = "sleeps" THEN "looks" ELSE w

\* Mutant: a worker that waits is not told.
WantsQuietly(f) ==
    IF stop \/ f \in tried \cup queue THEN UNCHANGED fetcherPart
    ELSE /\ queue' = queue \cup {f}
         /\ worker' = IF worker = "none" THEN "looks" ELSE worker
         /\ UNCHANGED <<tried, stop>>

\* want(), called by the handler that is set once the connection is up.
want(f) ==
    IF stop \/ f \in tried \cup queue THEN UNCHANGED fetcherPart
    ELSE /\ queue' = queue \cup {f}
         /\ worker' = IF worker = "none" THEN "looks" ELSE notify(worker)
         /\ UNCHANGED <<tried, stop>>

\* note_font_identity(), for a message that names f; files may have arrived since the
\* read that message is in began.
Names(f) ==
    /\ thread \in {"replay", "live"}
    /\ f \notin heard
    /\ heard' = heard \cup {f}
    /\ IF has_identical(f) THEN UNCHANGED <<wanted, fetcherPart>>
       ELSE /\ wanted' = wanted \cup {f}
            /\ IF thread = "live" THEN want(f) ELSE UNCHANGED fetcherPart
    /\ UNCHANGED <<shared, guest, diskPart, thread, seen, added, indexed, fetchPart, connections>>

\* ingest() finds a new generation before it looks at the bytes.
RefreshStarts ==
    /\ thread \in {"replay", "live"} /\ seen # generation
    /\ thread' = IF thread = "live" THEN "refreshing" ELSE "refreshing at connect"
    /\ seen' = generation
    /\ UNCHANGED <<shared, guest, diskPart, heard, wanted, added, indexed, fetcherPart, fetchPart, connections>>

\* The rest of refresh_fonts(): what has arrived is wanted no longer, and painted again.
RefreshEnds ==
    /\ thread \in {"refreshing", "refreshing at connect"}
    /\ thread' = IF thread = "refreshing" THEN "live" ELSE "replay"
    /\ wanted' = {f \in wanted : ~has_identical(f)}
    /\ UNCHANGED <<shared, guest, diskPart, heard, seen, added, indexed, fetcherPart, fetchPart, connections>>

\* collect_font_replay() is over: the connect stage fetches what is wanted, if anything.
ReplayEnds ==
    /\ thread = "replay"
    /\ IF wanted = {} THEN thread' = "live" /\ UNCHANGED fetch
       ELSE thread' = "fetching" /\ fetch' = "starts"
    /\ found' = wanted
    /\ UNCHANGED <<shared, guest, diskPart, heard, wanted, seen, added, indexed, fetcherPart, writing, stored, connections>>

\* The connect stage's fetch has returned; refresh_fonts() follows.
StageFetched ==
    /\ thread = "fetching" /\ fetch = "done"
    /\ thread' = "refreshing" /\ seen' = generation /\ fetch' = "none"
    /\ UNCHANGED <<shared, guest, diskPart, heard, wanted, added, indexed, fetcherPart, found, writing, stored, connections>>

\* The connection ends, or the connect stage is cancelled: ~FontFetcher() sets stop_,
\* cancels the ssh that runs and notifies.
Disconnects ==
    /\ thread \in {"replay", "fetching", "live"}
    /\ thread' = "closing"
    /\ stop' = TRUE /\ worker' = notify(worker)
    /\ UNCHANGED <<shared, guest, diskPart, heard, wanted, seen, added, indexed, tried, queue, fetchPart, connections>>

\* It has joined the worker (the stage's own fetch has returned); another connection.
ConnectsAgain ==
    /\ thread = "closing" /\ worker \in {"none", "ended"} /\ fetch \in {"none", "done"}
    /\ connections < MaxConnections
    /\ connections' = connections + 1
    /\ FreshConnection
    /\ UNCHANGED <<shared, guest, diskPart, seen, added, indexed>>

\* The session is over and its fetcher gone.
Over ==
    /\ thread = "closing" /\ worker \in {"none", "ended"} /\ fetch \in {"none", "done"}
    /\ UNCHANGED fontVars

\* The client is killed and started again: only the cache is left, and the engine looks
\* through it.
Killed ==
    /\ connections < MaxConnections
    /\ connections' = connections + 1
    /\ FreshConnection
    /\ seen' = 0 /\ added' = {} /\ indexed' = cache
    /\ UNCHANGED <<shared, guest, diskPart>>

----------------------------------------------------------------------------
(* FontFetcher::work(). *)

\* Mutant: the queue is emptied before stop_ is looked at, and the batch begun.
WorkerLooksLate ==
    /\ worker = "looks"
    /\ IF queue = {} THEN worker' = "sleeps" /\ UNCHANGED <<queue, fetch, found>>
       ELSE /\ worker' = "fetching" /\ found' = queue /\ queue' = {} /\ fetch' = "starts"
    /\ UNCHANGED <<shared, guest, diskPart, sessionPart, added, indexed, tried, stop, writing, stored, connections>>

\* The predicate is looked at, and the wait begun, under mutex_.
WorkerLooks ==
    /\ worker = "looks"
    /\ CASE stop -> worker' = "ended" /\ UNCHANGED <<queue, fetch, found>>
         [] ~stop /\ queue = {} -> worker' = "sleeps" /\ UNCHANGED <<queue, fetch, found>>
         [] ~stop /\ queue # {} -> /\ worker' = "fetching" /\ found' = queue
                                   /\ queue' = {} /\ fetch' = "starts"
    /\ UNCHANGED <<shared, guest, diskPart, sessionPart, added, indexed, tried, stop, writing, stored, connections>>

WorkerFetched ==
    /\ worker = "fetching" /\ fetch = "done"
    /\ worker' = "looks" /\ fetch' = "none"
    /\ UNCHANGED <<shared, guest, diskPart, sessionPart, added, indexed, tried, queue, stop, found, writing, stored, connections>>

----------------------------------------------------------------------------
(* fetch() and fetch_guest_fonts(), by whichever of the two threads. *)

\* file_identity() of a stored file: the head table says nothing of what comes after it.
\* (What is stored is what was named, whole or cut short.)
StoredIdentity(f) == cache[f] # "none"

\* Every font of the batch counts as tried; those stored already are not sought.
\* Of a torn file the head table may be there or not.
FetchStarts ==
    /\ fetch = "starts"
    /\ tried' = tried \cup found
    /\ \E unreadable \in SUBSET {f \in Fonts : cache[f] = "torn"} :
         LET fresh == found \ tried
             here  == {f \in fresh : StoredIdentity(f)} \ unreadable
         IN /\ stored' = here
            /\ found' = fresh \ here
            /\ fetch' = IF fresh \ here = {} THEN "adds" ELSE "ssh"
    /\ UNCHANGED <<shared, guest, diskPart, sessionPart, added, indexed, queue, stop, worker, writing, connections>>

\* sfnt_identity() of what arrived, against what the server announced.
Verified(f) == guest[f] = "right"

\* ssh did not start, or is killed at the deadline, the limit or a cancel: nothing is used
\* of what it printed.
SshStopped ==
    /\ fetch = "ssh" /\ fetch' = "adds" /\ found' = {}
    /\ UNCHANGED <<shared, guest, diskPart, sessionPart, added, indexed, fetcherPart, writing, stored, connections>>

\* Its output has ended; what is left is a wait for its exit, in which neither the deadline
\* nor the cancel is looked at.
SshClosesOutput ==
    /\ fetch = "ssh" /\ fetch' = "reaping"
    /\ UNCHANGED <<shared, guest, diskPart, sessionPart, added, indexed, fetcherPart, found, writing, stored, connections>>

\* It failed; or the files that were within the caps and whole are kept, the rest are
\* lines among the problems.
SshEnds ==
    /\ fetch = "reaping"
    /\ \/ fetch' = "adds" /\ found' = {}
       \/ /\ \E arrived \in SUBSET {f \in found : Verified(f)} : found' = arrived
          /\ fetch' = "stores"
    /\ UNCHANGED <<shared, guest, diskPart, sessionPart, added, indexed, fetcherPart, writing, stored, connections>>

AllStored ==
    /\ fetch = "stores" /\ found = {}
    /\ fetch' = "adds"
    /\ UNCHANGED <<shared, guest, diskPart, sessionPart, added, indexed, fetcherPart, found, writing, stored, connections>>

\* Mutant: the file is written where it is read.
WritesInPlace(f) ==
    /\ fetch = "stores" /\ f \in found
    /\ fetch' = "writes" /\ writing' = f /\ found' = found \ {f}
    /\ partial' = [partial EXCEPT ![f] = "torn"] /\ cache' = [cache EXCEPT ![f] = "torn"]
    /\ UNCHANGED <<shared, guest, rival, sessionPart, added, indexed, fetcherPart, stored, connections>>

\* write_file_atomically(): the temporary file is created, or emptied if it is there.
OpensPartial(f) ==
    /\ fetch = "stores" /\ f \in found
    /\ fetch' = "writes" /\ writing' = f /\ found' = found \ {f}
    /\ partial' = [partial EXCEPT ![f] = "torn"]
    /\ UNCHANGED <<shared, guest, cache, rival, sessionPart, added, indexed, fetcherPart, stored, connections>>

\* write() fails and the file is removed; or all of it is written, or seems to be.
Writes ==
    /\ fetch = "writes"
    /\ \/ partial' = [partial EXCEPT ![writing] = "none"] /\ fetch' = "stores"
       \/ /\ partial[writing] # "none"
          /\ \E content \in {"whole"} \cup (IF KeepsTail THEN {"torn"} ELSE {}) :
                partial' = [partial EXCEPT ![writing] = content]
          /\ fetch' = "renames"
    /\ UNCHANGED <<shared, guest, cache, rival, sessionPart, added, indexed, fetcherPart, found, writing, stored, connections>>

\* rename() fails, as it does when the file is gone; or the file is in its place.
Renames ==
    /\ fetch = "renames" /\ fetch' = "stores"
    /\ partial' = [partial EXCEPT ![writing] = "none"]
    /\ \/ UNCHANGED <<cache, rival, stored>>
       \/ /\ partial[writing] # "none"
          /\ cache' = [cache EXCEPT ![writing] = partial[writing]]
          /\ rival' = [rival EXCEPT ![writing] = IF @ = "partial" THEN "cache" ELSE @]
          /\ stored' = stored \cup {writing}
    /\ UNCHANGED <<shared, guest, sessionPart, added, indexed, fetcherPart, found, writing, connections>>

\* TextEngine::add_font_files(); fetch() returns.
Adds ==
    /\ fetch = "adds" /\ fetch' = "done"
    /\ added' = added \cup stored
    /\ indexed' = [f \in Fonts |-> IF f \in stored \ added THEN cache[f] ELSE indexed[f]]
    /\ stored' = {} /\ writing' = "none"
    /\ UNCHANGED <<shared, guest, diskPart, sessionPart, fetcherPart, found, connections>>

----------------------------------------------------------------------------
(* Another client of the same user, at the same font. *)

RivalOpens(f) ==
    /\ shared /\ rival[f] = "none" /\ cache[f] = "none" /\ guest[f] = "right"
    /\ rival' = [rival EXCEPT ![f] = "partial"]
    /\ partial' = [partial EXCEPT ![f] = "torn"]
    /\ UNCHANGED <<shared, guest, cache, sessionPart, added, indexed, fetcherPart, fetchPart, connections>>

\* It writes into the file it opened, wherever that is now.
RivalWrites(f) ==
    /\ rival[f] \in {"partial", "cache"} /\ rival' = [rival EXCEPT ![f] = "wrote"]
    /\ IF rival[f] = "partial" THEN partial' = [partial EXCEPT ![f] = "whole"] /\ UNCHANGED cache
       ELSE cache' = [cache EXCEPT ![f] = "whole"] /\ UNCHANGED partial
    /\ UNCHANGED <<shared, guest, sessionPart, added, indexed, fetcherPart, fetchPart, connections>>

\* It is killed, or renames what is there under that name, if anything is.
RivalEnds(f) ==
    /\ rival[f] # "none" /\ rival' = [rival EXCEPT ![f] = "none"]
    /\ \/ UNCHANGED <<cache, partial>>
       \/ /\ rival[f] = "wrote" /\ partial[f] # "none"
          /\ cache' = [cache EXCEPT ![f] = partial[f]] /\ partial' = [partial EXCEPT ![f] = "none"]
    /\ UNCHANGED <<shared, guest, sessionPart, added, indexed, fetcherPart, fetchPart, connections>>

SessionSteps == RefreshStarts \/ RefreshEnds \/ ReplayEnds \/ StageFetched \/ Disconnects \/ ConnectsAgain \/ Over \/ Killed

\* What a fetch does by itself: everything but waiting for the exit of its ssh.
FetchSteps ==
    \/ FetchStarts \/ SshStopped \/ SshClosesOutput \/ AllStored \/ Writes \/ Renames \/ Adds
    \/ \E f \in Fonts : OpensPartial(f)

WorkerSteps == WorkerLooks \/ WorkerFetched

FontNext ==
    \/ \E f \in Fonts : Names(f) \/ RivalOpens(f) \/ RivalWrites(f) \/ RivalEnds(f)
    \/ SessionSteps \/ FetchSteps \/ SshEnds \/ WorkerSteps

\* Threads run, and the reading of ssh's output ends: it has a wall-clock limit and hears a
\* cancel.  Nothing obliges an ssh that has closed its output to exit.
FontFairness == WF_fontVars(FetchSteps) /\ WF_fontVars(WorkerSteps)

FontSpec == FontInit /\ [][FontNext]_fontVars /\ FontFairness

----------------------------------------------------------------------------
(* Properties. *)

\* The engine is never given a file that is not, from end to end, the one the server
\* named: whatever died while it was written, in this client or in one before it.
WholeFontsAlways ==
    \A f \in Fonts : indexed[f] # "torn" /\ (indexed[f] = "whole" => guest[f] = "right")

\* That, where no other client fetches the same file at the same time.
WholeFontsAlone == ~shared => WholeFontsAlways

\* A font whose file is here is not wanted any longer, unless the next read will find out
\* and ask for the repaint: text never stays in a stand-in's face for good.
RepaintOwed ==
    \A f \in wanted : has_identical(f) =>
        seen # generation \/ thread \in {"refreshing", "refreshing at connect", "fetching", "closing"}

\* A font asked for is tried, and a fetcher that is being destroyed has its worker back,
\* unless an ssh that closed its output lives on for ever.
FetcherSettles ==
    /\ \A f \in Fonts : (f \in queue) ~> (f \notin queue \/ stop \/ [](fetch = "reaping"))
    /\ stop ~> (worker \in {"none", "ended"} \/ [](fetch = "reaping"))

\* "A running ssh is killed and reaped by its runner" (~FontFetcher()).  Violated by an ssh
\* that has closed its output and lives on: nobody kills that one.
FetcherStops == stop ~> (worker \in {"none", "ended"})
=============================================================================
