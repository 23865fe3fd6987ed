---------------------------- MODULE LibraryStore ----------------------------
(* connections.json: ConnectionLibrary's model in the memory of each client,      *)
(* ProfileStore's load and save, and atomic_write_file (profile_store.cpp) one    *)
(* system call at a time, over a file system whose calls may fail, in processes   *)
(* that may be killed and on a machine that may lose power.                       *)
EXTENDS Integers, FiniteSets

CONSTANTS
    Clients,      \* running clients of one user: they share the file and its ".tmp"
    Ids,          \* profiles
    Firsts,       \* what connections.json may hold before any of this
    MaxSaves,     \* bound: saves begun, over all clients
    MaxFailures,  \* bound: system calls that fail
    MaxStops      \* bound: processes ended or killed, and power losses

VARIABLES
    names,     \* directory entries: lib and tmp, an inode or 0
    stored,    \* the inode that "lib" names on the medium
    inodes,    \* contents, what of them is on the medium, and the last to open them
    aside,     \* contents of the files moved aside
    clients,   \* each client's model of the library, and its save in progress
    budget,    \* what is left of the bounds
    \* History.
    first,     \* what the file held at first
    meant,     \* the routes each profile was ever given
    removed,   \* profiles a user removed
    overwrote  \* a save replaced a library that its client had failed to read

history == <<first, meant, removed, overwrote>>
vars == <<names, stored, inodes, aside, clients, budget, history>>

\* A profile is told by its mode; "invalid" is one validate() refuses, and "relay" stands
\* for what only a newer schema has.
Modes == {"direct", "auto", "invalid", "relay"}
NoProfile == "none"
schema == 2   \* profile_schema_version

\* Text of the file: a whole envelope, or bytes that do not parse.  "extra" is a member
\* of the envelope this version does not know.
Texts == [whole : BOOLEAN, version : 0..3, modes : [Ids -> Modes \cup {NoProfile}],
          extra : BOOLEAN]
NoProfiles == [id \in Ids |-> NoProfile]
Text(version, modes, extra) ==
    [whole |-> TRUE, version |-> version, modes |-> modes, extra |-> extra]
Unreadable(version) ==
    [whole |-> FALSE, version |-> version, modes |-> NoProfiles, extra |-> FALSE]
Half == Unreadable(schema)      \* a save's text, not all of it
Corrupt == Unreadable(0)        \* what something else left there
Missing == Unreadable(1)        \* no file at all

\* At first the file is no half of a save, and only a newer schema's says "relay".
ASSUME LibraryAssumption ==
    /\ Firsts \subseteq Texts /\ IsFiniteSet(Clients)
    /\ \A text \in Firsts :
         /\ text # Half
         /\ text.version <= schema => \A id \in Ids : text.modes[id] # "relay"
    /\ MaxSaves \in Nat /\ MaxFailures \in Nat /\ MaxStops \in Nat

Inodes == 1..(Cardinality(Clients) + 3)

\* The route a mode means under a schema version: v1's "direct" was broker, then tunnel.
Route(version, mode) == IF version < 2 /\ mode = "direct" THEN "auto" ELSE mode

\* "blind": the client began empty beside a file that it could not read.
NoClient == [pc |-> "off", modes |-> NoProfiles, extra |-> FALSE, fd |-> 0,
             result |-> "none", before |-> Missing, blind |-> FALSE]

LibText == IF names.lib = 0 THEN Missing ELSE inodes[names.lib].text
Used == {names.lib, names.tmp, stored} \cup {clients[c].fd : c \in Clients}

Init ==
    /\ first \in Firsts
    /\ names = [lib |-> IF first = Missing THEN 0 ELSE 1, tmp |-> 0]
    /\ stored = names.lib
    /\ inodes = [i \in Inodes |-> [text |-> first, durable |-> first, by |-> "none"]]
    /\ aside = {}
    /\ clients = [c \in Clients |-> NoClient]
    /\ budget = [saves |-> MaxSaves, failures |-> MaxFailures, stops |-> MaxStops]
    /\ meant = [id \in Ids |-> {Route(first.version, first.modes[id])} \ {NoProfile}]
    /\ removed = {} /\ overwrote = FALSE

----------------------------------------------------------------------------
\* ConnectionLibrary::load(), when the client starts.

Loads(c, modes, extra, blind) ==
    /\ clients[c].pc = "off"
    /\ clients' = [clients EXCEPT ![c] =
           [NoClient EXCEPT !.pc = "idle", !.modes = modes, !.extra = extra, !.blind = blind]]

CallsFail(n) ==
    /\ budget.failures >= n
    /\ budget' = [budget EXCEPT !.failures = @ - n]

\* No file, or an exists() that fails: the file is then left where it is.
LoadMissing(c) ==
    /\ IF names.lib = 0 THEN UNCHANGED budget ELSE CallsFail(1)
    /\ Loads(c, NoProfiles, FALSE, names.lib # 0)
    /\ UNCHANGED <<names, stored, inodes, aside, history>>

\* Mutant: a file of any version is read.
AnyVersion(version) == TRUE

Understood(version) == version <= schema

\* migrate_profile_object(): in memory; the file stays as it is until the next save.
LoadLibrary(c) ==
    /\ names.lib # 0 /\ LibText.whole /\ Understood(LibText.version)
    /\ Loads(c, [id \in Ids |-> Route(LibText.version, LibText.modes[id])], LibText.extra, FALSE)
    /\ UNCHANGED <<names, stored, inodes, aside, budget, history>>

LoadNewer(c) ==
    /\ names.lib # 0 /\ LibText.whole /\ ~Understood(LibText.version)
    /\ Loads(c, NoProfiles, FALSE, FALSE)
    /\ UNCHANGED <<names, stored, inodes, aside, budget, history>>

\* Mutant: what could not be read is taken away.
RemovesLibrary == names' = [names EXCEPT !.lib = 0] /\ UNCHANGED aside

\* move_aside(): a rename.
MovesLibraryAside == names' = [names EXCEPT !.lib = 0] /\ aside' = aside \cup {LibText}

\* A text that does not parse: also what read_file() makes of a whole file, of any
\* version, that it cannot open or read to its end.  The rename may fail; the model starts
\* empty all the same.
LoadCorrupt(c) ==
    /\ names.lib # 0
    /\ \E moved \in BOOLEAN :
         /\ CallsFail((IF LibText.whole THEN 1 ELSE 0) + (IF moved THEN 0 ELSE 1))
         /\ IF moved THEN MovesLibraryAside ELSE UNCHANGED <<names, aside>>
         /\ Loads(c, NoProfiles, FALSE, ~moved)
    /\ UNCHANGED <<stored, inodes, history>>

----------------------------------------------------------------------------
\* What the user and the sessions do to the model; each of them saves it.

\* save(): one profile that does not validate ends it before any file is touched.
Saves(c, modes) ==
    /\ clients[c].pc = "idle" /\ budget.saves > 0
    /\ budget' = [budget EXCEPT !.saves = @ - 1]
    /\ LET valid == \A id \in Ids : modes[id] # "invalid" IN
       clients' = [clients EXCEPT ![c] =
           [@ EXCEPT !.modes = modes, !.before = LibText,
                     !.pc = IF valid THEN "opening" ELSE "idle",
                     !.result = IF valid THEN "none" ELSE "failed"]]
    /\ UNCHANGED <<names, stored, inodes, aside, first, overwrote>>

\* The editor, a favorite, a duplicate, an import.
Edit(c) ==
    \E id \in Ids, mode \in {"direct", "auto"} :
        /\ Saves(c, [clients[c].modes EXCEPT ![id] = mode])
        /\ meant' = [meant EXCEPT ![id] = @ \cup {mode}]
        /\ UNCHANGED removed

Remove(c) ==
    \E id \in Ids :
        /\ clients[c].modes[id] # NoProfile
        /\ Saves(c, [clients[c].modes EXCEPT ![id] = NoProfile])
        /\ removed' = removed \cup {id}
        /\ UNCHANGED meant

\* mark_connected() or set_last_error(): also for a quick connect, which is no profile.
RecordConnection(c) ==
    /\ Saves(c, clients[c].modes)
    /\ UNCHANGED <<meant, removed>>

----------------------------------------------------------------------------
\* atomic_write_file().

\* Mutant: the envelope keeps an older schema's version.
SerializeOldVersion(c) == Text(1, clients[c].modes, clients[c].extra)
\* Mutant: only the members this version knows are written.
SerializeKnownOnly(c) == Text(schema, clients[c].modes, FALSE)

serialize(c) == Text(schema, clients[c].modes, clients[c].extra)

\* open(O_CREAT | O_TRUNC): the temporary file of an earlier crash, or of another client
\* at this moment, is the same file.
Open(c) ==
    /\ clients[c].pc = "opening"
    /\ \E i \in Inodes :
         /\ IF names.tmp # 0 THEN i = names.tmp
                             ELSE i = CHOOSE free \in Inodes \ Used : TRUE
         /\ names' = [names EXCEPT !.tmp = i]
         /\ inodes' = [inodes EXCEPT ![i] = [@ EXCEPT !.text = Half, !.by = c]]
         /\ clients' = [clients EXCEPT ![c] = [@ EXCEPT !.fd = i, !.pc = "writing"]]
    /\ UNCHANGED <<stored, aside, budget, history>>

\* The whole text is there, unless another client truncated the file meanwhile and is
\* writing it too: what the two leave is one's text or a mixture.
Write(c) ==
    /\ clients[c].pc = "writing"
    /\ LET i == clients[c].fd IN
       \E text \in IF inodes[i].by = c THEN {serialize(c)} ELSE {serialize(c), Half} :
           inodes' = [inodes EXCEPT ![i] = [@ EXCEPT !.text = text]]
    /\ clients' = [clients EXCEPT ![c] = [@ EXCEPT !.pc = "syncing"]]
    /\ UNCHANGED <<names, stored, aside, budget, history>>

\* Mutant: the text is not flushed before the rename.
FsyncNothing(c) ==
    /\ clients[c].pc = "syncing"
    /\ clients' = [clients EXCEPT ![c] = [@ EXCEPT !.pc = "renaming", !.fd = 0]]
    /\ UNCHANGED <<names, stored, inodes, aside, budget, history>>

\* fsync() and close().
Fsync(c) ==
    /\ clients[c].pc = "syncing"
    /\ LET i == clients[c].fd IN
       inodes' = [inodes EXCEPT ![i] = [@ EXCEPT !.durable = inodes[i].text]]
    /\ clients' = [clients EXCEPT ![c] = [@ EXCEPT !.pc = "renaming", !.fd = 0]]
    /\ UNCHANGED <<names, stored, aside, budget, history>>

Rename(c) ==
    /\ clients[c].pc = "renaming" /\ names.tmp # 0
    /\ names' = [lib |-> names.tmp, tmp |-> 0]
    /\ clients' = [clients EXCEPT ![c] = [@ EXCEPT !.pc = "flushing"]]
    /\ overwrote' = (overwrote \/ clients[c].blind)
    /\ UNCHANGED <<stored, inodes, aside, budget, first, meant, removed>>

\* Mutant: the directory is not flushed.
FlushNothing(c) ==
    /\ clients[c].pc = "flushing"
    /\ clients' = [clients EXCEPT ![c] = [@ EXCEPT !.pc = "idle", !.result = "ok"]]
    /\ UNCHANGED <<names, stored, inodes, aside, budget, history>>

\* fsync() of the directory.
FlushDirectory(c) ==
    /\ clients[c].pc = "flushing"
    /\ stored' = names.lib
    /\ clients' = [clients EXCEPT ![c] = [@ EXCEPT !.pc = "idle", !.result = "ok"]]
    /\ UNCHANGED <<names, inodes, aside, budget, history>>

\* What fails there is not reported.
FlushFails(c) ==
    /\ clients[c].pc = "flushing" /\ CallsFail(1)
    /\ clients' = [clients EXCEPT ![c] = [@ EXCEPT !.pc = "idle", !.result = "ok_unflushed"]]
    /\ UNCHANGED <<names, stored, inodes, aside, history>>

\* Mutant: the error path unlinks the file it was to replace.
UnlinkTarget == [names EXCEPT !.lib = 0]

Unlinked == [names EXCEPT !.tmp = 0]

\* A call fails, the rename also because the name is gone: unlink() and return false.
Fail(c) ==
    /\ clients[c].pc \in {"opening", "writing", "syncing", "renaming"}
    /\ IF clients[c].pc = "renaming" /\ names.tmp = 0 THEN UNCHANGED budget ELSE CallsFail(1)
    /\ names' = IF clients[c].pc = "opening" THEN names ELSE Unlinked
    /\ clients' = [clients EXCEPT ![c] = [@ EXCEPT !.pc = "idle", !.fd = 0, !.result = "failed"]]
    /\ UNCHANGED <<stored, inodes, aside, history>>

----------------------------------------------------------------------------
\* The process ends, or is killed at any point.
Stop(c) ==
    /\ clients[c].pc # "off" /\ budget.stops > 0
    /\ budget' = [budget EXCEPT !.stops = @ - 1]
    /\ clients' = [clients EXCEPT ![c] = NoClient]
    /\ UNCHANGED <<names, stored, inodes, aside, history>>

\* A renamed entry may or may not have reached the medium, and so may any part of a text
\* that was not flushed.  A library that has its name again is no longer one moved aside.
LosePower ==
    /\ budget.stops > 0
    /\ budget' = [budget EXCEPT !.stops = @ - 1]
    /\ clients' = [c \in Clients |-> NoClient]
    /\ \E lib \in {stored, names.lib}, tmp \in {0, names.tmp} :
         names' = [lib |-> lib, tmp |-> IF tmp = lib THEN 0 ELSE tmp]
    /\ stored' = names'.lib
    /\ aside' = {text \in aside :
                     names'.lib \in {0, names.lib} \/ text # inodes[names'.lib].text}
    /\ \E kept \in {"text", "durable", "part"} :
         inodes' = [i \in Inodes |->
             LET left == IF inodes[i].text = inodes[i].durable \/ kept = "text"
                         THEN inodes[i].text
                         ELSE IF kept = "durable" THEN inodes[i].durable ELSE Half
             IN  [text |-> left, durable |-> left, by |-> "none"]]
    /\ UNCHANGED history

Next ==
    \/ \E c \in Clients :
         \/ LoadMissing(c) \/ LoadLibrary(c) \/ LoadNewer(c) \/ LoadCorrupt(c)
         \/ Edit(c) \/ Remove(c) \/ RecordConnection(c)
         \/ Open(c) \/ Write(c) \/ Fsync(c) \/ Rename(c) \/ FlushDirectory(c)
         \/ FlushFails(c) \/ Fail(c) \/ Stop(c)
    \/ LosePower

Spec == Init /\ [][Next]_vars
----------------------------------------------------------------------------
\* Properties.

\* Every variable holds a value of its type; no client's model holds what only a newer
\* schema can say.
TypeOK ==
    /\ names \in [lib : {0} \cup Inodes, tmp : {0} \cup Inodes]
    /\ stored \in {0} \cup Inodes
    /\ \A i \in Inodes : inodes[i].text \in Texts /\ inodes[i].durable \in Texts
    /\ \A c \in Clients : clients[c].modes \in [Ids -> (Modes \ {"relay"}) \cup {NoProfile}]

\* The library is never a half-written file: not during a save, not when the process is
\* killed in one, not after a power loss.
NeverHalfWritten == LibText # Half

\* A save that reported success has its text on the medium, under the library's name,
\* unless the directory could not be flushed.
SavedIsDurable ==
    \A c \in Clients : clients[c].result = "ok" =>
        stored # 0 /\ inodes[stored].durable = serialize(c)

\* A save that reported failure left the library as it was.
SaveIsAllOrNothing ==
    \A c \in Clients : clients[c].result = "failed" => LibText = clients[c].before

\* Through migration, saves, failures and restarts no profile changes the route it takes
\* to one the user never gave it.
RouteKept ==
    LibText.whole /\ Understood(LibText.version) =>
        \A id \in Ids : LibText.modes[id] = NoProfile
                        \/ Route(LibText.version, LibText.modes[id]) \in meant[id]

\* All of the first library that no user removed.
HasAll(text) ==
    /\ text.whole /\ Understood(text.version) /\ text.extra = first.extra
    /\ \A id \in Ids \ removed : first.modes[id] # NoProfile => text.modes[id] # NoProfile

\* A library this client understands loses no profile but those a user removed, and no
\* member a newer client added: also when it cannot be read for a while, it is under its
\* name or moved aside, until a client that could neither read nor move it saves.
NothingDropped ==
    first.whole /\ Understood(first.version) =>
        HasAll(LibText) \/ overwrote \/ \E text \in aside : HasAll(text)

\* "Graceful recovery from a missing or corrupt file", where missing is "no file yet": a
\* save never replaces a library that its client could not read.  Violated by an exists()
\* that fails.
RecoversGracefully == ~overwrote

\* A library written by a newer client is left untouched (profile_store.hpp:24).
NewerLeftUntouched ==
    first.version > schema => first \in aside \cup {LibText}

\* A save at any moment of its life: the file is a whole library, and what was reported as
\* saved is in it after a power loss.
SavedIsSafe == TypeOK /\ NeverHalfWritten /\ SavedIsDurable
============================================================================
