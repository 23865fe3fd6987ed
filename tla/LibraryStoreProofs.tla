-------------------------- MODULE LibraryStoreProofs --------------------------
(* One client and its file, for any profiles, first files, saves, failing calls,     *)
(* kills and power losses: connections.json is always a whole library, a reported    *)
(* save is on the medium, a save that reports failure has changed nothing, and no    *)
(* load, migration or save drops or reroutes what the library was given: a library   *)
(* that could not be read is still there, or moved aside, until a client saves that   *)
(* could do neither.                                                                 *)
(* (Two clients share one ".tmp": see MCLibraryShared.cfg.)                          *)
EXTENDS LibraryStore, FiniteSetTheorems, TLAPS

Kept == (Modes \ {"relay"}) \cup {NoProfile}

Files  == [text : Texts, durable : Texts, by : Clients \cup {"none"}]
Saving ==
    [pc : {"off", "idle", "opening", "writing", "syncing", "renaming", "flushing"},
     modes : [Ids -> Kept], extra : BOOLEAN, fd : {0} \cup Inodes,
     result : {"none", "ok", "ok_unflushed", "failed"}, before : Texts,
     blind : BOOLEAN]

LibraryTypes ==
    /\ names \in [lib : {0} \cup Inodes, tmp : {0} \cup Inodes]
    /\ stored \in {0} \cup Inodes
    /\ inodes \in [Inodes -> Files]
    /\ clients \in [Clients -> Saving]

\* A text of a schema this client understands says nothing it could not have written.
Plain(text) == text.version <= schema => text.modes \in [Ids -> Kept]

\* A file is what the medium has of it, and no half of a save.
Whole(i) == inodes[i].text = inodes[i].durable /\ inodes[i].text # Half

\* What has, or had, the library's name is whole, and no save writes into it.
FilesWhole ==
    /\ \A i \in Inodes : Plain(inodes[i].text) /\ Plain(inodes[i].durable)
    /\ names.lib # 0 => Whole(names.lib)
    /\ stored # 0 => Whole(stored)
    /\ names.tmp # 0 => names.tmp \notin {names.lib, stored}

\* How far a save has come, and what has been settled by then.
SaveInStep(c) ==
    LET my == clients[c] IN
    /\ my.pc \in {"writing", "syncing"} =>
         my.fd # 0 /\ my.fd = names.tmp /\ inodes[my.fd].by = c
    /\ my.pc \notin {"writing", "syncing"} => my.fd = 0
    /\ my.pc = "syncing" => inodes[my.fd].text = serialize(c)
    /\ my.pc = "renaming" /\ names.tmp # 0 =>
         inodes[names.tmp].text = serialize(c) /\ inodes[names.tmp].durable = serialize(c)
    /\ my.pc = "flushing" => names.lib # 0 /\ inodes[names.lib].durable = serialize(c)
    /\ my.pc # "idle" => my.result = "none"
    /\ my.result = "ok" => stored # 0 /\ inodes[stored].durable = serialize(c)
    /\ my.pc \in {"opening", "writing", "syncing", "renaming"} \/ my.result = "failed" =>
         LibText = my.before

LibraryInv == LibraryTypes /\ FilesWhole /\ \A c \in Clients : SaveInStep(c)

----------------------------------------------------------------------------
LEMMA LibraryStarts == Init => LibraryInv
<1> SUFFICES ASSUME Init PROVE LibraryInv
  OBVIOUS
<1>1. Cardinality(Clients) \in Nat
  BY LibraryAssumption, FS_CardinalityType
<1>2. 1 \in Inodes /\ 0 \notin Inodes
  BY <1>1 DEF Inodes
<1>3. NoProfiles \in [Ids -> Kept] /\ NoProfiles \in [Ids -> Modes \cup {NoProfile}]
  BY DEF NoProfiles, Kept
<1>4. first \in Texts /\ first # Half /\ Missing \in Texts
  BY <1>3, LibraryAssumption DEF Init, Texts, Missing, Unreadable
<1>5. Plain(first)
  BY <1>4, LibraryAssumption DEF Init, Plain, Texts, Kept
<1>6. LibraryTypes
  BY <1>2, <1>3, <1>4 DEF Init, LibraryTypes, Files, Saving, NoClient
<1>7. FilesWhole
  BY <1>2, <1>5, <1>4 DEF Init, FilesWhole, Whole
<1>8. \A c \in Clients : SaveInStep(c)
  BY DEF Init, SaveInStep, NoClient
<1> QED BY <1>6, <1>7, <1>8 DEF LibraryInv

\* With one client, every step keeps the invariant.
LEMMA LibrarySteps ==
    ASSUME \A c, d \in Clients : c = d, LibraryInv, [Next]_vars
    PROVE  LibraryInv'
<1>1. /\ LibraryTypes /\ FilesWhole /\ \A c \in Clients : SaveInStep(c)
      /\ 0 \notin Inodes
  BY DEF LibraryInv, Inodes
<1>2. Cardinality(Clients) \in Nat
  BY LibraryAssumption, FS_CardinalityType
<1>3. NoProfiles \in [Ids -> Kept] /\ NoProfiles \in [Ids -> Modes \cup {NoProfile}]
  BY DEF NoProfiles, Kept
<1>4. Half \in Texts /\ Missing \in Texts /\ Plain(Half) /\ Missing # Half
  BY <1>3 DEF Texts, Half, Missing, Unreadable, Plain, schema
<1>5. NoClient \in Saving
  BY <1>3, <1>4 DEF NoClient, Saving
<1>6. ASSUME NEW c \in Clients
      PROVE  serialize(c) \in Texts /\ Plain(serialize(c)) /\ serialize(c) # Half
  <2>1. clients[c].modes \in [Ids -> Kept] /\ clients[c].extra \in BOOLEAN
    BY <1>1 DEF LibraryTypes, Files, Saving
  <2>2. clients[c].modes \in [Ids -> Modes \cup {NoProfile}]
    BY <2>1 DEF Kept
  <2> QED BY <2>1, <2>2 DEF serialize, Text, Texts, Half, Unreadable, Plain, schema
<1>7. LibText \in Texts
  BY <1>1, <1>4 DEF LibText, LibraryTypes, Files, Saving
\* A client that loads: its model is of the file, and a corrupt file loses its name.
<1>8. ASSUME NEW c \in Clients, NEW modes \in [Ids -> Kept], NEW extra \in BOOLEAN,
             NEW blind \in BOOLEAN,
             Loads(c, modes, extra, blind), UNCHANGED <<stored, inodes>>,
             names' = names \/ names' = [names EXCEPT !.lib = 0]
      PROVE  LibraryInv'
  <2>1. LibraryTypes'
    BY <1>1, <1>4, <1>8 DEF Loads, NoClient, LibraryTypes, Files, Saving
  <2>2. FilesWhole'
    BY <1>1, <1>8 DEF FilesWhole, Whole, LibraryTypes, Files, Saving
  <2>3. ASSUME NEW d \in Clients PROVE SaveInStep(d)'
    <3>1. d = c OBVIOUS
    <3>2. clients'[d] = [NoClient EXCEPT !.pc = "idle", !.modes = modes, !.extra = extra,
                                           !.blind = blind]
      BY <1>1, <1>8, <3>1 DEF Loads, LibraryTypes, Files, Saving
    <3> QED BY <3>2 DEF SaveInStep, NoClient
  <2> QED BY <2>1, <2>2, <2>3 DEF LibraryInv
<1>9. ASSUME NEW c \in Clients, LoadMissing(c) PROVE LibraryInv'
  <2>1. \E blind \in BOOLEAN : Loads(c, NoProfiles, FALSE, blind)
    BY <1>9 DEF LoadMissing
  <2> QED BY <1>3, <1>8, <1>9, <2>1 DEF LoadMissing
<1>10. ASSUME NEW c \in Clients, LoadLibrary(c) PROVE LibraryInv'
  <2> DEFINE modes == [id \in Ids |-> Route(LibText.version, LibText.modes[id])]
  <2>1. LibText.modes \in [Ids -> Kept] /\ LibText.extra \in BOOLEAN
    BY <1>1, <1>7, <1>10 DEF LoadLibrary, LibText, LibraryTypes, Files, FilesWhole, Plain,
                             Understood, Texts
  <2>2. modes \in [Ids -> Kept]
    BY <2>1 DEF Route, Kept, Modes
  <2>3. Loads(c, modes, LibText.extra, FALSE) /\ UNCHANGED <<stored, inodes, names>>
    BY <1>10 DEF LoadLibrary
  <2> HIDE DEF modes
  <2> QED BY <1>8, <2>1, <2>2, <2>3
<1>11. ASSUME NEW c \in Clients, LoadNewer(c) PROVE LibraryInv'
  BY <1>3, <1>8, <1>11 DEF LoadNewer
<1>12. ASSUME NEW c \in Clients, LoadCorrupt(c) PROVE LibraryInv'
  <2>1. \E blind \in BOOLEAN : Loads(c, NoProfiles, FALSE, blind)
    BY <1>12 DEF LoadCorrupt
  <2>2. names' = names \/ names' = [names EXCEPT !.lib = 0]
    BY <1>12 DEF LoadCorrupt, MovesLibraryAside
  <2> QED BY <1>3, <1>8, <1>12, <2>1, <2>2 DEF LoadCorrupt
\* Edit, Remove and RecordConnection give the model new modes and save it.
<1>13. ASSUME NEW c \in Clients, NEW modes \in [Ids -> Kept], Saves(c, modes)
       PROVE  LibraryInv'
  <2>1. \E pc \in {"opening", "idle"}, result \in {"none", "failed"} :
          /\ clients' = [clients EXCEPT ![c] =
               [@ EXCEPT !.modes = modes, !.before = LibText, !.pc = pc, !.result = result]]
          /\ pc # "idle" => result = "none"
    BY <1>13 DEF Saves
  <2>2. UNCHANGED <<names, stored, inodes>> /\ clients[c].pc = "idle" /\ LibText' = LibText
    BY <1>13 DEF Saves, LibText
  <2>3. LibraryTypes'
    <3>1. clients[c] \in Saving /\ LibText \in Texts
      BY <1>1, <1>7 DEF LibraryTypes
    <3>2. ASSUME NEW my \in Saving, NEW text \in Texts, NEW pc \in {"opening", "idle"},
                 NEW result \in {"none", "failed"}
          PROVE  [my EXCEPT !.modes = modes, !.before = text, !.pc = pc, !.result = result]
                   \in Saving
      <4>1. [my EXCEPT !.modes = modes] \in Saving
        BY <1>13 DEF Saving
      <4>2. [[my EXCEPT !.modes = modes] EXCEPT !.before = text, !.pc = pc, !.result = result]
              \in Saving
        BY <4>1 DEF Saving
      <4>3. [[my EXCEPT !.modes = modes] EXCEPT !.before = text, !.pc = pc, !.result = result]
              = [my EXCEPT !.modes = modes, !.before = text, !.pc = pc, !.result = result]
        BY DEF Saving
      <4> QED BY <4>2, <4>3
    <3>3. PICK my \in Saving : clients' = [clients EXCEPT ![c] = my]
      BY <2>1, <3>1, <3>2
    <3>4. clients' \in [Clients -> Saving]
      BY <1>1, <3>3 DEF LibraryTypes
    <3> QED BY <1>1, <2>2, <3>4 DEF LibraryTypes
  <2>4. FilesWhole'
    BY <1>1, <2>2 DEF FilesWhole, Whole
  <2>5. ASSUME NEW d \in Clients PROVE SaveInStep(d)'
    <3>1. d = c OBVIOUS
    <3>2. /\ clients'[c].before = LibText /\ clients'[c].fd = clients[c].fd
          /\ clients'[c].pc \in {"opening", "idle"} /\ clients'[c].result \in {"none", "failed"}
          /\ clients'[c].pc # "idle" => clients'[c].result = "none"
      BY <1>1, <2>1 DEF LibraryTypes, Files, Saving
    <3>3. clients[c].fd = 0
      BY <1>1, <2>2 DEF SaveInStep
    <3> QED BY <2>2, <3>1, <3>2, <3>3 DEF SaveInStep
  <2> QED BY <2>3, <2>4, <2>5 DEF LibraryInv
<1>14. ASSUME NEW c \in Clients, Edit(c) \/ Remove(c) \/ RecordConnection(c)
       PROVE  LibraryInv'
  <2>1. clients[c].modes \in [Ids -> Kept]
    BY <1>1 DEF LibraryTypes, Files, Saving
  <2>2. \A id \in Ids, mode \in {"direct", "auto", NoProfile} :
          [clients[c].modes EXCEPT ![id] = mode] \in [Ids -> Kept]
    BY <2>1 DEF Kept, Modes
  <2>3. \E modes \in [Ids -> Kept] : Saves(c, modes)
    BY <1>14, <2>1, <2>2 DEF Edit, Remove, RecordConnection
  <2> QED BY <1>13, <2>3
\* The calls of atomic_write_file().
<1>15. ASSUME NEW c \in Clients, Open(c) PROVE LibraryInv'
  <2>1. PICK i \in Inodes :
          /\ IF names.tmp # 0 THEN i = names.tmp ELSE i = CHOOSE free \in Inodes \ Used : TRUE
          /\ names' = [names EXCEPT !.tmp = i]
          /\ inodes' = [inodes EXCEPT ![i] = [@ EXCEPT !.text = Half, !.by = c]]
          /\ clients' = [clients EXCEPT ![c] = [@ EXCEPT !.fd = i, !.pc = "writing"]]
    BY <1>15 DEF Open
  <2>2. i \notin {names.lib, stored, 0}
    <3>1. CASE names.tmp # 0
      BY <1>1, <2>1, <3>1 DEF FilesWhole
    <3>2. CASE names.tmp = 0
      <4>1. \A d \in Clients : clients[d].fd = 0
        BY <1>1, <1>15 DEF Open, SaveInStep
      <4>2. Used = {names.lib, 0, stored} \cup {clients[d].fd : d \in Clients}
        BY <3>2 DEF Used
      <4>3. \E free \in Inodes : free \notin {names.lib, stored}
        <5>1. Inodes = 1..(Cardinality(Clients) + 3)
          BY DEF Inodes
        <5>2. {1, 2, 3} \subseteq Inodes
          BY <1>2, <5>1
        <5> QED BY <5>2
      <4>4. \E free : free \in Inodes \ Used
        BY <1>1, <4>1, <4>2, <4>3
      <4> QED BY <1>1, <2>1, <3>2, <4>2, <4>4
    <3> QED BY <3>1, <3>2
  <2>3. /\ stored' = stored /\ names'.lib = names.lib /\ names'.tmp = i
        /\ inodes'[i].text = Half /\ inodes'[i].durable = inodes[i].durable /\ inodes'[i].by = c
        /\ \A j \in Inodes \ {i} : inodes'[j] = inodes[j]
        /\ clients'[c] = [clients[c] EXCEPT !.fd = i, !.pc = "writing"]
    BY <1>1, <1>15, <2>1 DEF Open, LibraryTypes, Files, Saving
  <2>4. LibraryTypes'
    <3>1. clients[c] \in Saving /\ inodes[i] \in Files /\ i \in {0} \cup Inodes
      BY <1>1 DEF LibraryTypes
    <3>2. \A my \in Saving : [my EXCEPT !.fd = i, !.pc = "writing"] \in Saving
      BY <3>1 DEF Saving
    <3>3. \A file \in Files : [file EXCEPT !.text = Half, !.by = c] \in Files
      BY <1>4 DEF Files
    <3> QED BY <1>1, <1>15, <2>1, <3>1, <3>2, <3>3 DEF Open, LibraryTypes
  <2>5. FilesWhole'
    BY <1>1, <1>4, <2>2, <2>3 DEF FilesWhole, Whole, LibraryTypes, Files, Saving
  <2>6. SaveInStep(c)'
    BY <1>1, <1>15, <2>2, <2>3 DEF Open, SaveInStep, LibText, LibraryTypes, Files, Saving
  <2> QED BY <2>4, <2>5, <2>6 DEF LibraryInv
<1>16. ASSUME NEW c \in Clients, Write(c) PROVE LibraryInv'
  <2> DEFINE i == clients[c].fd
  <2>1. i \in Inodes /\ i = names.tmp /\ i \notin {names.lib, stored} /\ inodes[i].by = c
    BY <1>1, <1>16 DEF Write, SaveInStep, FilesWhole, LibraryTypes, Files, Saving
  <2>2. /\ inodes' = [inodes EXCEPT ![i] = [@ EXCEPT !.text = serialize(c)]]
        /\ clients' = [clients EXCEPT ![c] = [@ EXCEPT !.pc = "syncing"]]
        /\ UNCHANGED <<names, stored>>
    BY <1>16, <2>1 DEF Write
  <2>3. /\ inodes'[i].text = serialize(c) /\ inodes'[i].durable = inodes[i].durable
        /\ inodes'[i].by = c /\ \A j \in Inodes \ {i} : inodes'[j] = inodes[j]
        /\ clients'[c] = [clients[c] EXCEPT !.pc = "syncing"]
        /\ serialize(c)' = serialize(c)
    BY <1>1, <2>1, <2>2 DEF LibraryTypes, Files, Saving, serialize
  <2>4. LibraryTypes'
    <3>1. /\ [clients[c] EXCEPT !.pc = "syncing"] \in Saving
          /\ [inodes[i] EXCEPT !.text = serialize(c)] \in Files
      BY <1>1, <1>6, <2>1 DEF LibraryTypes, Saving, Files
    <3> HIDE DEF i
    <3> QED BY <1>1, <2>1, <2>2, <3>1 DEF LibraryTypes
  <2>5. FilesWhole'
    BY <1>1, <1>6, <2>1, <2>2, <2>3 DEF FilesWhole, Whole, LibraryTypes, Files, Saving
  <2>6. SaveInStep(c)'
    BY <1>1, <1>16, <2>1, <2>2, <2>3 DEF Write, SaveInStep, LibText, LibraryTypes, Files,
       Saving
  <2> QED BY <2>4, <2>5, <2>6 DEF LibraryInv
<1>17. ASSUME NEW c \in Clients, Fsync(c) PROVE LibraryInv'
  <2> DEFINE i == clients[c].fd
  <2>1. i \in Inodes /\ i = names.tmp /\ i \notin {names.lib, stored}
        /\ inodes[i].text = serialize(c)
    BY <1>1, <1>17 DEF Fsync, SaveInStep, FilesWhole, LibraryTypes, Files, Saving
  <2>2. /\ inodes' = [inodes EXCEPT ![i] = [@ EXCEPT !.durable = serialize(c)]]
        /\ clients' = [clients EXCEPT ![c] = [@ EXCEPT !.pc = "renaming", !.fd = 0]]
        /\ UNCHANGED <<names, stored>>
    BY <1>17, <2>1 DEF Fsync
  <2>3. /\ inodes'[i].text = serialize(c) /\ inodes'[i].durable = serialize(c)
        /\ \A j \in Inodes \ {i} : inodes'[j] = inodes[j]
        /\ clients'[c] = [clients[c] EXCEPT !.pc = "renaming", !.fd = 0]
        /\ serialize(c)' = serialize(c)
    BY <1>1, <2>1, <2>2 DEF LibraryTypes, Files, Saving, serialize
  <2>4. LibraryTypes'
    <3>1. [clients[c] EXCEPT !.pc = "renaming", !.fd = 0] \in Saving
      <4>1. clients[c] \in Saving
        BY <1>1 DEF LibraryTypes
      <4> QED BY <4>1 DEF Saving
    <3> HIDE DEF i
    <3>2. inodes[i] \in Files /\ serialize(c) \in Texts
      BY <1>1, <1>6, <2>1 DEF LibraryTypes
    <3>3. [inodes[i] EXCEPT !.durable = serialize(c)] \in Files
      BY <3>2 DEF Files
    <3> QED BY <1>1, <2>1, <2>2, <3>1, <3>3 DEF LibraryTypes
  <2>5. FilesWhole'
    BY <1>1, <1>6, <2>1, <2>2, <2>3 DEF FilesWhole, Whole, LibraryTypes, Files, Saving
  <2>6. SaveInStep(c)'
    BY <1>1, <1>17, <2>1, <2>2, <2>3 DEF Fsync, SaveInStep, LibText, LibraryTypes, Files,
       Saving
  <2> QED BY <2>4, <2>5, <2>6 DEF LibraryInv
<1>18. ASSUME NEW c \in Clients, Rename(c) PROVE LibraryInv'
  <2>1. /\ clients'[c] = [clients[c] EXCEPT !.pc = "flushing"]
        /\ clients[c].pc = "renaming" /\ names.tmp # 0
        /\ names' = [lib |-> names.tmp, tmp |-> 0] /\ UNCHANGED <<stored, inodes>>
        /\ serialize(c)' = serialize(c)
    BY <1>1, <1>18 DEF Rename, LibraryTypes, Files, Saving, serialize
  <2>2. inodes[names.tmp].text = serialize(c) /\ inodes[names.tmp].durable = serialize(c)
    BY <1>1, <2>1 DEF SaveInStep
  <2>3. LibraryTypes'
    <3>1. [clients[c] EXCEPT !.pc = "flushing"] \in Saving
      <4>1. clients[c] \in Saving
        BY <1>1 DEF LibraryTypes
      <4> QED BY <4>1 DEF Saving
    <3>2. names' \in [lib : {0} \cup Inodes, tmp : {0} \cup Inodes]
      BY <1>1, <2>1 DEF LibraryTypes
    <3>3. clients' \in [Clients -> Saving]
      BY <1>1, <1>18, <3>1 DEF Rename, LibraryTypes
    <3> QED BY <1>1, <2>1, <3>2, <3>3 DEF LibraryTypes
  <2>4. FilesWhole'
    BY <1>1, <1>6, <2>1, <2>2 DEF FilesWhole, Whole
  <2>5. SaveInStep(c)'
    BY <1>1, <2>1, <2>2 DEF SaveInStep, LibraryTypes, Files, Saving
  <2> QED BY <2>3, <2>4, <2>5 DEF LibraryInv
<1>19. ASSUME NEW c \in Clients, FlushDirectory(c) PROVE LibraryInv'
  <2>1. /\ clients'[c] = [clients[c] EXCEPT !.pc = "idle", !.result = "ok"]
        /\ clients[c].pc = "flushing" /\ stored' = names.lib
        /\ UNCHANGED <<names, inodes>> /\ serialize(c)' = serialize(c)
    BY <1>1, <1>19 DEF FlushDirectory, LibraryTypes, Files, Saving, serialize
  <2>2. LibraryTypes'
    <3>1. [clients[c] EXCEPT !.pc = "idle", !.result = "ok"] \in Saving
      <4>1. clients[c] \in Saving
        BY <1>1 DEF LibraryTypes
      <4> QED BY <4>1 DEF Saving
    <3> QED BY <1>1, <1>19, <3>1 DEF FlushDirectory, LibraryTypes
  <2>3. FilesWhole'
    BY <1>1, <2>1 DEF FilesWhole, Whole
  <2>4. SaveInStep(c)'
    BY <1>1, <2>1 DEF SaveInStep, LibraryTypes, Files, Saving
  <2> QED BY <2>2, <2>3, <2>4 DEF LibraryInv
<1>20. ASSUME NEW c \in Clients, FlushFails(c) PROVE LibraryInv'
  <2>1. /\ clients'[c] = [clients[c] EXCEPT !.pc = "idle", !.result = "ok_unflushed"]
        /\ clients[c].pc = "flushing" /\ UNCHANGED <<names, stored, inodes>>
    BY <1>1, <1>20 DEF FlushFails, LibraryTypes, Files, Saving
  <2>2. LibraryTypes'
    <3>1. [clients[c] EXCEPT !.pc = "idle", !.result = "ok_unflushed"] \in Saving
      <4>1. clients[c] \in Saving
        BY <1>1 DEF LibraryTypes
      <4> QED BY <4>1 DEF Saving
    <3> QED BY <1>1, <1>20, <3>1 DEF FlushFails, LibraryTypes
  <2>3. FilesWhole'
    BY <1>1, <2>1 DEF FilesWhole, Whole
  <2>4. SaveInStep(c)'
    BY <1>1, <2>1 DEF SaveInStep, LibraryTypes, Files, Saving
  <2> QED BY <2>2, <2>3, <2>4 DEF LibraryInv
<1>21. ASSUME NEW c \in Clients, Fail(c) PROVE LibraryInv'
  <2>1. /\ clients'[c] = [clients[c] EXCEPT !.pc = "idle", !.fd = 0, !.result = "failed"]
        /\ clients[c].pc \in {"opening", "writing", "syncing", "renaming"}
        /\ names' = names \/ names' = [names EXCEPT !.tmp = 0]
        /\ UNCHANGED <<stored, inodes>>
    BY <1>1, <1>21 DEF Fail, Unlinked, LibraryTypes, Files, Saving
  <2>2. LibraryTypes'
    <3>1. [clients[c] EXCEPT !.pc = "idle", !.fd = 0, !.result = "failed"] \in Saving
      <4>1. clients[c] \in Saving
        BY <1>1 DEF LibraryTypes
      <4> QED BY <4>1 DEF Saving
    <3> QED BY <1>1, <1>21, <2>1, <3>1 DEF Fail, LibraryTypes
  <2>3. FilesWhole'
    BY <1>1, <2>1 DEF FilesWhole, Whole, LibraryTypes, Files, Saving
  <2>4. LibText' = LibText
    BY <1>1, <2>1 DEF LibText, LibraryTypes, Files, Saving
  <2>5. SaveInStep(c)'
    BY <1>1, <2>1, <2>4 DEF SaveInStep, LibraryTypes, Files, Saving
  <2> QED BY <2>2, <2>3, <2>5 DEF LibraryInv
\* A client that is gone has nothing to keep.
<1>22. ASSUME NEW c \in Clients, Stop(c) PROVE LibraryInv'
  <2>1. clients'[c] = NoClient /\ UNCHANGED <<names, stored, inodes>>
    BY <1>1, <1>22 DEF Stop, LibraryTypes, Files, Saving
  <2>2. LibraryTypes'
    BY <1>1, <1>5, <1>22 DEF Stop, LibraryTypes, Files, Saving
  <2>3. FilesWhole'
    BY <1>1, <2>1 DEF FilesWhole, Whole
  <2>4. SaveInStep(c)'
    BY <2>1 DEF SaveInStep, NoClient
  <2> QED BY <2>2, <2>3, <2>4 DEF LibraryInv
<1>23. CASE LosePower
  <2>1. PICK lib \in {stored, names.lib}, tmp \in {0, names.tmp} :
          names' = [lib |-> lib, tmp |-> IF tmp = lib THEN 0 ELSE tmp]
    BY <1>23 DEF LosePower
  <2>2. PICK left \in [Inodes -> Texts] :
          /\ inodes' = [i \in Inodes |-> [text |-> left[i], durable |-> left[i], by |-> "none"]]
          /\ \A i \in Inodes : left[i] \in {inodes[i].text, inodes[i].durable, Half}
          /\ \A i \in Inodes : inodes[i].text = inodes[i].durable => left[i] = inodes[i].text
    <3>1. PICK kept \in {"text", "durable", "part"} :
            inodes' = [i \in Inodes |->
              LET left == IF inodes[i].text = inodes[i].durable \/ kept = "text"
                          THEN inodes[i].text
                          ELSE IF kept = "durable" THEN inodes[i].durable ELSE Half
              IN  [text |-> left, durable |-> left, by |-> "none"]]
      BY <1>23 DEF LosePower
    <3> DEFINE l == [i \in Inodes |->
                       IF inodes[i].text = inodes[i].durable \/ kept = "text"
                       THEN inodes[i].text
                       ELSE IF kept = "durable" THEN inodes[i].durable ELSE Half]
    <3>2. l \in [Inodes -> Texts]
      BY <1>1, <1>4 DEF LibraryTypes, Files, Saving
    <3>3. \A i \in Inodes : l[i] \in {inodes[i].text, inodes[i].durable, Half}
      OBVIOUS
    <3>4. \A i \in Inodes : inodes[i].text = inodes[i].durable => l[i] = inodes[i].text
      OBVIOUS
    <3>5. inodes' = [i \in Inodes |-> [text |-> l[i], durable |-> l[i], by |-> "none"]]
      BY <3>1
    <3> HIDE DEF l
    <3> QED BY <3>2, <3>3, <3>4, <3>5
  <2>3. stored' = lib /\ clients' = [c \in Clients |-> NoClient]
    BY <1>23, <2>1 DEF LosePower
  <2>4. LibraryTypes'
    BY <1>1, <1>5, <2>1, <2>2, <2>3 DEF LibraryTypes, Files, Saving
  <2>5. FilesWhole'
    BY <1>1, <1>4, <2>1, <2>2, <2>3 DEF FilesWhole, Whole, LibraryTypes, Files, Saving
  <2>6. \A c \in Clients : SaveInStep(c)'
    BY <2>3 DEF SaveInStep, NoClient
  <2> QED BY <2>4, <2>5, <2>6 DEF LibraryInv
<1>24. CASE UNCHANGED vars
  BY <1>24 DEF vars, LibraryInv, LibraryTypes, FilesWhole, Whole, SaveInStep, LibText,
     serialize
<1> QED BY <1>9, <1>10, <1>11, <1>12, <1>14, <1>15, <1>16, <1>17, <1>18, <1>19, <1>20,
   <1>21,
           <1>22, <1>23, <1>24 DEF Next

----------------------------------------------------------------------------
\* SavedIsSafe for one client: ProfileStore::save() and atomic_write_file().
THEOREM SavedAlwaysSafe ==
    ASSUME \A c, d \in Clients : c = d PROVE Spec => []SavedIsSafe
<1>1. LibraryInv => SavedIsSafe
  <2> SUFFICES ASSUME LibraryInv PROVE SavedIsSafe
    OBVIOUS
  <2>1. TypeOK
    BY DEF LibraryInv, LibraryTypes, Files, Saving, TypeOK, Kept
  <2>2. NeverHalfWritten
    BY DEF LibraryInv, FilesWhole, Whole, NeverHalfWritten, LibText, Missing, Half,
       Unreadable,
           schema
  <2>3. SavedIsDurable
    BY DEF LibraryInv, SaveInStep, SavedIsDurable
  <2> QED BY <2>1, <2>2, <2>3 DEF SavedIsSafe
<1> QED BY <1>1, LibraryStarts, LibrarySteps, PTL DEF Spec

\* SaveIsAllOrNothing for one client: atomic_write_file()'s error path.
THEOREM AlwaysAllOrNothing ==
    ASSUME \A c, d \in Clients : c = d PROVE Spec => []SaveIsAllOrNothing
<1>1. LibraryInv => SaveIsAllOrNothing
  BY DEF LibraryInv, SaveInStep, SaveIsAllOrNothing
<1> QED BY <1>1, LibraryStarts, LibrarySteps, PTL DEF Spec

----------------------------------------------------------------------------
(* What a library loses or changes: nothing but what a user did.                     *)

StoredText == IF stored = 0 THEN Missing ELSE inodes[stored].text

\* What each kind of step does to the texts and to the client's model.

LEMMA Loaded ==
    ASSUME LibraryInv, NEW c \in Clients, NEW modes, NEW extra, NEW blind,
           Loads(c, modes, extra, blind)
    PROVE  /\ clients'[c].modes = modes /\ clients'[c].extra = extra
           /\ clients'[c].blind = blind
BY DEF Loads, NoClient, LibraryInv, LibraryTypes

LEMMA Changed ==
    ASSUME LibraryInv, NEW c \in Clients, NEW modes, Saves(c, modes)
    PROVE  /\ UNCHANGED <<names, stored, inodes, aside, first, overwrote>>
           /\ clients[c].pc = "idle" /\ clients'[c].modes = modes
           /\ clients'[c].extra = clients[c].extra /\ clients'[c].blind = clients[c].blind
           /\ LibText' = LibText /\ StoredText' = StoredText
<1>1. /\ UNCHANGED <<names, stored, inodes, aside, first, overwrote>>
      /\ clients[c].pc = "idle"
  BY DEF Saves
<1>2. LibText' = LibText /\ StoredText' = StoredText
  BY <1>1 DEF LibText, StoredText
<1>3. /\ clients'[c].modes = modes /\ clients'[c].extra = clients[c].extra
      /\ clients'[c].blind = clients[c].blind
  BY DEF Saves, LibraryInv, LibraryTypes, Saving
<1> QED BY <1>1, <1>2, <1>3

\* The save that goes on: the model stays, and so does the file until the rename.
LEMMA SaveGoesOn ==
    ASSUME LibraryInv, LibraryInv', NEW c \in Clients, Open(c) \/ Write(c) \/ Fsync(c)
    PROVE  /\ UNCHANGED <<aside, history>> /\ LibText' = LibText /\ StoredText' = StoredText
           /\ clients[c].pc # "off" /\ clients'[c].blind = clients[c].blind
           /\ serialize(c)' = serialize(c)
<1>1. LibraryTypes /\ FilesWhole /\ SaveInStep(c) /\ 0 \notin Inodes
  BY DEF LibraryInv, Inodes
<1>2. CASE Open(c)
  <2>1. PICK i \in Inodes :
          /\ names' = [names EXCEPT !.tmp = i]
          /\ inodes' = [inodes EXCEPT ![i] = [@ EXCEPT !.text = Half, !.by = c]]
          /\ clients' = [clients EXCEPT ![c] = [@ EXCEPT !.fd = i, !.pc = "writing"]]
    BY <1>2 DEF Open
  <2>2. UNCHANGED <<stored, aside, history>> /\ clients[c].pc = "opening" /\ names'.tmp = i
        /\ names'.lib = names.lib
    BY <1>1, <1>2, <2>1 DEF Open, LibraryTypes
  <2>3. i \notin {names.lib, stored}
    BY <1>1, <2>2 DEF LibraryInv, FilesWhole
  <2>4. LibText' = LibText /\ StoredText' = StoredText
    BY <1>1, <2>1, <2>2, <2>3 DEF LibText, StoredText, LibraryTypes
  <2>5. /\ clients'[c].modes = clients[c].modes /\ clients'[c].extra = clients[c].extra
        /\ clients'[c].blind = clients[c].blind
    BY <1>1, <2>1 DEF LibraryTypes, Saving
  <2> QED BY <2>2, <2>4, <2>5 DEF serialize
<1>3. CASE Write(c) \/ Fsync(c)
  <2> DEFINE i == clients[c].fd
  <2>1. clients[c].pc \in {"writing", "syncing"} /\ UNCHANGED <<names, stored, aside, history>>
    BY <1>3 DEF Write, Fsync
  <2>2. i \in Inodes /\ i \notin {names.lib, stored}
    BY <1>1, <2>1 DEF SaveInStep, FilesWhole, LibraryTypes
  <2>3. \A j \in Inodes \ {i} : inodes'[j] = inodes[j]
    BY <1>1, <1>3, <2>2 DEF Write, Fsync, LibraryTypes
  <2>4. LibText' = LibText /\ StoredText' = StoredText
    BY <1>1, <2>1, <2>2, <2>3 DEF LibText, StoredText, LibraryTypes
  <2>5. \E pc \in {"syncing", "renaming"}, fd \in {0, i} :
            clients' = [clients EXCEPT ![c] = [@ EXCEPT !.pc = pc, !.fd = fd]]
    <3>1. CASE Write(c)
      <4>1. [clients[c] EXCEPT !.pc = "syncing"] = [clients[c] EXCEPT !.pc = "syncing", !.fd = i]
        BY <1>1 DEF LibraryTypes, Saving
      <4> QED BY <3>1, <4>1 DEF Write
    <3>2. CASE Fsync(c)
      BY <3>2 DEF Fsync
    <3> QED BY <1>3, <3>1, <3>2
  <2>6. /\ clients'[c].modes = clients[c].modes /\ clients'[c].extra = clients[c].extra
        /\ clients'[c].blind = clients[c].blind
    BY <1>1, <2>5 DEF LibraryTypes, Saving
  <2> QED BY <2>1, <2>4, <2>6 DEF serialize
<1> QED BY <1>2, <1>3

LEMMA Replaced ==
    ASSUME LibraryInv, NEW c \in Clients, Rename(c)
    PROVE  /\ UNCHANGED <<aside, first, meant, removed>> /\ clients[c].pc = "renaming"
           /\ overwrote' = (overwrote \/ clients[c].blind)
           /\ clients'[c].blind = clients[c].blind /\ serialize(c)' = serialize(c)
           /\ LibText' = serialize(c) /\ StoredText' = StoredText
<1>1. LibraryTypes /\ SaveInStep(c)
  BY DEF LibraryInv
<1>2. /\ clients[c].pc = "renaming" /\ names.tmp # 0
      /\ names' = [lib |-> names.tmp, tmp |-> 0]
      /\ UNCHANGED <<stored, inodes, aside, first, meant, removed>>
      /\ overwrote' = (overwrote \/ clients[c].blind)
  BY DEF Rename
<1>3. /\ clients'[c].modes = clients[c].modes /\ clients'[c].extra = clients[c].extra
      /\ clients'[c].blind = clients[c].blind
  BY <1>1 DEF Rename, LibraryTypes, Saving
<1>4. LibText' = serialize(c) /\ StoredText' = StoredText
  BY <1>1, <1>2 DEF LibText, StoredText, SaveInStep
<1> QED BY <1>2, <1>3, <1>4 DEF serialize

LEMMA SaveEnds ==
    ASSUME LibraryInv, NEW c \in Clients, FlushDirectory(c) \/ FlushFails(c) \/ Fail(c)
    PROVE  /\ UNCHANGED <<aside, history>> /\ clients[c].pc # "off"
           /\ clients'[c].blind = clients[c].blind /\ serialize(c)' = serialize(c)
           /\ LibText' = LibText /\ StoredText' \in {LibText, StoredText}
<1>1. LibraryTypes
  BY DEF LibraryInv
<1>2. /\ UNCHANGED <<inodes, aside, history>> /\ names'.lib = names.lib
      /\ stored' \in {stored, names.lib} /\ clients[c].pc # "off"
  BY <1>1 DEF FlushDirectory, FlushFails, Fail, Unlinked, LibraryTypes
<1>3. /\ clients'[c].modes = clients[c].modes /\ clients'[c].extra = clients[c].extra
      /\ clients'[c].blind = clients[c].blind
  <2>1. clients \in [Clients -> Saving]
    BY <1>1 DEF LibraryTypes
  <2>2. CASE FlushDirectory(c)
    BY <2>1, <2>2 DEF FlushDirectory, Saving
  <2>3. CASE FlushFails(c)
    BY <2>1, <2>3 DEF FlushFails, Saving
  <2>4. CASE Fail(c)
    BY <2>1, <2>4 DEF Fail, Saving
  <2> QED BY <2>2, <2>3, <2>4
<1>4. LibText' = LibText /\ StoredText' \in {LibText, StoredText}
  BY <1>2 DEF LibText, StoredText
<1> QED BY <1>2, <1>3, <1>4 DEF serialize

LEMMA Stopped ==
    ASSUME LibraryInv, NEW c \in Clients, Stop(c)
    PROVE  /\ UNCHANGED <<aside, history>> /\ clients'[c].pc = "off"
           /\ LibText' = LibText /\ StoredText' = StoredText
<1>1. /\ UNCHANGED <<names, stored, inodes, aside, history>> /\ clients'[c].pc = "off"
  BY DEF Stop, NoClient, LibraryInv, LibraryTypes
<1> QED BY <1>1 DEF LibText, StoredText

LEMMA PowerLost ==
    ASSUME LibraryInv, LosePower
    PROVE  /\ UNCHANGED history /\ \A c \in Clients : clients'[c].pc = "off"
           /\ names'.lib # 0 => LibText' = inodes[names'.lib].text
           /\ LibText' \in {LibText, StoredText} /\ StoredText' = LibText'
<1>1. LibraryTypes /\ FilesWhole /\ 0 \notin Inodes
  BY DEF LibraryInv, Inodes
<1>2. /\ names'.lib \in {stored, names.lib} /\ stored' = names'.lib /\ UNCHANGED history
      /\ clients' = [c \in Clients |-> NoClient]
  BY DEF LosePower
<1>3. \A i \in Inodes : inodes[i].text = inodes[i].durable => inodes'[i].text = inodes[i].text
  BY DEF LosePower
<1>4. names'.lib # 0 => inodes'[names'.lib].text = inodes[names'.lib].text
  BY <1>1, <1>2, <1>3 DEF FilesWhole, Whole, LibraryTypes
<1>5. LibText' \in {LibText, StoredText} /\ StoredText' = LibText'
  BY <1>2, <1>4 DEF LibText, StoredText
<1> QED BY <1>2, <1>4, <1>5 DEF LibText, NoClient

----------------------------------------------------------------------------
\* A text whose profiles take routes they were given.
Loyal(text) ==
    text.whole /\ Understood(text.version) =>
        \A id \in Ids : text.modes[id] = NoProfile
                        \/ Route(text.version, text.modes[id]) \in meant[id]

MeantTyped == meant \in [Ids -> SUBSET Modes]

LoyalInv ==
    /\ Loyal(LibText) /\ Loyal(StoredText)
    /\ \A c \in Clients : clients[c].pc # "off" => Loyal(serialize(c))

LEMMA MeantStays ==
    /\ Init => MeantTyped
    /\ MeantTyped /\ [Next]_vars => MeantTyped'
<1>1. Init => MeantTyped
  <2> SUFFICES ASSUME Init PROVE MeantTyped
    OBVIOUS
  <2>1. first.modes \in [Ids -> Modes \cup {NoProfile}]
    BY LibraryAssumption DEF Init, Texts
  <2>2. \A id \in Ids : {Route(first.version, first.modes[id])} \ {NoProfile} \subseteq Modes
    BY <2>1 DEF Route, Modes
  <2> QED BY <2>2 DEF Init, MeantTyped
<1>2. ASSUME MeantTyped, [Next]_vars PROVE MeantTyped'
  <2>1. CASE UNCHANGED meant
    BY <1>2, <2>1 DEF MeantTyped
  <2>2. ASSUME NEW c \in Clients, Edit(c) PROVE MeantTyped'
    <3>1. PICK id \in Ids, mode \in {"direct", "auto"} :
                meant' = [meant EXCEPT ![id] = @ \cup {mode}]
      BY <2>2 DEF Edit
    <3>2. meant[id] \cup {mode} \in SUBSET Modes
      BY <1>2 DEF MeantTyped, Modes
    <3> QED BY <1>2, <3>1, <3>2 DEF MeantTyped
  <2>3. UNCHANGED meant \/ \E c \in Clients : Edit(c)
    BY <1>2 DEF Next, vars, history, LoadMissing, LoadLibrary, LoadNewer, LoadCorrupt,
       Remove, RecordConnection, Open, Write, Fsync, Rename, FlushDirectory, FlushFails,
       Fail, Stop, LosePower
  <2> QED BY <2>1, <2>2, <2>3
<1> QED BY <1>1, <1>2

LEMMA LoyalStarts == Init => LoyalInv
<1> SUFFICES ASSUME Init PROVE LoyalInv
  OBVIOUS
<1>1. Cardinality(Clients) \in Nat
  BY LibraryAssumption, FS_CardinalityType
<1>2. 1 \in Inodes /\ 1 # 0
  BY <1>1 DEF Inodes
<1>3. LibText = first /\ StoredText = first
  BY <1>2 DEF Init, LibText, StoredText
<1>4. Loyal(first)
  BY DEF Init, Loyal, Route, NoProfile, Understood
<1>5. \A c \in Clients : clients[c].pc = "off"
  BY DEF Init, NoClient
<1> QED BY <1>3, <1>4, <1>5 DEF LoyalInv

LEMMA LoyalSteps ==
    ASSUME \A c, d \in Clients : c = d, LibraryInv, MeantTyped, LoyalInv, [Next]_vars
    PROVE  LoyalInv'
<1>1. LibraryInv' /\ LibraryTypes
  BY LibrarySteps DEF LibraryInv
<1>2. /\ Loyal(LibText) /\ Loyal(StoredText)
      /\ \A c \in Clients : clients[c].pc # "off" => Loyal(serialize(c))
  BY DEF LoyalInv
\* A client that loads.
<1>3. ASSUME NEW c \in Clients, clients'[c].modes = NoProfiles
      PROVE  Loyal(serialize(c))'
  <2>1. \A id \in Ids : serialize(c)'.modes[id] = NoProfile
    BY <1>3 DEF serialize, Text, NoProfiles
  <2> QED BY <2>1 DEF Loyal
<1>4. ASSUME NEW c \in Clients, UNCHANGED <<stored, inodes, history>>,
             LibText' = LibText \/ LibText' = Missing, Loyal(serialize(c))'
      PROVE  LoyalInv'
  <2>1. StoredText' = StoredText /\ ~Missing.whole
    BY <1>4 DEF StoredText, Missing, Unreadable
  <2>2. Loyal(LibText)' /\ Loyal(StoredText)'
    BY <1>2, <1>4, <2>1 DEF Loyal, history
  <2> QED BY <1>4, <2>2 DEF LoyalInv
<1>5. ASSUME NEW c \in Clients, LoadMissing(c) \/ LoadNewer(c) \/ LoadCorrupt(c)
      PROVE  LoyalInv'
  <2>1. \E blind : Loads(c, NoProfiles, FALSE, blind)
    BY <1>5 DEF LoadMissing, LoadNewer, LoadCorrupt
  <2>2. Loyal(serialize(c))'
    BY <1>3, <2>1, Loaded
  <2>3. /\ UNCHANGED <<stored, inodes, history>>
        /\ names' = names \/ names' = [names EXCEPT !.lib = 0]
    BY <1>5 DEF LoadMissing, LoadNewer, LoadCorrupt, MovesLibraryAside
  <2>4. LibText' = LibText \/ LibText' = Missing
    BY <1>1, <2>3 DEF LibText, LibraryTypes
  <2> QED BY <1>4, <2>2, <2>3, <2>4
<1>6. ASSUME NEW c \in Clients, LoadLibrary(c) PROVE LoyalInv'
  <2> DEFINE modes == [id \in Ids |-> Route(LibText.version, LibText.modes[id])]
  <2>1. /\ Loads(c, modes, LibText.extra, FALSE)
        /\ UNCHANGED <<names, stored, inodes, history>>
        /\ LibText.whole /\ Understood(LibText.version)
    BY <1>6 DEF LoadLibrary
  <2>2. \A id \in Ids : \/ modes[id] = NoProfile
                        \/ Route(schema, modes[id]) = modes[id] /\ modes[id] \in meant[id]
    BY <1>2, <2>1 DEF Loyal, Route, NoProfile, schema
  <2> HIDE DEF modes
  <2>3. clients'[c].modes = modes /\ clients'[c].extra = LibText.extra
    BY <2>1, Loaded
  <2>4. serialize(c)' = Text(schema, modes, LibText.extra)
    BY <2>3 DEF serialize
  <2>5. Loyal(serialize(c))'
    BY <2>1, <2>2, <2>4 DEF Loyal, Text, history
  <2>6. LibText' = LibText
    BY <2>1 DEF LibText
  <2> QED BY <1>4, <2>1, <2>5, <2>6
\* What users do.
<1>7. ASSUME NEW c \in Clients, NEW modes, Saves(c, modes),
             \A id \in Ids : meant[id] \subseteq meant'[id],
             \A id \in Ids : \/ modes[id] = clients[c].modes[id]
                             \/ modes[id] = NoProfile
                             \/ modes[id] \in meant'[id] /\ modes[id] \in {"direct", "auto"}
      PROVE  LoyalInv'
  <2>1. /\ clients[c].pc = "idle" /\ clients'[c].modes = modes
        /\ LibText' = LibText /\ StoredText' = StoredText
    BY <1>7, Changed
  <2>2. Loyal(LibText)' /\ Loyal(StoredText)'
    BY <1>2, <1>7, <2>1 DEF Loyal
  <2>3. /\ serialize(c).modes = clients[c].modes /\ serialize(c).whole
        /\ serialize(c).version = schema /\ serialize(c)'.modes = modes
        /\ serialize(c)'.version = schema /\ Understood(schema)
    BY <2>1 DEF serialize, Text, Understood, schema
  <2>4. \A id \in Ids : modes[id] = NoProfile \/ Route(schema, modes[id]) \in meant'[id]
    BY <1>2, <1>7, <2>1, <2>3 DEF Loyal, Route, schema, NoProfile
  <2>5. Loyal(serialize(c))'
    BY <2>3, <2>4 DEF Loyal
  <2> QED BY <1>7, <2>2, <2>5 DEF LoyalInv
<1>8. ASSUME NEW c \in Clients, Edit(c) PROVE LoyalInv'
  <2>1. PICK id \in Ids, mode \in {"direct", "auto"} :
          /\ Saves(c, [clients[c].modes EXCEPT ![id] = mode])
          /\ meant' = [meant EXCEPT ![id] = @ \cup {mode}]
    BY <1>8 DEF Edit
  <2> DEFINE modes == [clients[c].modes EXCEPT ![id] = mode]
  <2>2. clients[c].modes \in [Ids -> Kept]
    BY <1>1 DEF LibraryTypes, Saving
  <2>3. \A j \in Ids : meant[j] \subseteq meant'[j]
    BY <2>1 DEF MeantTyped
  <2>4. mode \in meant'[id]
    BY <2>1 DEF MeantTyped
  <2>5. \A j \in Ids : modes[j] = clients[c].modes[j] \/ (modes[j] = mode /\ j = id)
    BY <2>2
  <2>6. \A j \in Ids : \/ modes[j] = clients[c].modes[j]
                       \/ modes[j] \in meant'[j] /\ modes[j] \in {"direct", "auto"}
    BY <2>4, <2>5
  <2> HIDE DEF modes
  <2>7. Saves(c, modes)
    BY <2>1 DEF modes
  <2> QED BY <1>7, <2>3, <2>6, <2>7
<1>9. ASSUME NEW c \in Clients, Remove(c) PROVE LoyalInv'
  <2>1. PICK id \in Ids :
          /\ Saves(c, [clients[c].modes EXCEPT ![id] = NoProfile]) /\ UNCHANGED meant
    BY <1>9 DEF Remove
  <2>2. clients[c].modes \in [Ids -> Kept]
    BY <1>1 DEF LibraryTypes, Saving
  <2> DEFINE modes == [clients[c].modes EXCEPT ![id] = NoProfile]
  <2>3. \A j \in Ids : modes[j] = clients[c].modes[j] \/ modes[j] = NoProfile
    BY <2>2
  <2> HIDE DEF modes
  <2> QED BY <1>7, <2>1, <2>3 DEF modes
<1>10. ASSUME NEW c \in Clients, RecordConnection(c) PROVE LoyalInv'
  BY <1>7, <1>10 DEF RecordConnection
\* A save, step by step.
<1>11. ASSUME NEW c \in Clients, LibText' \in {LibText, StoredText, serialize(c)},
              StoredText' \in {LibText, StoredText}, serialize(c)' = serialize(c),
              clients[c].pc # "off", UNCHANGED meant
       PROVE  LoyalInv'
  BY <1>2, <1>11 DEF LoyalInv, Loyal
<1>12. ASSUME NEW c \in Clients, Open(c) \/ Write(c) \/ Fsync(c) PROVE LoyalInv'
  BY <1>1, <1>11, <1>12, SaveGoesOn DEF history
<1>13. ASSUME NEW c \in Clients, Rename(c) PROVE LoyalInv'
  BY <1>11, <1>13, Replaced
<1>14. ASSUME NEW c \in Clients, FlushDirectory(c) \/ FlushFails(c) \/ Fail(c) PROVE LoyalInv'
  BY <1>11, <1>14, SaveEnds DEF history
<1>15. ASSUME NEW c \in Clients, Stop(c) PROVE LoyalInv'
  BY <1>2, <1>15, Stopped DEF LoyalInv, Loyal, history
<1>16. CASE LosePower
  BY <1>2, <1>16, PowerLost DEF LoyalInv, Loyal, history
<1>17. CASE UNCHANGED vars
  BY <1>2, <1>17 DEF vars, history, LoyalInv, Loyal, LibText, StoredText, serialize
<1> QED BY <1>5, <1>6, <1>8, <1>9, <1>10, <1>12, <1>13, <1>14, <1>15, <1>16, <1>17 DEF Next

----------------------------------------------------------------------------
\* All that no user removed is under the library's name, on the medium and in the model of
\* every client that is not blind.
NothingLost ==
    /\ HasAll(LibText) /\ HasAll(StoredText)
    /\ \A c \in Clients : clients[c].pc # "off" => clients[c].blind \/ HasAll(serialize(c))

InAside == \E text \in aside : HasAll(text)

KeptInv ==
    first.whole /\ Understood(first.version) => overwrote \/ InAside \/ NothingLost

LEMMA KeptStarts == Init => KeptInv
<1> SUFFICES ASSUME Init, first.whole, Understood(first.version) PROVE NothingLost
  BY DEF KeptInv
<1>1. Cardinality(Clients) \in Nat
  BY LibraryAssumption, FS_CardinalityType
<1>2. 1 \in Inodes /\ 1 # 0
  BY <1>1 DEF Inodes
<1>3. LibText = first /\ StoredText = first
  BY <1>2 DEF Init, LibText, StoredText
<1>4. HasAll(first)
  BY DEF HasAll
<1>5. \A c \in Clients : clients[c].pc = "off"
  BY DEF Init, NoClient
<1> QED BY <1>3, <1>4, <1>5 DEF NothingLost

LEMMA HistoryStays ==
    ASSUME [Next]_vars
    PROVE  first' = first /\ removed \subseteq removed' /\ (overwrote => overwrote')
<1>1. ASSUME NEW c \in Clients,
             LoadMissing(c) \/ LoadLibrary(c) \/ LoadNewer(c) \/ LoadCorrupt(c) \/ Open(c)
             \/ Write(c) \/ Fsync(c) \/ FlushDirectory(c) \/ FlushFails(c) \/ Fail(c) \/ Stop(c)
      PROVE  UNCHANGED history
  BY <1>1 DEF LoadMissing, LoadLibrary, LoadNewer, LoadCorrupt, Open, Write, Fsync,
     FlushDirectory, FlushFails, Fail, Stop
<1>2. LosePower => UNCHANGED history
  BY DEF LosePower
<1>3. ASSUME NEW c \in Clients, Edit(c) \/ Remove(c) \/ RecordConnection(c)
      PROVE  first' = first /\ removed \subseteq removed' /\ overwrote' = overwrote
  BY <1>3 DEF Edit, Remove, RecordConnection, Saves
<1>4. ASSUME NEW c \in Clients, Rename(c)
      PROVE  first' = first /\ removed' = removed /\ (overwrote => overwrote')
  BY <1>4 DEF Rename
<1> QED BY <1>1, <1>2, <1>3, <1>4 DEF Next, vars, history

LEMMA KeptSteps ==
    ASSUME \A c, d \in Clients : c = d, LibraryInv, KeptInv, [Next]_vars
    PROVE  KeptInv'
<1>1. LibraryInv' /\ LibraryTypes
  BY LibrarySteps DEF LibraryInv
<1>2. first' = first /\ removed \subseteq removed' /\ (overwrote => overwrote')
  BY HistoryStays
<1>3. ASSUME NEW text, HasAll(text) PROVE HasAll(text)'
  BY <1>2, <1>3 DEF HasAll
<1> SUFFICES ASSUME first.whole, Understood(first.version)
             PROVE  (overwrote \/ InAside \/ NothingLost)'
  BY <1>2 DEF KeptInv
<1>4. CASE overwrote
  BY <1>2, <1>4
\* What was moved aside stays there, unless it has its name again.
<1>5. CASE InAside
  <2>1. PICK text \in aside : HasAll(text)
    BY <1>5 DEF InAside
  <2>2. CASE text \in aside'
    BY <1>3, <2>1, <2>2 DEF InAside
  <2>3. CASE text \notin aside'
    <3>1. LosePower
      BY <2>1, <2>3 DEF Next, vars, LoadMissing, LoadLibrary, LoadNewer, LoadCorrupt,
         MovesLibraryAside, Edit, Remove, RecordConnection, Saves, Open, Write, Fsync,
         Rename, FlushDirectory, FlushFails, Fail, Stop
    <3>2. names'.lib # 0 /\ text = inodes[names'.lib].text
      BY <2>1, <2>3, <3>1 DEF LosePower
    <3>3. LibText' = text /\ StoredText' = text /\ \A c \in Clients : clients'[c].pc = "off"
      BY <3>1, <3>2, PowerLost
    <3>4. HasAll(LibText)' /\ HasAll(StoredText)'
      BY <1>2, <2>1, <3>3 DEF HasAll
    <3> QED BY <3>3, <3>4 DEF NothingLost
  <2> QED BY <2>2, <2>3
<1>6. CASE NothingLost
  <2>1. /\ HasAll(LibText) /\ HasAll(StoredText)
        /\ \A c \in Clients : clients[c].pc # "off" => clients[c].blind \/ HasAll(serialize(c))
    BY <1>6 DEF NothingLost
  \* A client that loads.
  <2>2. ASSUME NEW c \in Clients, UNCHANGED <<names, stored, inodes>>,
               clients'[c].blind \/ HasAll(serialize(c))'
        PROVE  NothingLost'
    <3>1. LibText' = LibText /\ StoredText' = StoredText
      BY <2>2 DEF LibText, StoredText
    <3>2. HasAll(LibText)' /\ HasAll(StoredText)'
      BY <1>2, <2>1, <3>1 DEF HasAll
    <3> QED BY <2>2, <3>2 DEF NothingLost
  <2>3. ASSUME NEW c \in Clients, LoadMissing(c) PROVE NothingLost'
    <3>1. names.lib # 0
      BY <2>1 DEF HasAll, LibText, Missing, Unreadable
    <3>2. Loads(c, NoProfiles, FALSE, names.lib # 0) /\ UNCHANGED <<names, stored, inodes>>
      BY <2>3 DEF LoadMissing
    <3>3. clients'[c].blind = (names.lib # 0)
      BY <3>2, Loaded
    <3> QED BY <2>2, <3>1, <3>2, <3>3
  <2>4. ASSUME NEW c \in Clients, LoadLibrary(c) PROVE NothingLost'
    <3> DEFINE modes == [id \in Ids |-> Route(LibText.version, LibText.modes[id])]
    <3>1. Loads(c, modes, LibText.extra, FALSE) /\ UNCHANGED <<names, stored, inodes>>
      BY <2>4 DEF LoadLibrary
    <3>2. \A id \in Ids : LibText.modes[id] # NoProfile => modes[id] # NoProfile
      BY DEF Route, NoProfile
    <3> HIDE DEF modes
    <3>3. clients'[c].modes = modes /\ clients'[c].extra = LibText.extra
      BY <3>1, Loaded
    <3>4. serialize(c)' = Text(schema, modes, LibText.extra)
      BY <3>3 DEF serialize
    <3>5. HasAll(serialize(c))'
      BY <1>2, <2>1, <3>2, <3>4 DEF HasAll, Text, Understood, schema
    <3> QED BY <2>2, <3>1, <3>5
  <2>5. ASSUME NEW c \in Clients, LoadNewer(c) PROVE FALSE
    BY <2>1, <2>5 DEF LoadNewer, HasAll
  <2>6. ASSUME NEW c \in Clients, LoadCorrupt(c) PROVE (InAside \/ NothingLost)'
    <3>1. PICK moved \in BOOLEAN :
            /\ IF moved THEN MovesLibraryAside ELSE UNCHANGED <<names, aside>>
            /\ Loads(c, NoProfiles, FALSE, ~moved)
      BY <2>6 DEF LoadCorrupt
    <3>2. CASE moved
      <4>1. LibText \in aside'
        BY <3>1, <3>2 DEF MovesLibraryAside
      <4>2. PICK text : text = LibText
        OBVIOUS
      <4> QED BY <1>3, <2>1, <4>1, <4>2 DEF InAside
    <3>3. CASE ~moved
      <4>1. clients'[c].blind = ~moved /\ UNCHANGED <<names, stored, inodes>>
        BY <2>6, <3>1, <3>3, Loaded DEF LoadCorrupt
      <4> QED BY <2>2, <3>3, <4>1
    <3> QED BY <3>2, <3>3
  \* What users do.
  <2>7. ASSUME NEW c \in Clients, NEW modes, Saves(c, modes),
               \A id \in Ids \ removed' :
                   clients[c].modes[id] # NoProfile => modes[id] # NoProfile
        PROVE  NothingLost'
    <3>1. /\ clients[c].pc = "idle" /\ clients'[c].modes = modes
          /\ clients'[c].extra = clients[c].extra /\ clients'[c].blind = clients[c].blind
          /\ UNCHANGED <<names, stored, inodes>>
      BY <2>7, Changed
    <3>2. CASE clients[c].blind
      BY <2>2, <3>1, <3>2
    <3>3. CASE HasAll(serialize(c))
      <4>1. /\ serialize(c) = Text(schema, clients[c].modes, clients[c].extra)
            /\ serialize(c)' = Text(schema, modes, clients[c].extra)
        BY <3>1 DEF serialize
      <4>2. HasAll(serialize(c))'
        BY <1>2, <2>7, <3>3, <4>1 DEF HasAll, Text
      <4> QED BY <2>2, <3>1, <4>2
    <3> QED BY <2>1, <3>1, <3>2, <3>3
  <2>8. ASSUME NEW c \in Clients, Edit(c) PROVE NothingLost'
    <3>1. PICK id \in Ids, mode \in {"direct", "auto"} :
            Saves(c, [clients[c].modes EXCEPT ![id] = mode])
      BY <2>8 DEF Edit
    <3> DEFINE modes == [clients[c].modes EXCEPT ![id] = mode]
    <3>2. clients[c].modes \in [Ids -> Kept]
      BY <1>1 DEF LibraryTypes, Saving
    <3>3. \A j \in Ids : clients[c].modes[j] # NoProfile => modes[j] # NoProfile
      BY <3>2 DEF NoProfile
    <3> HIDE DEF modes
    <3>4. Saves(c, modes)
      BY <3>1 DEF modes
    <3> QED BY <2>7, <3>3, <3>4
  <2>9. ASSUME NEW c \in Clients, Remove(c) PROVE NothingLost'
    <3>1. PICK id \in Ids :
            /\ Saves(c, [clients[c].modes EXCEPT ![id] = NoProfile])
            /\ removed' = removed \cup {id}
      BY <2>9 DEF Remove
    <3> DEFINE modes == [clients[c].modes EXCEPT ![id] = NoProfile]
    <3>2. clients[c].modes \in [Ids -> Kept]
      BY <1>1 DEF LibraryTypes, Saving
    <3>3. \A j \in Ids \ removed' : modes[j] = clients[c].modes[j]
      BY <3>1, <3>2
    <3> HIDE DEF modes
    <3>4. Saves(c, modes)
      BY <3>1 DEF modes
    <3> QED BY <2>7, <3>3, <3>4
  <2>10. ASSUME NEW c \in Clients, RecordConnection(c) PROVE NothingLost'
    BY <2>7, <2>10 DEF RecordConnection
  \* A save, step by step.
  <2>11. ASSUME NEW c \in Clients, LibText' \in {LibText, StoredText},
                StoredText' \in {LibText, StoredText}, serialize(c)' = serialize(c),
                clients[c].pc # "off", clients'[c].blind = clients[c].blind
         PROVE  NothingLost'
    <3>1. HasAll(LibText)' /\ HasAll(StoredText)'
      BY <1>2, <2>1, <2>11 DEF HasAll
    <3>2. clients'[c].blind \/ HasAll(serialize(c))'
      BY <1>2, <2>1, <2>11 DEF HasAll
    <3> QED BY <2>11, <3>1, <3>2 DEF NothingLost
  <2>12. ASSUME NEW c \in Clients, Open(c) \/ Write(c) \/ Fsync(c) PROVE NothingLost'
    BY <1>1, <2>11, <2>12, SaveGoesOn
  <2>13. ASSUME NEW c \in Clients, Rename(c) PROVE (overwrote \/ NothingLost)'
    <3>1. /\ clients[c].pc = "renaming" /\ overwrote' = (overwrote \/ clients[c].blind)
          /\ clients'[c].blind = clients[c].blind /\ serialize(c)' = serialize(c)
          /\ LibText' = serialize(c) /\ StoredText' = StoredText
      BY <2>13, Replaced
    <3>2. CASE clients[c].blind
      BY <3>1, <3>2
    <3>3. CASE HasAll(serialize(c))
      <4>1. HasAll(LibText)' /\ HasAll(StoredText)' /\ HasAll(serialize(c))'
        BY <1>2, <2>1, <3>1, <3>3 DEF HasAll
      <4> QED BY <2>13, <4>1 DEF NothingLost
    <3> QED BY <2>1, <3>1, <3>2, <3>3
  <2>14. ASSUME NEW c \in Clients, FlushDirectory(c) \/ FlushFails(c) \/ Fail(c)
         PROVE  NothingLost'
    BY <2>11, <2>14, SaveEnds
  \* A client that is gone, or all of them.
  <2>15. ASSUME LibText' \in {LibText, StoredText}, StoredText' \in {LibText, StoredText},
                \A c \in Clients : clients'[c].pc = "off"
         PROVE  NothingLost'
    <3>1. HasAll(LibText)' /\ HasAll(StoredText)'
      BY <1>2, <2>1, <2>15 DEF HasAll
    <3> QED BY <2>15, <3>1 DEF NothingLost
  <2>16. ASSUME NEW c \in Clients, Stop(c) PROVE NothingLost'
    BY <2>15, <2>16, Stopped
  <2>17. CASE LosePower
    BY <2>15, <2>17, PowerLost
  <2>18. CASE UNCHANGED vars
    BY <2>1, <2>18 DEF vars, history, NothingLost, HasAll, LibText, StoredText, serialize
  <2> QED BY <2>3, <2>4, <2>5, <2>6, <2>8, <2>9, <2>10, <2>12, <2>13, <2>14, <2>16, <2>17,
     <2>18 DEF Next
<1> QED BY <1>4, <1>5, <1>6 DEF KeptInv

----------------------------------------------------------------------------
\* NothingDropped and RouteKept for one client: ConnectionLibrary's load(), migration and
\* save(), whatever fails, is killed or loses power.
THEOREM LibraryIsKept ==
    ASSUME \A c, d \in Clients : c = d PROVE Spec => [](NothingDropped /\ RouteKept)
<1>1. Init => LibraryInv /\ MeantTyped /\ LoyalInv /\ KeptInv
  BY LibraryStarts, MeantStays, LoyalStarts, KeptStarts
<1>2. LibraryInv /\ MeantTyped /\ LoyalInv /\ KeptInv /\ [Next]_vars
        => (LibraryInv /\ MeantTyped /\ LoyalInv /\ KeptInv)'
  BY LibrarySteps, MeantStays, LoyalSteps, KeptSteps
<1>3. LoyalInv /\ KeptInv => NothingDropped /\ RouteKept
  BY DEF LoyalInv, Loyal, RouteKept, KeptInv, NothingLost, InAside, NothingDropped
<1> QED BY <1>1, <1>2, <1>3, PTL DEF Spec
==============================================================================
