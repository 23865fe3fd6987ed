--------------------------- MODULE TransportProofs ---------------------------
(* What the transports promise, for every value of their constants: the socket's     *)
(* abort(), the store of known brokers, the fetched fonts.                           *)
EXTENDS TcpSocket, KnownBrokers, BrokerSession, FontFetch, FiniteSetTheorems,
        SequenceTheorems, TLAPS

----------------------------------------------------------------------------
(* TcpSocket: what the owner, abort() and close() act on is this socket's own        *)
(* descriptor, and abort() is final.                                                 *)

\* A candidate exists from its socket() to the end of its connect(); before it is
\* published socket_ is empty, and from then on it is the candidate until Windows' abort()
\* takes it.
CandidateKept ==
    /\ at \in {"idle", "resolved"} => candidate = None
    /\ at \in {"resolved", "opened"} => socket_ = None
    /\ at = "opened" => candidate \in Descriptors /\ holder[candidate] = "ours"
    /\ at \in {"published", "connecting", "connected", "refused"} =>
         /\ candidate \in Descriptors
         /\ socket_ = candidate \/ (windows /\ socket_ = None)

SocketInv == SocketTypeOK /\ windows \in BOOLEAN /\ ItsOwnDescriptor /\ CandidateKept

----------------------------------------------------------------------------
\* Closing a descriptor leaves the others with whom they had.
LEMMA ReleasedOne ==
    ASSUME SocketTypeOK, NEW d \in Descriptors \cup {None}, Released(d)
    PROVE  /\ holder' \in [Descriptors -> {"free", "ours", "theirs"}]
           /\ shut' \subseteq Descriptors
           /\ \A e \in Descriptors \ {d} : holder'[e] = holder[e]
BY SocketAssumption DEF SocketTypeOK, Released

LEMMA SocketStarts == SocketInit => SocketInv
BY SocketAssumption DEF SocketInit, SocketInv, SocketTypeOK, ItsOwnDescriptor, CandidateKept

\* Every step keeps the invariant.
LEMMA SocketSteps == SocketInv /\ [SocketNext]_socketVars => SocketInv'
<1> SUFFICES ASSUME SocketInv, [SocketNext]_socketVars PROVE SocketInv'
  OBVIOUS
<1>0. SocketTypeOK /\ ItsOwnDescriptor /\ CandidateKept /\ windows \in BOOLEAN
  BY DEF SocketInv
<1> USE SocketAssumption
<1> USE DEF SocketInv, SocketTypeOK, ItsOwnDescriptor, CandidateKept, socketEnd, socketOwner
<1>1. CASE OpensCandidate BY <1>0, <1>1 DEF OpensCandidate
<1>2. CASE Publishes
  <2>1. CASE aborted_
    BY <1>0, <1>2, <2>1, ReleasedOne DEF Publishes, Ends
  <2>2. CASE ~aborted_
    BY <1>0, <1>2, <2>2 DEF Publishes
  <2> QED BY <2>1, <2>2
<1>3. CASE Begins BY <1>0, <1>3 DEF Begins
<1>4. CASE connect_bounded BY <1>0, <1>4 DEF connect_bounded
<1>5. CASE ShutTooEarly BY <1>0, <1>5 DEF ShutTooEarly
<1>6. CASE Connected BY <1>0, <1>6 DEF Connected, Ends
<1>7. CASE Refused
  <2>1. candidate \in Descriptors
    BY <1>0, <1>7 DEF Refused
  <2> QED BY <1>0, <1>7, <2>1, ReleasedOne DEF Refused, Ends
<1>8. CASE Exhausted BY <1>0, <1>8 DEF Exhausted, Ends
<1>9. CASE Resolves
  <2>1. holder' \in [Descriptors -> {"free", "ours", "theirs"}] /\ shut' \subseteq Descriptors
    BY <1>0, <1>9, ReleasedOne DEF Resolves
  <2> QED BY <1>0, <1>9, <2>1 DEF Resolves
<1>10. CASE Receives BY <1>0, <1>10 DEF Receives
<1>11. CASE SocketCloses
  <2>1. holder' \in [Descriptors -> {"free", "ours", "theirs"}] /\ shut' \subseteq Descriptors
    BY <1>0, <1>11, ReleasedOne DEF SocketCloses
  <2> QED BY <1>0, <1>11, <2>1 DEF SocketCloses
<1>12. CASE Abort
  <2>1. CASE windows
    <3>1. /\ holder' \in [Descriptors -> {"free", "ours", "theirs"}] /\ shut' \subseteq Descriptors
          /\ \A e \in Descriptors \ {socket_} : holder'[e] = holder[e]
      BY <1>0, <1>12, <2>1, ReleasedOne DEF Abort
    <3> QED BY <1>0, <1>12, <2>1, <3>1 DEF Abort
  <2>2. CASE ~windows
    BY <1>0, <1>12, <2>2 DEF Abort
  <2> QED BY <2>1, <2>2
<1>13. CASE SomeoneElse BY <1>0, <1>13 DEF SomeoneElse
<1>14. CASE UNCHANGED socketVars BY <1>0, <1>14 DEF socketVars
<1> QED BY <1>1, <1>2, <1>3, <1>4, <1>5, <1>6, <1>7, <1>8, <1>9, <1>10, <1>11, <1>12, <1>13,
           <1>14 DEF SocketNext, ConnectStep

\* Once aborted, no step publishes a candidate or reports a connection.
LEMMA AbortStops ==
    [SocketNext]_socketVars /\ aborted_ =>
      /\ socket_' \in {socket_, None}
      /\ result' = "connected" => result = "connected"
BY DEF SocketNext, ConnectStep, OpensCandidate, Publishes, Begins, connect_bounded,
   ShutTooEarly,
       Connected, Refused, Exhausted, Resolves, Receives, SocketCloses, Abort, SomeoneElse, Ends,
       socketVars, socketEnd, socketOwner

----------------------------------------------------------------------------
\* AbortIsSafe for any numbers of descriptors and addresses: TcpSocket::connect(),
\* abort() and close().
THEOREM AbortAlwaysSafe == SocketSpec => AbortIsSafe
<1>1. SocketInv => SocketTypeOK /\ ItsOwnDescriptor
  BY DEF SocketInv
<1>2. [SocketNext]_socketVars =>
        [aborted_ => /\ socket_' \in {socket_, None}
                     /\ result' = "connected" => result = "connected"]_socketVars
  BY AbortStops
<1> QED BY <1>1, <1>2, SocketStarts, SocketSteps, PTL DEF SocketSpec, AbortIsSafe,
   AbortIsFinal

----------------------------------------------------------------------------
(* KnownBrokers: a connection is only ever to a certificate somebody accepted for    *)
(* that broker, and where no other client writes in between an entry is only changed *)
(* by the user's own "replace".                                                      *)

\* Whatever the file or a copy of it names was vouched for.
Vouched(store) == \A b \in Brokers : has_entry(store, b) => store[b] \in vouched[b]

Stages  == {"idle", "seeding", "seed saving", "verifying", "deciding", "recording", "saving",
            "connected", "failed"}
Checks  == [state : {"none", "known", "unknown", "changed"}, presented : Entry, stored : Entry]
Actions == {"none", "store_new", "replace_stored", "refuse"}

BrokersTypeOK ==
    /\ certificate \in [Brokers -> Certs] /\ file \in [Brokers -> Entry]
    /\ target \in [Clients -> Brokers] /\ seed \in [Clients -> Entry]
    /\ policy \in [Clients -> [accept_new : BOOLEAN, prompt : BOOLEAN]]
    /\ stage \in [Clients -> Stages] /\ copy \in [Clients -> [Brokers -> Entry]]
    /\ check \in [Clients -> Checks] /\ action \in [Clients -> Actions]
    /\ vouched \in [Brokers -> SUBSET Entry]

\* What is behind a save: a seed only where the copy has no entry, a record there too,
\* or where the user answered "replace" to a changed certificate.
Replaces(c) ==
    action[c] = "replace_stored" /\ policy[c].prompt /\ check[c].state = "changed"
Grounds(c) ==
    /\ stage[c] = "deciding" => check[c].state \in {"unknown", "changed"}
    /\ stage[c] = "recording" => action[c] = "store_new" \/ Replaces(c)
    /\ stage[c] = "seed saving" => ~has_entry(copy[c], target[c])
    /\ stage[c] = "saving" => ~has_entry(copy[c], target[c]) \/ Replaces(c)

StoreInv ==
    /\ BrokersTypeOK
    /\ Vouched(file) /\ \A c \in Clients : Vouched(copy[c]) /\ Grounds(c)
    /\ OnlyVouchedFor

----------------------------------------------------------------------------
\* The initial file, and each client's copy of it, are vouched for.
LEMMA StoreStarts == BrokersInit => StoreInv
<1> SUFFICES ASSUME BrokersInit PROVE StoreInv
  OBVIOUS
<1>1. BrokersTypeOK
  BY DEF BrokersInit, BrokersTypeOK, Entry, NoCheck, Checks, Stages, Actions
<1>2. Vouched(file) /\ \A c \in Clients : copy[c] = file
  BY DEF BrokersInit, Vouched, has_entry, Entry
<1>3. \A c \in Clients : stage[c] = "idle"
  BY DEF BrokersInit
<1> QED BY <1>1, <1>2, <1>3 DEF StoreInv, Grounds, OnlyVouchedFor, Vouched

\* A client's step that leaves the file and the vouchers alone keeps the invariant, if it
\* keeps what it says of that client.
LEMMA ClientStep ==
    ASSUME StoreInv, NEW c \in Clients, BrokersTypeOK',
           UNCHANGED <<file, target, policy, vouched>>,
           \A d \in Clients \ {c} : /\ stage'[d] = stage[d] /\ copy'[d] = copy[d]
                                    /\ check'[d] = check[d] /\ action'[d] = action[d],
           Grounds(c)', copy'[c] \in {copy[c], file},
           stage'[c] = "connected" => check'[c].presented \in vouched[target[c]]
    PROVE  StoreInv'
<1> USE DEF StoreInv
<1>1. Vouched(file)'
  BY DEF Vouched, has_entry
<1>2. ASSUME NEW d \in Clients PROVE Vouched(copy[d])' /\ Grounds(d)'
  <2>1. CASE d = c
    BY <2>1 DEF Vouched, has_entry
  <2>2. CASE d # c
    <3>1. /\ stage'[d] = stage[d] /\ copy'[d] = copy[d] /\ check'[d] = check[d]
          /\ action'[d] = action[d]
      BY <2>2
    <3>2. Vouched(copy[d])'
      BY <3>1 DEF Vouched, has_entry
    <3>3. target'[d] = target[d] /\ policy'[d] = policy[d]
      OBVIOUS
    <3>4. Grounds(d)
      OBVIOUS
    <3>5. Grounds(d)'
      BY <3>1, <3>3, <3>4 DEF Grounds, Replaces, has_entry
    <3> QED BY <3>2, <3>5
  <2> QED BY <2>1, <2>2
<1>3. OnlyVouchedFor'
  BY DEF OnlyVouchedFor
<1> QED BY <1>1, <1>2, <1>3

\* A save: the file becomes the copy with one entry put in it, and that entry's
\* certificate has been accepted.
LEMMA SaveStep ==
    ASSUME StoreInv, NEW c \in Clients, NEW cert \in Entry, BrokersTypeOK',
           UNCHANGED <<target, policy, copy, check, action>>,
           file' = Put(copy[c], target[c], cert),
           vouched' = [vouched EXCEPT ![target[c]] = @ \cup {cert}],
           \A d \in Clients \ {c} : stage'[d] = stage[d],
           stage'[c] \in {"idle", "verifying"}
    PROVE  StoreInv'
<1> USE DEF StoreInv
<1>1. \A b \in Brokers : /\ vouched[b] \subseteq vouched'[b]
                         /\ file'[b] = IF b = target[c] THEN cert ELSE copy[c][b]
  BY DEF BrokersTypeOK, Put
<1>2. cert \in vouched'[target[c]] /\ target[c] \in Brokers
  BY DEF BrokersTypeOK
<1>3. Vouched(file)'
  BY <1>1, <1>2 DEF Vouched, has_entry
<1>4. ASSUME NEW d \in Clients PROVE Vouched(copy[d])' /\ Grounds(d)'
  <2>1. Vouched(copy[d])' BY <1>1 DEF Vouched, has_entry
  <2>2. Grounds(d)'
    BY DEF Grounds, Replaces, has_entry
  <2> QED BY <2>1, <2>2
<1>5. ASSUME NEW d \in Clients, stage'[d] = "connected"
      PROVE  check'[d].presented \in vouched'[target'[d]]
  <2>1. stage[d] = "connected" /\ target[d] \in Brokers
    BY <1>5 DEF BrokersTypeOK
  <2> QED BY <1>1, <2>1 DEF OnlyVouchedFor
<1> QED BY <1>3, <1>4, <1>5 DEF OnlyVouchedFor

\* A step's new entries have the types of the old.
LEMMA Placed ==
    ASSUME BrokersTypeOK, NEW c \in Clients
    PROVE  /\ \A place \in Stages : StageOf(c, place) => stage' \in [Clients -> Stages]
           /\ \A store \in [Brokers -> Entry], b \in Brokers, k \in Entry :
                Put(store, b, k) \in [Brokers -> Entry]
           /\ \A store \in [Brokers -> Entry] :
                [copy EXCEPT ![c] = store] \in [Clients -> [Brokers -> Entry]]
           /\ \A k \in Checks : [check EXCEPT ![c] = k] \in [Clients -> Checks]
           /\ \A a \in Actions : [action EXCEPT ![c] = a] \in [Clients -> Actions]
           /\ \A b \in Brokers, k \in Entry :
                [vouched EXCEPT ![b] = @ \cup {k}] \in [Brokers -> SUBSET Entry]
           /\ target[c] \in Brokers /\ seed[c] \in Entry /\ certificate[target[c]] \in Entry
           /\ copy[c] \in [Brokers -> Entry] /\ check[c] \in Checks
           /\ check[c].presented \in Entry /\ file[target[c]] \in Entry
<1> USE DEF BrokersTypeOK
<1>1. \A place \in Stages : StageOf(c, place) => stage' \in [Clients -> Stages]
  BY DEF StageOf
<1>2. \A store \in [Brokers -> Entry], b \in Brokers, k \in Entry :
        Put(store, b, k) \in [Brokers -> Entry]
  BY DEF Put
<1>3. \A b \in Brokers, k \in Entry :
        [vouched EXCEPT ![b] = @ \cup {k}] \in [Brokers -> SUBSET Entry]
  OBVIOUS
<1>4. target[c] \in Brokers /\ seed[c] \in Entry /\ certificate[target[c]] \in Entry
  BY DEF Entry
<1>5. check[c] \in Checks /\ check[c].presented \in Entry
  BY DEF Checks
<1>6. file[target[c]] \in Entry /\ copy[c] \in [Brokers -> Entry]
  BY <1>4
<1> QED BY <1>1, <1>2, <1>3, <1>4, <1>5, <1>6

\* Every step keeps the types.
LEMMA StoreTypes == BrokersTypeOK /\ [BrokersNext]_brokersVars => BrokersTypeOK'
<1> SUFFICES ASSUME BrokersTypeOK, [BrokersNext]_brokersVars PROVE BrokersTypeOK'
  OBVIOUS
<1> USE DEF brokersFixed
<1>1. ASSUME NEW c \in Clients, Handshakes(c) PROVE BrokersTypeOK'
  <2>1. [NoCheck EXCEPT !.presented = certificate[target[c]]] \in Checks
    BY Placed DEF NoCheck, Checks, Entry
  <2>2. \E place \in Stages : StageOf(c, place)
    BY <1>1 DEF Handshakes, Stages
  <2> QED BY <1>1, <2>1, <2>2, Placed DEF Handshakes, BrokersTypeOK
<1>2. ASSUME NEW c \in Clients, SeedLoads(c) PROVE BrokersTypeOK'
  <2>1. \E place \in Stages : StageOf(c, place)
    BY <1>2 DEF SeedLoads, Stages
  <2> QED BY <1>2, <2>1, Placed DEF SeedLoads, BrokersTypeOK
<1>3. ASSUME NEW c \in Clients, SeedSaves(c) PROVE BrokersTypeOK'
  <2>1. \E place \in Stages : StageOf(c, place)
    BY <1>3 DEF SeedSaves, Stages
  <2>2. stage' \in [Clients -> Stages]
    BY <2>1, Placed
  <2>3. \/ file' = file /\ vouched' = vouched
        \/ /\ file' = Put(copy[c], target[c], seed[c])
           /\ vouched' = [vouched EXCEPT ![target[c]] = @ \cup {seed[c]}]
    BY <1>3 DEF SeedSaves
  <2>4. file' \in [Brokers -> Entry] /\ vouched' \in [Brokers -> SUBSET Entry]
    <3>1. CASE file' = file /\ vouched' = vouched
      BY <3>1 DEF BrokersTypeOK
    <3>2. CASE /\ file' = Put(copy[c], target[c], seed[c])
               /\ vouched' = [vouched EXCEPT ![target[c]] = @ \cup {seed[c]}]
      BY <3>2, Placed
    <3> QED BY <2>3, <3>1, <3>2
  <2> QED BY <1>3, <2>2, <2>4 DEF SeedSaves, BrokersTypeOK
<1>4. ASSUME NEW c \in Clients, Verifies(c) PROVE BrokersTypeOK'
  <2> DEFINE state == lookup(file, target[c], check[c].presented)
  <2>1. [check[c] EXCEPT !.state = state, !.stored = file[target[c]]] \in Checks
    <3>1. state \in {"known", "unknown", "changed"} BY DEF lookup
    <3> HIDE DEF state
    <3> QED BY <3>1, Placed DEF Checks
  <2>2. \/ UNCHANGED check
        \/ check' = [check EXCEPT ![c] = [check[c] EXCEPT !.state = state, !.stored = file[target[c]]]]
    BY <1>4 DEF Verifies, BrokersTypeOK
  <2>3. check' \in [Clients -> Checks]
    <3>1. check \in [Clients -> Checks]
      BY DEF BrokersTypeOK
    <3> HIDE DEF state
    <3> QED BY <2>1, <2>2, <3>1
  <2>4. \E place \in Stages : StageOf(c, place)
    BY <1>4 DEF Verifies, Stages
  <2> QED BY <1>4, <2>3, <2>4, Placed DEF Verifies, BrokersTypeOK
<1>5. ASSUME NEW c \in Clients, resolve_broker_trust(c) PROVE BrokersTypeOK'
  <2>1. Resolutions(policy[c], check[c].state) \subseteq Actions
    BY DEF Resolutions, Actions
  <2>2. \E place \in Stages : StageOf(c, place)
    BY <1>5 DEF resolve_broker_trust, Stages
  <2>3. action' \in [Clients -> Actions]
    BY <1>5, <2>1, Placed DEF resolve_broker_trust
  <2> QED BY <1>5, <2>2, <2>3, Placed DEF resolve_broker_trust, BrokersTypeOK
<1>6. ASSUME NEW c \in Clients, RecordLoads(c) PROVE BrokersTypeOK'
  <2>1. \E place \in Stages : StageOf(c, place)
    BY <1>6 DEF RecordLoads, Stages
  <2> QED BY <1>6, <2>1, Placed DEF RecordLoads, BrokersTypeOK
<1>7. ASSUME NEW c \in Clients, RecordSaves(c) PROVE BrokersTypeOK'
  <2>1. \E place \in Stages : StageOf(c, place)
    BY <1>7 DEF RecordSaves, Stages
  <2>2. stage' \in [Clients -> Stages]
    BY <2>1, Placed
  <2>3. \/ file' = file /\ vouched' = vouched
        \/ /\ file' = Put(copy[c], target[c], check[c].presented)
           /\ vouched' = [vouched EXCEPT ![target[c]] = @ \cup {check[c].presented}]
    BY <1>7 DEF RecordSaves
  <2>4. file' \in [Brokers -> Entry] /\ vouched' \in [Brokers -> SUBSET Entry]
    <3>1. CASE file' = file /\ vouched' = vouched
      BY <3>1 DEF BrokersTypeOK
    <3>2. CASE /\ file' = Put(copy[c], target[c], check[c].presented)
               /\ vouched' = [vouched EXCEPT ![target[c]] = @ \cup {check[c].presented}]
      BY <3>2, Placed
    <3> QED BY <2>3, <3>1, <3>2
  <2> QED BY <1>7, <2>2, <2>4 DEF RecordSaves, BrokersTypeOK
<1>8. CASE Renews BY <1>8 DEF Renews, BrokersTypeOK
<1>9. CASE UNCHANGED brokersVars BY <1>9 DEF brokersVars, BrokersTypeOK
<1> QED BY <1>1, <1>2, <1>3, <1>4, <1>5, <1>6, <1>7, <1>8, <1>9 DEF BrokersNext, BrokersDone

\* Every step keeps the invariant.
LEMMA StoreSteps == StoreInv /\ [BrokersNext]_brokersVars => StoreInv'
<1> SUFFICES ASSUME StoreInv, [BrokersNext]_brokersVars PROVE StoreInv'
  OBVIOUS
<1>0. BrokersTypeOK /\ BrokersTypeOK'
  BY StoreTypes DEF StoreInv
<1> USE DEF StageOf, brokersFixed
<1>1. ASSUME NEW c \in Clients, Handshakes(c) PROVE StoreInv'
  <2>1. stage'[c] \in {"verifying", "seeding", "failed"}
    BY <1>0, <1>1 DEF Handshakes, BrokersTypeOK
  <2> QED BY <1>0, <1>1, <2>1, ClientStep DEF Handshakes, Grounds, BrokersTypeOK
<1>2. ASSUME NEW c \in Clients, SeedLoads(c) PROVE StoreInv'
  <2>1. /\ stage[c] = "seeding" /\ copy'[c] = file
        /\ stage'[c] \in {"seed saving", "verifying", "failed"}
        /\ stage'[c] = "seed saving" => ~has_entry(file, target[c])
        /\ UNCHANGED <<file, target, policy, vouched, check, action>>
        /\ \A d \in Clients \ {c} : stage'[d] = stage[d] /\ copy'[d] = copy[d]
    BY <1>0, <1>2 DEF SeedLoads, BrokersTypeOK
  <2>2. Grounds(c)'
    BY <2>1 DEF Grounds, has_entry
  <2> QED BY <1>0, <2>1, <2>2, ClientStep
<1>3. ASSUME NEW c \in Clients, SeedSaves(c) PROVE StoreInv'
  <2>1. CASE stage'[c] = "failed" /\ UNCHANGED <<file, vouched>>
    BY <1>0, <1>3, <2>1, ClientStep DEF SeedSaves, Grounds, BrokersTypeOK
  <2>2. CASE /\ file' = Put(copy[c], target[c], seed[c]) /\ stage'[c] = "verifying"
             /\ vouched' = [vouched EXCEPT ![target[c]] = @ \cup {seed[c]}]
    BY <1>0, <1>3, <2>2, SaveStep DEF SeedSaves, BrokersTypeOK
  <2> QED BY <1>0, <1>3, <2>1, <2>2 DEF SeedSaves, BrokersTypeOK
<1>4. ASSUME NEW c \in Clients, Verifies(c) PROVE StoreInv'
  <2> DEFINE state == lookup(file, target[c], check[c].presented)
  <2>1. state = "known" => check[c].presented \in vouched[target[c]]
    BY <1>0 DEF lookup, StoreInv, Vouched, BrokersTypeOK
  <2>2. CASE /\ check' = [check EXCEPT ![c] = [@ EXCEPT !.state = state, !.stored = file[target[c]]]]
             /\ stage'[c] = IF state = "known" THEN "connected"
                            ELSE IF attempt[c] = 1 THEN "deciding" ELSE "failed"
    <3>1. check'[c].presented = check[c].presented /\ check'[c].state = state
      BY <1>0, <2>2 DEF BrokersTypeOK
    <3>2. state \in {"known", "unknown", "changed"}
      BY DEF lookup
    <3>3. Grounds(c)'
      BY <2>2, <3>1, <3>2 DEF Grounds
    <3>4. stage'[c] = "connected" => check'[c].presented \in vouched[target[c]]
      BY <2>1, <2>2, <3>1
    <3>5. /\ UNCHANGED <<file, target, policy, vouched, copy, action>>
          /\ \A d \in Clients \ {c} : stage'[d] = stage[d] /\ check'[d] = check[d]
      BY <1>0, <1>4, <2>2 DEF Verifies, BrokersTypeOK
    <3> HIDE DEF state
    <3> QED BY <1>0, <3>3, <3>4, <3>5, ClientStep
  <2>3. CASE stage'[c] = "failed" /\ UNCHANGED check
    BY <1>0, <1>4, <2>3, ClientStep DEF Verifies, Grounds, BrokersTypeOK
  <2> QED BY <1>0, <1>4, <2>2, <2>3 DEF Verifies, BrokersTypeOK
<1>5. ASSUME NEW c \in Clients, resolve_broker_trust(c) PROVE StoreInv'
  <2>1. PICK a \in Resolutions(policy[c], check[c].state) :
          /\ action' = [action EXCEPT ![c] = a]
          /\ stage' = [stage EXCEPT ![c] = IF a = "refuse" THEN "failed" ELSE "recording"]
    BY <1>5 DEF resolve_broker_trust
  <2>2. check[c].state \in {"unknown", "changed"}
    BY <1>5 DEF resolve_broker_trust, StoreInv, Grounds
  <2>3. \/ a \in {"store_new", "refuse"}
        \/ a = "replace_stored" /\ policy[c].prompt /\ check[c].state = "changed"
    BY <1>0, <2>1, <2>2 DEF Resolutions, Answers, BrokersTypeOK
  <2>4. action'[c] = a /\ stage'[c] \in {"failed", "recording"}
        /\ (stage'[c] = "recording" => a # "refuse")
    BY <1>0, <2>1 DEF BrokersTypeOK
  <2>5. Grounds(c)'
    BY <1>5, <2>3, <2>4 DEF resolve_broker_trust, Grounds, Replaces
  <2> QED BY <1>0, <1>5, <2>1, <2>4, <2>5, ClientStep DEF resolve_broker_trust, BrokersTypeOK
<1>6. ASSUME NEW c \in Clients, RecordLoads(c) PROVE StoreInv'
  <2>1. copy'[c] = file /\ stage'[c] \in {"saving", "idle", "failed"}
        /\ (stage'[c] = "saving" =>
              action[c] = "replace_stored" \/ ~has_entry(file, target[c]))
    BY <1>0, <1>6 DEF RecordLoads, BrokersTypeOK, lookup
  <2>2. action[c] = "replace_stored" => Replaces(c)
    BY <1>6 DEF RecordLoads, StoreInv, Grounds
  <2>3. Grounds(c)'
    BY <1>6, <2>1, <2>2 DEF RecordLoads, Grounds, Replaces, has_entry
  <2> QED BY <1>0, <1>6, <2>1, <2>3, ClientStep DEF RecordLoads, BrokersTypeOK
<1>7. ASSUME NEW c \in Clients, RecordSaves(c) PROVE StoreInv'
  <2>1. CASE stage'[c] = "failed" /\ UNCHANGED <<file, vouched>>
    BY <1>0, <1>7, <2>1, ClientStep DEF RecordSaves, Grounds, BrokersTypeOK
  <2>2. CASE /\ file' = Put(copy[c], target[c], check[c].presented) /\ stage'[c] = "idle"
             /\ vouched' = [vouched EXCEPT ![target[c]] = @ \cup {check[c].presented}]
    <3>1. check[c].presented \in Entry BY <1>0, Placed
    <3> QED BY <1>0, <1>7, <2>2, <3>1, SaveStep DEF RecordSaves, BrokersTypeOK
  <2> QED BY <1>0, <1>7, <2>1, <2>2 DEF RecordSaves, BrokersTypeOK
<1>8. CASE Renews
  BY <1>0, <1>8 DEF Renews, StoreInv, Vouched, Grounds, Replaces, has_entry, OnlyVouchedFor
<1>9. CASE UNCHANGED brokersVars
  BY <1>0, <1>9 DEF brokersVars, StoreInv, Vouched, Grounds, Replaces, has_entry,
     OnlyVouchedFor
<1> QED BY <1>1, <1>2, <1>3, <1>4, <1>5, <1>6, <1>7, <1>8, <1>9 DEF BrokersNext, BrokersDone

\* The step of a save changes no entry of a file that is still the client's copy, unless
\* the user said so.
LEMMA SavesKeep ==
    ASSUME StoreInv, [BrokersNext]_brokersVars, NEW b \in Brokers, NEW c \in Clients,
           has_entry(file, b), copy[c] = file, stage[c] \in {"seed saving", "saving"},
           stage'[c] # stage[c]
    PROVE  \/ file'[b] = file[b]
           \/ /\ target[c] = b /\ action[c] = "replace_stored" /\ policy[c].prompt
              /\ check[c].state = "changed"
<1>1. BrokersTypeOK /\ Grounds(c)
  BY DEF StoreInv
<1>2. SeedSaves(c) \/ RecordSaves(c)
  <2>1. ASSUME NEW d \in Clients, NEW place, StageOf(d, place) PROVE d = c
    BY <1>1, <2>1 DEF StageOf, BrokersTypeOK
  <2>2. ASSUME NEW d \in Clients,
               \/ Handshakes(d) \/ SeedLoads(d) \/ SeedSaves(d) \/ Verifies(d)
               \/ resolve_broker_trust(d) \/ RecordLoads(d) \/ RecordSaves(d)
        PROVE  SeedSaves(c) \/ RecordSaves(c)
    <3>1. \E place : StageOf(d, place)
      BY <2>2 DEF Handshakes, SeedLoads, SeedSaves, Verifies, resolve_broker_trust,
         RecordLoads,
                 RecordSaves
    <3>2. d = c BY <2>1, <3>1
    <3> QED BY <2>2, <3>2 DEF Handshakes, SeedLoads, Verifies, resolve_broker_trust, RecordLoads
  <2>3. ~Renews /\ ~BrokersDone /\ ~UNCHANGED brokersVars
    BY DEF Renews, BrokersDone, brokersVars
  <2> QED BY <2>2, <2>3 DEF BrokersNext
<1>3. \/ file' = file
      \/ file' = Put(copy[c], target[c], seed[c])
      \/ file' = Put(copy[c], target[c], check[c].presented)
  BY <1>2 DEF SeedSaves, RecordSaves
<1>4. CASE b # target[c]
  BY <1>1, <1>3, <1>4 DEF Put, BrokersTypeOK
<1>5. CASE b = target[c]
  <2>1. ~SeedSaves(c)
    BY <1>1, <1>5 DEF SeedSaves, Grounds, has_entry
  <2>2. stage[c] = "saving"
    BY <1>2, <2>1 DEF RecordSaves
  <2> QED BY <1>1, <1>5, <2>2 DEF Grounds, Replaces, has_entry
<1> QED BY <1>4, <1>5

----------------------------------------------------------------------------
\* TrustIsKept for any clients, brokers, certificates and policies: resolve_broker_trust(),
\* record_broker_trust() and seed_known_broker() over the shared file.
THEOREM AlwaysTrusted == BrokersSpec => TrustIsKept
<1>1. StoreInv => OnlyVouchedFor
  BY DEF StoreInv
<1>2. StoreInv /\ [BrokersNext]_brokersVars =>
        [\A b \in Brokers, c \in Clients :
          (has_entry(file, b) /\ copy[c] = file /\ stage[c] \in {"seed saving", "saving"}
             /\ stage'[c] # stage[c])
          => \/ file'[b] = file[b]
             \/ /\ target[c] = b /\ action[c] = "replace_stored" /\ policy[c].prompt
                /\ check[c].state = "changed"]_brokersVars
  BY SavesKeep
<1> QED BY <1>1, <1>2, StoreStarts, StoreSteps, PTL DEF BrokersSpec, TrustIsKept,
   EntryKeptAlone

----------------------------------------------------------------------------
(* FontFetch: a repaint is owed for a font that arrived, and where no other client   *)
(* writes into the cache the engine is given whole files only.                       *)

\* What is written, stored and given to the engine is of the fonts there are.
BatchTypes ==
    /\ wanted \subseteq Fonts /\ queue \subseteq Fonts /\ found \subseteq Fonts
    /\ stored \subseteq Fonts /\ added \subseteq Fonts
    /\ fetch \in {"writes", "renames"} => writing \in Fonts

FileTypes ==
    /\ cache \in [Fonts -> Content] /\ partial \in [Fonts -> Content]
    /\ indexed \in [Fonts -> Content]
    /\ rival \in [Fonts -> {"none", "partial", "cache", "wrote"}]

\* The session never saw more files than were added.
SeenInv == seen \in Nat /\ seen <= generation

\* A file is renamed when it is whole, and only what the server named is ever written.
WrittenInv ==
    ~shared /\ ~KeepsTail =>
        /\ \A f \in Fonts : rival[f] = "none"
        /\ fetch \in {"stores", "writes", "renames"} => \A f \in found : Verified(f)
        /\ fetch \in {"writes", "renames"} => Verified(writing)
        /\ fetch = "renames" => partial[writing] = "whole"

\* So the cache, and what the engine indexed of it, has no other.
CacheInv ==
    ~shared /\ ~KeepsTail =>
        \A f \in Fonts :
            /\ cache[f] # "torn" /\ (cache[f] = "whole" => Verified(f))
            /\ indexed[f] # "torn" /\ (indexed[f] = "whole" => Verified(f))

FilesInv == BatchTypes /\ FileTypes /\ WrittenInv /\ CacheInv
FontInv == FilesInv /\ SeenInv /\ RepaintOwed

\* The batches are of the fonts there are.
LEMMA BatchStep ==
    ASSUME BatchTypes, FontNext
    PROVE  BatchTypes'
<1>1. ASSUME NEW f \in Fonts, Names(f) PROVE BatchTypes'
  BY <1>1, BatchTypes DEF Names, fetcherPart, want, diskPart, fetchPart, BatchTypes
<1>2. CASE RefreshEnds
  BY <1>2, BatchTypes DEF RefreshEnds, diskPart, fetcherPart, fetchPart, BatchTypes
<1>3. CASE ReplayEnds
  BY <1>3, BatchTypes DEF ReplayEnds, diskPart, fetcherPart, BatchTypes
<1>4. CASE StageFetched
  BY <1>4, BatchTypes DEF StageFetched, diskPart, fetcherPart, BatchTypes
<1>5. CASE ConnectsAgain
  BY <1>5, BatchTypes DEF ConnectsAgain, FreshConnection, diskPart, BatchTypes
<1>6. CASE Killed
  BY <1>6, BatchTypes DEF Killed, FreshConnection, diskPart, BatchTypes
<1>7. CASE FetchStarts
  BY <1>7, BatchTypes DEF FetchStarts, diskPart, sessionPart, BatchTypes
<1>8. CASE SshStopped \/ SshClosesOutput \/ SshEnds
  BY <1>8, BatchTypes DEF SshStopped, SshClosesOutput, SshEnds, diskPart, sessionPart,
    fetcherPart, BatchTypes
<1>9. CASE AllStored
  BY <1>9, BatchTypes DEF AllStored, diskPart, sessionPart, fetcherPart, BatchTypes
<1>10. ASSUME NEW f \in Fonts, OpensPartial(f) PROVE BatchTypes'
  BY <1>10, BatchTypes DEF OpensPartial, sessionPart, fetcherPart, BatchTypes
<1>11. CASE Writes
  BY <1>11, BatchTypes DEF Writes, sessionPart, fetcherPart, BatchTypes
<1>12. CASE Renames
  BY <1>12, BatchTypes DEF Renames, sessionPart, fetcherPart, BatchTypes
<1>13. CASE Adds
  BY <1>13, BatchTypes DEF Adds, diskPart, sessionPart, fetcherPart, BatchTypes
<1>14. CASE WorkerLooks
  BY <1>14, BatchTypes DEF WorkerLooks, diskPart, sessionPart, BatchTypes
<1>15. CASE WorkerFetched
  BY <1>15, BatchTypes DEF WorkerFetched, diskPart, sessionPart, BatchTypes
<1>16. ASSUME NEW f \in Fonts, RivalOpens(f) \/ RivalWrites(f) \/ RivalEnds(f)
      PROVE  BatchTypes'
  <2>1. UNCHANGED <<wanted, queue, found, stored, added, fetch, writing>>
    BY <1>16 DEF RivalOpens, RivalWrites, RivalEnds, sessionPart, fetcherPart, fetchPart
  <2> QED
    BY <2>1, BatchTypes DEF BatchTypes
<1>17. CASE
        \/ RefreshStarts \/ Disconnects \/ Over
  <2>1. UNCHANGED <<wanted, queue, found, stored, added, fetch, writing>>
    BY <1>17 DEF RefreshStarts, Disconnects, Over, diskPart, fetcherPart, fetchPart,
        fontVars
  <2> QED
    BY <2>1, BatchTypes DEF BatchTypes
<1> QED
  BY <1>1, <1>2, <1>3, <1>4, <1>5, <1>6, <1>7, <1>8, <1>9, <1>10, <1>11, <1>12, <1>13,
      <1>14, <1>15, <1>16, <1>17
  DEF FontNext, SessionSteps, FetchSteps, WorkerSteps

\* A file is missing, torn or whole.
LEMMA FileStep ==
    ASSUME BatchTypes, FileTypes, FontNext
    PROVE  FileTypes'
<1>1. CASE Killed
  BY <1>1, BatchTypes, FileTypes DEF Killed, FreshConnection, diskPart, BatchTypes,
      FileTypes, Content
<1>2. ASSUME NEW f \in Fonts, OpensPartial(f) PROVE FileTypes'
  BY <1>2, BatchTypes, FileTypes DEF OpensPartial, sessionPart, fetcherPart, BatchTypes,
      FileTypes, Content
<1>3. CASE Writes
  BY <1>3, BatchTypes, FileTypes DEF Writes, sessionPart, fetcherPart, BatchTypes,
      FileTypes, Content
<1>4. CASE Renames
  BY <1>4, BatchTypes, FileTypes DEF Renames, sessionPart, fetcherPart, BatchTypes,
      FileTypes, Content
<1>5. CASE Adds
  BY <1>5, BatchTypes, FileTypes DEF Adds, diskPart, sessionPart, fetcherPart, BatchTypes,
      FileTypes, Content
<1>6. ASSUME NEW f \in Fonts, RivalOpens(f) PROVE FileTypes'
  BY <1>6, BatchTypes, FileTypes DEF RivalOpens, sessionPart, fetcherPart, fetchPart,
      BatchTypes, FileTypes, Content
<1>7. ASSUME NEW f \in Fonts, RivalWrites(f) PROVE FileTypes'
  BY <1>7, BatchTypes, FileTypes DEF RivalWrites, sessionPart, fetcherPart, fetchPart,
      BatchTypes, FileTypes, Content
<1>8. ASSUME NEW f \in Fonts, RivalEnds(f) PROVE FileTypes'
  BY <1>8, BatchTypes, FileTypes DEF RivalEnds, sessionPart, fetcherPart, fetchPart,
      BatchTypes, FileTypes, Content
<1>9. ASSUME NEW f \in Fonts, Names(f)
      PROVE  FileTypes'
  <2>1. UNCHANGED <<cache, partial, indexed, rival>>
    BY <1>9 DEF Names, fetcherPart, want, diskPart, fetchPart
  <2> QED
    BY <2>1, BatchTypes, FileTypes DEF BatchTypes, FileTypes, Content
<1>10. CASE
        \/ RefreshStarts \/ RefreshEnds \/ ReplayEnds \/ StageFetched \/ Disconnects
        \/ ConnectsAgain \/ Over \/ FetchStarts \/ SshStopped \/ SshClosesOutput
        \/ SshEnds \/ AllStored \/ WorkerLooks
        \/ WorkerFetched
  <2>1. UNCHANGED <<cache, partial, indexed, rival>>
    BY <1>10 DEF RefreshStarts, RefreshEnds, ReplayEnds, StageFetched, Disconnects,
        ConnectsAgain, Over, FetchStarts, SshStopped, SshClosesOutput, SshEnds,
        AllStored, WorkerLooks, WorkerFetched,
        diskPart, fetcherPart, fetchPart, FreshConnection, fontVars, sessionPart
  <2> QED
    BY <2>1, BatchTypes, FileTypes DEF BatchTypes, FileTypes, Content
<1> QED
  BY <1>1, <1>2, <1>3, <1>4, <1>5, <1>6, <1>7, <1>8, <1>9, <1>10
  DEF FontNext, SessionSteps, FetchSteps, WorkerSteps

\* What is written was verified.
LEMMA WrittenStep ==
    ASSUME BatchTypes, FileTypes, WrittenInv, FontNext
    PROVE  WrittenInv'
<1>1. CASE ReplayEnds
  BY <1>1, BatchTypes, FileTypes, WrittenInv DEF ReplayEnds, diskPart, fetcherPart,
      BatchTypes, FileTypes, WrittenInv, Verified
<1>2. CASE StageFetched
  BY <1>2, BatchTypes, FileTypes, WrittenInv DEF StageFetched, diskPart, fetcherPart,
      BatchTypes, FileTypes, WrittenInv, Verified
<1>3. CASE ConnectsAgain
  BY <1>3, BatchTypes, FileTypes, WrittenInv DEF ConnectsAgain, FreshConnection, diskPart,
      BatchTypes, FileTypes, WrittenInv, Verified
<1>4. CASE Killed
  BY <1>4, BatchTypes, FileTypes, WrittenInv DEF Killed, FreshConnection, diskPart,
      BatchTypes, FileTypes, WrittenInv, Verified
<1>5. CASE FetchStarts
  BY <1>5, BatchTypes, FileTypes, WrittenInv DEF FetchStarts, diskPart, sessionPart,
      BatchTypes, FileTypes, WrittenInv, Verified
<1>6. CASE SshStopped \/ SshClosesOutput \/ SshEnds
  BY <1>6, BatchTypes, FileTypes, WrittenInv DEF SshStopped, SshClosesOutput, SshEnds,
    diskPart, sessionPart,
      fetcherPart, BatchTypes, FileTypes, WrittenInv, Verified
<1>7. CASE AllStored
  BY <1>7, BatchTypes, FileTypes, WrittenInv DEF AllStored, diskPart, sessionPart,
      fetcherPart, BatchTypes, FileTypes, WrittenInv, Verified
<1>8. ASSUME NEW f \in Fonts, OpensPartial(f) PROVE WrittenInv'
  BY <1>8, BatchTypes, FileTypes, WrittenInv DEF OpensPartial, sessionPart, fetcherPart,
      BatchTypes, FileTypes, WrittenInv, Verified
<1>9. CASE Writes
  BY <1>9, BatchTypes, FileTypes, WrittenInv DEF Writes, sessionPart, fetcherPart,
      BatchTypes, FileTypes, WrittenInv, Verified
<1>10. CASE Renames
  BY <1>10, BatchTypes, FileTypes, WrittenInv DEF Renames, sessionPart, fetcherPart,
      BatchTypes, FileTypes, WrittenInv, Verified
<1>11. CASE Adds
  BY <1>11, BatchTypes, FileTypes, WrittenInv DEF Adds, diskPart, sessionPart, fetcherPart,
      BatchTypes, FileTypes, WrittenInv, Verified
<1>12. CASE WorkerLooks
  BY <1>12, BatchTypes, FileTypes, WrittenInv DEF WorkerLooks, diskPart, sessionPart,
      BatchTypes, FileTypes, WrittenInv, Verified
<1>13. CASE WorkerFetched
  BY <1>13, BatchTypes, FileTypes, WrittenInv DEF WorkerFetched, diskPart, sessionPart,
      BatchTypes, FileTypes, WrittenInv, Verified
<1>14. ASSUME NEW f \in Fonts, RivalOpens(f) PROVE WrittenInv'
  BY <1>14, BatchTypes, FileTypes, WrittenInv DEF RivalOpens, sessionPart, fetcherPart,
      fetchPart, BatchTypes, FileTypes, WrittenInv, Verified
<1>15. ASSUME NEW f \in Fonts, RivalWrites(f) PROVE WrittenInv'
  BY <1>15, BatchTypes, FileTypes, WrittenInv DEF RivalWrites, sessionPart, fetcherPart,
      fetchPart, BatchTypes, FileTypes, WrittenInv, Verified
<1>16. ASSUME NEW f \in Fonts, RivalEnds(f) PROVE WrittenInv'
  BY <1>16, BatchTypes, FileTypes, WrittenInv DEF RivalEnds, sessionPart, fetcherPart,
      fetchPart, BatchTypes, FileTypes, WrittenInv, Verified
<1>17. ASSUME NEW f \in Fonts, Names(f)
      PROVE  WrittenInv'
  <2>1. UNCHANGED <<shared, rival, fetch, found, guest, writing, partial>>
    BY <1>17 DEF Names, fetcherPart, want, diskPart, fetchPart
  <2> QED
    BY <2>1, BatchTypes, FileTypes, WrittenInv DEF BatchTypes, FileTypes, WrittenInv,
        Verified
<1>18. CASE
        \/ RefreshStarts \/ RefreshEnds \/ Disconnects \/ Over
  <2>1. UNCHANGED <<shared, rival, fetch, found, guest, writing, partial>>
    BY <1>18 DEF RefreshStarts, RefreshEnds, Disconnects, Over, diskPart, fetcherPart,
        fetchPart, fontVars
  <2> QED
    BY <2>1, BatchTypes, FileTypes, WrittenInv DEF BatchTypes, FileTypes, WrittenInv,
        Verified
<1> QED
  BY <1>1, <1>2, <1>3, <1>4, <1>5, <1>6, <1>7, <1>8, <1>9, <1>10, <1>11, <1>12, <1>13,
      <1>14, <1>15, <1>16, <1>17, <1>18
  DEF FontNext, SessionSteps, FetchSteps, WorkerSteps

\* What is kept was verified, and is whole.
LEMMA CacheStep ==
    ASSUME BatchTypes, FileTypes, WrittenInv, CacheInv, FontNext
    PROVE  CacheInv'
<1>1. CASE Killed
  BY <1>1, BatchTypes, FileTypes, WrittenInv, CacheInv DEF Killed, FreshConnection,
      diskPart, BatchTypes, FileTypes, WrittenInv, CacheInv, Verified
<1>2. CASE Renames
  BY <1>2, BatchTypes, FileTypes, WrittenInv, CacheInv DEF Renames, sessionPart,
      fetcherPart, BatchTypes, FileTypes, WrittenInv, CacheInv, Verified
<1>3. CASE Adds
  BY <1>3, BatchTypes, FileTypes, WrittenInv, CacheInv DEF Adds, diskPart, sessionPart,
      fetcherPart, BatchTypes, FileTypes, WrittenInv, CacheInv, Verified
<1>4. ASSUME NEW f \in Fonts, RivalWrites(f) PROVE CacheInv'
  BY <1>4, BatchTypes, FileTypes, WrittenInv, CacheInv DEF RivalWrites, sessionPart,
      fetcherPart, fetchPart, BatchTypes, FileTypes, WrittenInv, CacheInv, Verified
<1>5. ASSUME NEW f \in Fonts, RivalEnds(f) PROVE CacheInv'
  BY <1>5, BatchTypes, FileTypes, WrittenInv, CacheInv DEF RivalEnds, sessionPart,
      fetcherPart, fetchPart, BatchTypes, FileTypes, WrittenInv, CacheInv, Verified
<1>6. ASSUME NEW f \in Fonts, Names(f) \/ OpensPartial(f) \/ RivalOpens(f)
      PROVE  CacheInv'
  <2>1. UNCHANGED <<shared, cache, guest, indexed>>
    BY <1>6 DEF Names, OpensPartial, RivalOpens, fetcherPart, want, diskPart, fetchPart,
        sessionPart
  <2> QED
    BY <2>1, BatchTypes, FileTypes, WrittenInv, CacheInv DEF BatchTypes, FileTypes,
        WrittenInv, CacheInv, Verified
<1>7. CASE
        \/ RefreshStarts \/ RefreshEnds \/ ReplayEnds \/ StageFetched \/ Disconnects
        \/ ConnectsAgain \/ Over \/ FetchStarts \/ SshStopped \/ SshClosesOutput
        \/ SshEnds \/ AllStored \/ Writes
        \/ WorkerLooks \/ WorkerFetched
  <2>1. UNCHANGED <<shared, cache, guest, indexed>>
    BY <1>7 DEF RefreshStarts, RefreshEnds, ReplayEnds, StageFetched, Disconnects,
        ConnectsAgain, Over, FetchStarts, SshStopped, SshClosesOutput, SshEnds,
        AllStored, Writes, WorkerLooks,
        WorkerFetched, diskPart, fetcherPart, fetchPart, FreshConnection, fontVars,
        sessionPart
  <2> QED
    BY <2>1, BatchTypes, FileTypes, WrittenInv, CacheInv DEF BatchTypes, FileTypes,
        WrittenInv, CacheInv, Verified
<1> QED
  BY <1>1, <1>2, <1>3, <1>4, <1>5, <1>6, <1>7
  DEF FontNext, SessionSteps, FetchSteps, WorkerSteps

LEMMA FilesStep ==
    ASSUME FilesInv, FontNext
    PROVE  FilesInv'
<1>1. BatchTypes /\ FileTypes /\ WrittenInv /\ CacheInv
  BY DEF FilesInv
<1>2. BatchTypes' /\ FileTypes'
  BY <1>1, BatchStep, FileStep
<1>3. WrittenInv' /\ CacheInv'
  BY <1>1, WrittenStep, CacheStep
<1> QED
  BY <1>2, <1>3 DEF FilesInv

\* More fonts added is another generation, and no font added is the same one.
LEMMA GenerationGrows ==
    ASSUME NEW A \in SUBSET Fonts, NEW B \in SUBSET Fonts, A \subseteq B
    PROVE  /\ Cardinality(A) \in Nat /\ Cardinality(B) \in Nat
           /\ Cardinality(A) <= Cardinality(B) /\ (A # B => Cardinality(A) # Cardinality(B))
<1>1. IsFiniteSet(B) /\ IsFiniteSet(A)
  BY FontAssumption, FS_Subset DEF FontAssumption
<1> QED
  BY <1>1, FS_Subset, FS_CardinalityType

\* The session knows of every file, or will: what was indexed since it looked has made the
\* generation another.
LEMMA RepaintStep ==
    ASSUME BatchTypes, FileTypes, SeenInv, RepaintOwed, FontNext
    PROVE  SeenInv' /\ RepaintOwed'
<1>0. added \subseteq Fonts /\ generation \in Nat
  BY GenerationGrows DEF BatchTypes, generation
<1>1. ASSUME NEW f \in Fonts, Names(f) PROVE SeenInv' /\ RepaintOwed'
  BY <1>1, SeenInv, RepaintOwed DEF Names, has_identical, generation, diskPart, fetchPart,
      SeenInv, RepaintOwed
<1>2. CASE RefreshStarts \/ RefreshEnds \/ Disconnects \/ StageFetched
  <2>1. /\ added' = added /\ indexed' = indexed /\ generation' = generation
        /\ seen' \in {seen, generation} /\ thread' \in {"refreshing", "refreshing at connect",
                                                        "live", "replay", "closing"}
    BY <1>2 DEF RefreshStarts, RefreshEnds, Disconnects, StageFetched, generation
  <2>2. SeenInv'
    <3>1. seen \in Nat /\ seen <= generation
      BY SeenInv DEF SeenInv
    <3>2. generation \in Nat /\ seen' \in {seen, generation}
      BY <1>0, <2>1
    <3>3. seen' \in Nat /\ seen' <= generation
      BY <3>1, <3>2
    <3> QED
      BY <2>1, <3>3 DEF SeenInv
  <2>3. CASE RefreshEnds
    <3>1. wanted' = {g \in wanted : ~has_identical(g)}
      BY <2>3 DEF RefreshEnds
    <3>2. \A g \in wanted' : ~has_identical(g)'
      BY <2>1, <3>1 DEF has_identical
    <3> QED
      BY <2>2, <3>2 DEF RepaintOwed
  <2>4. CASE RefreshStarts \/ Disconnects \/ StageFetched
    <3>1. thread' \in {"refreshing", "refreshing at connect", "closing"}
      BY <2>4 DEF RefreshStarts, Disconnects, StageFetched
    <3> QED
      BY <2>2, <3>1 DEF RepaintOwed
  <2> QED
    BY <1>2, <2>2, <2>3, <2>4
<1>3. CASE ReplayEnds
  <2>1. UNCHANGED <<wanted, seen, added, indexed>>
    BY <1>3 DEF ReplayEnds
  <2>2. wanted = {} \/ thread' = "fetching"
    BY <1>3 DEF ReplayEnds
  <2> QED
    BY <2>1, <2>2, SeenInv DEF SeenInv, RepaintOwed, generation
<1>4. CASE ConnectsAgain
  BY <1>4, SeenInv DEF ConnectsAgain, FreshConnection, SeenInv, RepaintOwed, generation
<1>5. CASE Killed
  <2>1. wanted' = {} /\ seen' = 0 /\ added' = {}
    BY <1>5 DEF Killed, FreshConnection
  <2>2. generation' = 0
    BY <2>1, FS_EmptySet DEF generation
  <2> QED
    <3>1. seen' \in Nat /\ seen' <= generation'
      BY <2>1, <2>2
    <3> QED
      BY <2>1, <3>1 DEF SeenInv, RepaintOwed
<1>6. CASE Adds
  <2>1. /\ added' = added \cup stored /\ UNCHANGED <<wanted, seen, thread>>
        /\ indexed' = [g \in Fonts |-> IF g \in stored \ added THEN cache[g] ELSE indexed[g]]
    BY <1>6 DEF Adds, sessionPart
  <2>2. /\ added' \subseteq Fonts /\ generation' \in Nat /\ generation <= generation'
        /\ added' # added => generation # generation'
    BY <1>0, <2>1, GenerationGrows DEF generation, BatchTypes
  <2>3. SeenInv'
    BY <1>0, <2>1, <2>2, SeenInv DEF SeenInv
  <2>4. CASE added' = added
    <3>1. indexed' = indexed
      BY <2>1, <2>4, FileTypes DEF FileTypes
    <3> QED
      BY <2>1, <2>3, <2>4, <3>1, RepaintOwed DEF RepaintOwed, has_identical, generation
  <2>5. CASE added' # added
    <3>1. seen' # generation'
      BY <1>0, <2>1, <2>2, <2>5, SeenInv DEF SeenInv
    <3> QED
      BY <2>3, <3>1 DEF RepaintOwed
  <2> QED
    BY <2>4, <2>5, <2>3
<1>7. ASSUME NEW f \in Fonts, OpensPartial(f) \/ RivalOpens(f) \/ RivalWrites(f) \/ RivalEnds(f)
      PROVE  SeenInv' /\ RepaintOwed'
  <2>1. UNCHANGED <<thread, wanted, seen, added, indexed>>
    BY <1>7 DEF OpensPartial, RivalOpens, RivalWrites, RivalEnds, sessionPart, fetcherPart,
        fetchPart
  <2> QED
    BY <2>1, SeenInv, RepaintOwed DEF SeenInv, RepaintOwed, generation, has_identical
<1>8. CASE
        \/ Over \/ FetchStarts \/ SshStopped \/ SshClosesOutput \/ SshEnds
        \/ AllStored \/ Writes \/ Renames
        \/ WorkerLooks \/ WorkerFetched
  <2>1. UNCHANGED <<thread, wanted, seen, added, indexed>>
    BY <1>8 DEF Over, FetchStarts, SshStopped, SshClosesOutput, SshEnds, AllStored,
      Writes, Renames, WorkerLooks,
        WorkerFetched, fontVars, diskPart, sessionPart, fetcherPart
  <2> QED
    BY <2>1, SeenInv, RepaintOwed DEF SeenInv, RepaintOwed, generation, has_identical
<1> QED
  BY <1>1, <1>2, <1>3, <1>4, <1>5, <1>6, <1>7, <1>8
  DEF FontNext, SessionSteps, FetchSteps, WorkerSteps

LEMMA FontInvInit == FontInit => FontInv
<1> SUFFICES ASSUME FontInit PROVE FontInv
  OBVIOUS
<1>1. BatchTypes /\ FileTypes
  BY DEF FontInit, BatchTypes, FileTypes, Content
<1>2. WrittenInv /\ CacheInv
  BY DEF FontInit, WrittenInv, CacheInv
<1>3. SeenInv /\ RepaintOwed
  BY FS_EmptySet DEF FontInit, SeenInv, RepaintOwed, generation
<1> QED
  BY <1>1, <1>2, <1>3 DEF FontInv, FilesInv

LEMMA FontInvStep == FontInv /\ [FontNext]_fontVars => FontInv'
<1> SUFFICES ASSUME FontInv, [FontNext]_fontVars PROVE FontInv'
  OBVIOUS
<1>1. CASE FontNext
  BY <1>1, FilesStep, RepaintStep DEF FontInv, FilesInv
<1>2. CASE UNCHANGED fontVars
  <2> USE <1>2 DEF fontVars, FontInv, FilesInv
  <2>1. BatchTypes' /\ FileTypes'
    BY DEF BatchTypes, FileTypes
  <2>2. WrittenInv' /\ CacheInv'
    BY DEF WrittenInv, CacheInv, Verified
  <2>3. SeenInv' /\ RepaintOwed'
    BY DEF SeenInv, RepaintOwed, generation, has_identical
  <2> QED
    BY <2>1, <2>2, <2>3
<1> QED
  BY <1>1, <1>2

\* Every reachable state of the fetching satisfies the invariant, for any fonts.
THEOREM FontInvariant == FontSpec => []FontInv
BY FontInvInit, FontInvStep, PTL DEF FontSpec

\* A font whose file arrived is not waited for in a stand-in's face for good: the session is
\* at a refresh, or its next read finds a generation it has not seen.
THEOREM RepaintAlwaysOwed == FontSpec => []RepaintOwed
<1>1. FontInv => RepaintOwed
  BY DEF FontInv
<1> QED
  BY <1>1, FontInvariant, PTL

\* Where a reported write is a complete one and nobody else writes into the cache, the
\* engine is given only whole files that are what the server named, whenever the client
\* was killed before.
THEOREM FontsAreWhole ==
    ASSUME ~KeepsTail
    PROVE  FontSpec => []WholeFontsAlone
<1>1. FontInv => WholeFontsAlone
  BY DEF FontInv, FilesInv, CacheInv, WholeFontsAlone, WholeFontsAlways, Verified
<1> QED
  BY <1>1, FontInvariant, PTL

----------------------------------------------------------------------------
(* BrokerSession: nothing is proxied before the proof and nothing out of order after *)
(* it, and over QUIC an orderly end is of a session that was read to the last pixel. *)

Beginning  == {"idle", "handshaking", "trusted", "authenticating"}
Unanswered == {"handshake", "authenticating", "authenticated"}
Refusals   == {"denied", "no cookie", "no session"}
Upstream   == {"token", "input", "ping"}
Downstream == {"accepted", "drawing", "ping", "fin", "gone"} \cup Refusals

\* What is in a stream besides pings and their answers.
Loaded(s) == {i \in DOMAIN s : s[i] # "ping"}
Load(s)   == Cardinality(Loaded(s))

StreamTypes ==
    /\ sent \in Seq({"token", "input"}) /\ to_broker \in Seq(Upstream)
    /\ backend \in Seq({"cookie", "input"}) /\ to_client \in Seq(Downstream)
    /\ incoming \in Nat /\ taken \in Nat /\ drawn \in Nat
    /\ where \in Beginning \cup {"open", "over"}
    /\ bridge \in Unanswered \cup {"relaying", "closed"}

\* How far the client is, by what it sent: the token on a trusted connection, and a send
\* under way only in an open session.
SentInv ==
    /\ where = "trusted" => verdict
    /\ sending => where = "open"
    /\ where \in {"authenticating", "open"} => sent # <<>>
    /\ where \in {"idle", "handshaking", "trusted"} => sent = <<>>
    /\ sent = <<>> => to_broker = <<>> /\ bridge = "handshake"
    /\ sent # <<>> => verdict

\* The token leads what the client sends, the cookie what the session port sees.
LeadInv ==
    /\ \A i \in 1 .. Len(sent) : sent[i] = "token" <=> i = 1
    /\ \A i \in 1 .. Len(to_broker) :
          to_broker[i] = "token" => i = 1 /\ bridge \in {"handshake", "authenticating"}
    /\ \A i \in 1 .. Len(backend) : backend[i] = "cookie" <=> i = 1

\* The broker goes on to the session port only past the right token.
PortInv ==
    /\ bridge \in Unanswered => backend = <<>>
    /\ bridge = "relaying" => backend # <<>>
    /\ bridge = "authenticated" \/ backend # <<>> => token = "right" /\ sent # <<>>

\* What the session port was given, less the cookie, is with the token no more than what
\* the client sent; the rest is on its way.
OnTheWay ==
    Len(backend) + Load(to_broker) + (IF bridge = "authenticated" THEN 1 ELSE 0) <= Len(sent)

\* A stream of a few answers, then drawings, then perhaps its end.
Shape(s, lead, count, end) ==
    /\ Len(s) = lead + count + end /\ count \in Nat
    /\ \A i \in 1 .. lead : s[i] = "accepted"
    /\ \A i \in lead + 1 .. lead + count : s[i] = "drawing"
    /\ \A i \in lead + count + 1 .. Len(s) : s[i] = "fin"

NothingYet ==
    /\ bridge \in Unanswered => to_client = <<>> /\ drawn = 0 /\ where # "open"
    /\ where \in Beginning => taken = 0 /\ incoming = 0

CutOff  == to_client = <<"gone">> /\ bridge = "closed"
TurnedAway == where # "open" /\ bridge = "closed" /\ \E why \in Refusals : to_client = <<why, "gone">>
Whole   == Shape(to_client, IF where = "open" THEN 0 ELSE 1, drawn - taken - incoming,
                 IF bridge = "closed" THEN 1 ELSE 0)

\* Over QUIC, until the client leaves, what was drawn is read, decoded or under way, or
\* the broker refused or the connection was cut.
UnderWay == kind = "quic" /\ where # "over" /\ bridge \notin Unanswered => CutOff \/ TurnedAway \/ Whole

EndedWhole ==
    /\ ended # "none" => where = "over"
    /\ kind = "quic" /\ ended = "orderly" => bridge = "closed" /\ taken = drawn

SessionInv ==
    /\ StreamTypes /\ SentInv /\ LeadInv /\ PortInv /\ OnTheWay
    /\ NothingYet /\ UnderWay /\ EndedWhole

----------------------------------------------------------------------------
\* What is in a stream is counted by a number, which a message adds one to and a ping
\* does not.
LEMMA LoadCounts ==
    ASSUME NEW s \in Seq(Upstream)
    PROVE  IsFiniteSet(Loaded(s)) /\ Load(s) \in Nat
<1>1. Loaded(s) \in SUBSET (1 .. Len(s))
  BY LenProperties DEF Loaded
<1>2. IsFiniteSet(1 .. Len(s))
  BY LenProperties, FS_Interval
<1> QED
  BY <1>1, <1>2, FS_Subset, FS_CardinalityType DEF Load

LEMMA LoadOfNothing == Load(<<>>) = 0
<1>1. Loaded(<<>>) = {}
  BY DEF Loaded
<1> QED
  BY <1>1, FS_EmptySet DEF Load

LEMMA LoadAppended ==
    ASSUME NEW s \in Seq(Upstream), NEW m \in Upstream
    PROVE  Load(Append(s, m)) <= Load(s) + 1
<1>1. Loaded(Append(s, m)) \subseteq Loaded(s) \cup {Len(s) + 1}
  BY AppendProperties, LenProperties DEF Loaded
<1>2. /\ IsFiniteSet(Loaded(s) \cup {Len(s) + 1}) /\ Load(s) \in Nat
      /\ Cardinality(Loaded(s) \cup {Len(s) + 1}) <= Load(s) + 1
  <2>1. IsFiniteSet(Loaded(s)) /\ Load(s) \in Nat
    BY LoadCounts
  <2>2. /\ IsFiniteSet(Loaded(s) \cup {Len(s) + 1})
        /\ Cardinality(Loaded(s) \cup {Len(s) + 1})
             = IF Len(s) + 1 \in Loaded(s) THEN Load(s) ELSE Load(s) + 1
    BY <2>1, FS_AddElement DEF Load
  <2> QED
    BY <2>1, <2>2
<1>3. Load(Append(s, m)) \in Nat
  BY LoadCounts, AppendProperties
<1>4. Cardinality(Loaded(Append(s, m))) <= Cardinality(Loaded(s) \cup {Len(s) + 1})
  BY <1>1, <1>2, FS_Subset
<1>5. Cardinality(Loaded(s) \cup {Len(s) + 1}) \in Nat
  BY <1>2, FS_CardinalityType
<1> QED
  BY <1>2, <1>3, <1>4, <1>5 DEF Load

LEMMA LoadTaken ==
    ASSUME NEW s \in Seq(Upstream), s # <<>>
    PROVE  Load(Tail(s)) + (IF Head(s) = "ping" THEN 0 ELSE 1) <= Load(s)
<1> DEFINE rest == Loaded(s) \ {1}
           shift == [i \in Loaded(Tail(s)) |-> i + 1]
<1>1. /\ Tail(s) \in Seq(Upstream) /\ Len(Tail(s)) = Len(s) - 1 /\ Len(s) \in Nat
      /\ \A i \in 1 .. Len(s) - 1 : Tail(s)[i] = s[i + 1]
      /\ DOMAIN s = 1 .. Len(s) /\ DOMAIN Tail(s) = 1 .. Len(s) - 1
  BY HeadTailProperties, LenProperties
<1>2. \A i \in Loaded(Tail(s)) : i \in Nat /\ i + 1 \in rest
  BY <1>1 DEF Loaded
<1>3. shift \in Injection(Loaded(Tail(s)), rest)
  BY <1>2 DEF Injection, IsInjective
<1>4. IsFiniteSet(rest) /\ Cardinality(rest) = IF 1 \in Loaded(s) THEN Load(s) - 1 ELSE Load(s)
  BY LoadCounts, FS_RemoveElement DEF Load
<1>5. Load(Tail(s)) <= Cardinality(rest)
  BY <1>3, <1>4, FS_Injection DEF Load
<1>6. Head(s) = s[1] /\ 1 \in DOMAIN s
  BY <1>1, EmptySeq
<1>7. 1 \in Loaded(s) <=> Head(s) # "ping"
  BY <1>6 DEF Loaded
<1>8. Load(s) \in Nat /\ Load(Tail(s)) \in Nat
  BY <1>1, LoadCounts
<1> QED
  BY <1>4, <1>5, <1>7, <1>8

\* What a read leaves, and what it brought.
LEMMA ReadLeaves ==
    ASSUME StreamTypes, NEW n \in 1 .. Len(to_client), Read(n)
    PROVE  /\ to_client' \in Seq(Downstream) /\ Len(to_client') = Len(to_client) - n
           /\ \A i \in 1 .. Len(to_client) - n : to_client'[i] = to_client[n + i]
<1>1. Len(to_client) \in Nat /\ \A i \in 1 .. Len(to_client) : to_client[i] \in Downstream
  BY ElementOfSeq, LenProperties DEF StreamTypes
<1>2. to_client' = SubSeq(to_client, n + 1, Len(to_client))
  BY DEF Read
<1>3. n + 1 \in Int /\ Len(to_client) \in Int /\ \A i \in n + 1 .. Len(to_client) : to_client[i] \in Downstream
  BY <1>1
<1>4. /\ SubSeq(to_client, n + 1, Len(to_client)) \in Seq(Downstream)
      /\ Len(SubSeq(to_client, n + 1, Len(to_client)))
           = IF n + 1 <= Len(to_client) THEN Len(to_client) - (n + 1) + 1 ELSE 0
      /\ \A i \in 1 .. Len(to_client) - (n + 1) + 1 :
            SubSeq(to_client, n + 1, Len(to_client))[i] = to_client[(n + 1) + i - 1]
  BY <1>3, SubSeqProperties
<1> QED
  BY <1>1, <1>2, <1>4

LEMMA ReadBrings ==
    ASSUME StreamTypes, NEW n \in 1 .. Len(to_client)
    PROVE  /\ Data(n) \in SUBSET (1 .. n) /\ Cardinality(Data(n)) \in Nat
           /\ Data(n) # {} => Cardinality(Data(n)) - 1 \in Nat
<1>1. n \in Nat
  BY LenProperties DEF StreamTypes
<1>2. IsFiniteSet(1 .. n)
  BY <1>1, FS_Interval
<1>3. Data(n) \in SUBSET (1 .. n)
  BY DEF Data
<1>4. IsFiniteSet(Data(n)) /\ Cardinality(Data(n)) \in Nat
  BY <1>2, <1>3, FS_Subset, FS_CardinalityType
<1>5. Data(n) # {} => Cardinality(Data(n)) # 0
  BY <1>4, FS_EmptySet
<1> QED
  BY <1>3, <1>4, <1>5

\* The answers to the pings go behind what the client wrote, and are no load.
LEMMA PongsAdded ==
    ASSUME StreamTypes, NEW n \in 1 .. Len(to_client)
    PROVE  /\ to_broker \o Pongs(n) \in Seq(Upstream)
           /\ \A i \in 1 .. Len(to_broker \o Pongs(n)) : (to_broker \o Pongs(n))[i] # "ping" =>
                 i \in 1 .. Len(to_broker) /\ (to_broker \o Pongs(n))[i] = to_broker[i]
           /\ Load(to_broker \o Pongs(n)) = Load(to_broker)
<1> DEFINE pings == {j \in 1 .. n : to_client[j] = "ping"}
           k == Cardinality(pings)
<1>1. n \in Nat
  BY LenProperties DEF StreamTypes
<1>2. IsFiniteSet(1 .. n) /\ pings \in SUBSET (1 .. n)
  BY <1>1, FS_Interval
<1>3. k \in Nat
  BY <1>2, FS_Subset, FS_CardinalityType
<1>4. Pongs(n) = [i \in 1 .. k |-> "ping"]
  BY DEF Pongs
<1> HIDE DEF k
<1>5. Pongs(n) \in Seq({"ping"}) /\ Len(Pongs(n)) = k /\ \A i \in 1 .. k : Pongs(n)[i] = "ping"
  BY <1>3, <1>4
<1>6. Pongs(n) \in Seq(Upstream)
  BY <1>3, <1>4 DEF Upstream
<1>7. to_broker \in Seq(Upstream) /\ Len(to_broker) \in Nat /\ DOMAIN to_broker = 1 .. Len(to_broker)
  BY LenProperties DEF StreamTypes
<1> DEFINE all == to_broker \o Pongs(n)
<1>8. /\ all \in Seq(Upstream) /\ Len(all) = Len(to_broker) + k
      /\ \A i \in 1 .. Len(to_broker) + k :
            all[i] = IF i <= Len(to_broker) THEN to_broker[i] ELSE Pongs(n)[i - Len(to_broker)]
  BY <1>5, <1>6, <1>7, ConcatProperties
<1>9. DOMAIN all = 1 .. Len(all)
  BY <1>8, LenProperties
<1> HIDE DEF all
<1>10. \A i \in 1 .. Len(all) : all[i] # "ping" => i \in 1 .. Len(to_broker) /\ all[i] = to_broker[i]
  <2> TAKE i \in 1 .. Len(all)
  <2>1. CASE i <= Len(to_broker)
    BY <2>1, <1>3, <1>7, <1>8
  <2>2. CASE ~(i <= Len(to_broker))
    <3>1. i - Len(to_broker) \in 1 .. k
      BY <2>2, <1>3, <1>7, <1>8
    <3>2. all[i] = Pongs(n)[i - Len(to_broker)]
      BY <2>2, <1>3, <1>7, <1>8
    <3> QED
      BY <3>1, <3>2, <1>5
  <2> QED
    BY <2>1, <2>2
<1>11. \A i \in 1 .. Len(to_broker) : i \in 1 .. Len(all) /\ all[i] = to_broker[i]
  BY <1>3, <1>7, <1>8
<1>12. Loaded(all) = Loaded(to_broker)
  BY <1>7, <1>9, <1>10, <1>11 DEF Loaded
<1>13. Load(all) = Load(to_broker)
  BY <1>12 DEF Load
<1> QED
  BY <1>8, <1>10, <1>13 DEF all

LEMMA BrokerSessionStarts == BrokerSessionInit => SessionInv
<1> SUFFICES ASSUME BrokerSessionInit PROVE SessionInv
  OBVIOUS
<1>1. StreamTypes
  BY EmptySeq DEF BrokerSessionInit, StreamTypes, Beginning, Unanswered
<1>2. SentInv /\ LeadInv /\ PortInv
  BY DEF BrokerSessionInit, SentInv, LeadInv, PortInv, Unanswered
<1>3. OnTheWay
  BY LoadOfNothing DEF BrokerSessionInit, OnTheWay
<1>4. NothingYet /\ UnderWay /\ EndedWhole
  BY DEF BrokerSessionInit, NothingYet, UnderWay, EndedWhole, Beginning, Unanswered
<1> QED
  BY <1>1, <1>2, <1>3, <1>4 DEF SessionInv

\* Every step keeps the types.
LEMMA StreamTypesStep ==
    ASSUME StreamTypes, LeadInv, [BrokerSessionNext]_brokerVars
    PROVE  StreamTypes'
<1>0. /\ sent \in Seq({"token", "input"}) /\ to_broker \in Seq(Upstream)
      /\ backend \in Seq({"cookie", "input"}) /\ to_client \in Seq(Downstream)
      /\ incoming \in Nat /\ taken \in Nat /\ drawn \in Nat
      /\ where \in Beginning \cup {"open", "over"}
      /\ bridge \in Unanswered \cup {"relaying", "closed"}
  BY DEF StreamTypes
<1>A. /\ Append(sent, "token") \in Seq({"token", "input"})
      /\ Append(sent, "input") \in Seq({"token", "input"})
  BY <1>0, AppendProperties
<1>B. Append(to_broker, "token") \in Seq(Upstream) /\ Append(to_broker, "input") \in Seq(Upstream)
  BY <1>0, AppendProperties DEF Upstream
<1>C. /\ Append(to_client, "accepted") \in Seq(Downstream)
      /\ Append(to_client, "drawing") \in Seq(Downstream)
      /\ Append(to_client, "fin") \in Seq(Downstream)
      /\ <<"ping">> \in Seq(Downstream) /\ <<"gone">> \in Seq(Downstream)
  BY <1>0, AppendProperties DEF Downstream
<1>D. \A why \in Refusals : <<why, "gone">> \in Seq(Downstream)
  <2> TAKE why \in Refusals
  <2>1. why \in Downstream /\ "gone" \in Downstream
    BY DEF Downstream
  <2> QED
    BY <2>1
<1>1. CASE Connects \/ BeginsHandshake \/ GivesUp
  BY <1>0, <1>1 DEF Connects, BeginsHandshake, tls_connect, handshake, HandshakeEnds,
     GivesUp,
       Fails, Keeps, sessionFixed, bridgeState, StreamTypes, Beginning
<1>2. CASE SendsToken
  BY <1>0, <1>2, <1>A, <1>B DEF SendsToken, Fails, Keeps, sessionFixed, bridgeState,
     StreamTypes, Beginning
<1>3. CASE ReadsAnswer
  <2>1. PICK n \in 1 .. Len(to_client) :
            /\ Read(n)
            /\ \/ /\ Data(n) = {}
                  /\ IF Closes(n) # {} THEN Fails("other") ELSE UNCHANGED <<where, failure>>
                  /\ UNCHANGED <<incoming, peer_closed>>
               \/ \E i \in Data(n) :
                     /\ \A j \in Data(n) : i <= j
                     /\ IF to_client[i] = "accepted"
                        THEN /\ where' = "open" /\ incoming' = Cardinality(Data(n)) - 1
                             /\ peer_closed' = ("fin" \in Closes(n)) /\ UNCHANGED failure
                        ELSE Fails(to_client[i]) /\ UNCHANGED <<incoming, peer_closed>>
            /\ to_broker' = to_broker \o Pongs(n)
    BY <1>3 DEF ReadsAnswer
  <2>2. UNCHANGED <<sent, taken, drawn, backend, bridge>>
    BY <1>3 DEF ReadsAnswer, bridgeState
  <2>3. to_client' \in Seq(Downstream) /\ to_broker' \in Seq(Upstream)
    BY <2>1, ReadLeaves, PongsAdded
  <2>4. incoming' \in Nat /\ where' \in Beginning \cup {"open", "over"}
    BY <2>1, <1>0, ReadBrings DEF Fails
  <2> QED
    BY <2>2, <2>3, <2>4, <1>0 DEF StreamTypes
<1>4. CASE ReadsSome
  <2>1. PICK n \in 1 .. Len(to_client) :
            /\ Read(n)
            /\ to_broker' = to_broker \o Pongs(n)
            /\ IF Closes(n) # {}
               THEN /\ incoming' = Cardinality(Data(n)) /\ peer_closed' = ("fin" \in Closes(n))
                    /\ SessionEnds(IF "fin" \in Closes(n) THEN "orderly" ELSE "error")
                    /\ UNCHANGED taken
               ELSE /\ taken' = taken + Cardinality(Data(n))
                    /\ UNCHANGED <<incoming, peer_closed, ended, where>>
    BY <1>4 DEF ReadsSome
  <2>2. UNCHANGED <<sent, drawn, backend, bridge>>
    BY <1>4 DEF ReadsSome, bridgeState
  <2>3. to_client' \in Seq(Downstream) /\ to_broker' \in Seq(Upstream)
    BY <2>1, ReadLeaves, PongsAdded
  <2>4. incoming' \in Nat /\ taken' \in Nat /\ where' \in Beginning \cup {"open", "over"}
    BY <2>1, <1>0, ReadBrings DEF SessionEnds
  <2> QED
    BY <2>2, <2>3, <2>4, <1>0 DEF StreamTypes
<1>5. CASE ReceivesDecoded \/ ReceivesClosed \/ Drops \/ SendFails \/ Aborts \/ BackendEnds
  BY <1>0, <1>5 DEF ReceivesDecoded, ReceivesClosed, Drops, SendFails, Aborts, BackendEnds,
     SessionEnds,
       clientState, sessionFixed, bridgeState, StreamTypes
<1>6. CASE Sends \/ SendGoesOn
  BY <1>0, <1>6, <1>A, <1>B DEF Sends, SendGoesOn, sessionFixed, bridgeState, StreamTypes
<1>7. CASE AcceptsStream
  BY <1>0, <1>7 DEF AcceptsStream, BridgeTo, clientState, StreamTypes, Unanswered
<1>8. CASE authenticate
  <2>1. Tail(to_broker) \in Seq(Upstream)
    BY <1>0, <1>8, HeadTailProperties DEF authenticate
  <2>2. to_client \o <<"denied", "gone">> \in Seq(Downstream)
    <3>1. <<"denied", "gone">> \in Seq(Downstream)
      BY <1>D DEF Refusals
    <3> QED
      BY <1>0, <3>1, ConcatProperties
  <2> QED
    BY <1>0, <1>8, <2>1, <2>2 DEF authenticate, BridgeTo, clientState, StreamTypes,
       Unanswered
<1>9. CASE OpensSession
  <2>1. \A why \in {"no cookie", "no session"} : to_client \o <<why, "gone">> \in Seq(Downstream)
    <3> TAKE why \in {"no cookie", "no session"}
    <3>1. <<why, "gone">> \in Seq(Downstream)
      BY <1>D DEF Refusals
    <3> QED
      BY <1>0, <3>1, ConcatProperties
  <2>2. to_client' \in Seq(Downstream)
    BY <1>9, <1>C, <2>1 DEF OpensSession
  <2>3. backend' \in Seq({"cookie", "input"})
    <3>1. <<"cookie">> \in Seq({"cookie", "input"})
      OBVIOUS
    <3> QED
      BY <1>0, <1>9, <3>1 DEF OpensSession
  <2> QED
    BY <1>0, <1>9, <2>2, <2>3 DEF OpensSession, BridgeTo, clientState, StreamTypes
<1>10. CASE RelaysInput
  <2>1. Tail(to_broker) \in Seq(Upstream) /\ Head(to_broker) \in Upstream
    BY <1>0, <1>10, HeadTailProperties DEF RelaysInput
  <2>2. 1 \in 1 .. Len(to_broker) /\ Head(to_broker) = to_broker[1]
    BY <1>0, <1>10, EmptySeq DEF RelaysInput
  <2>3. Head(to_broker) # "token"
    BY <2>2, <1>10 DEF RelaysInput, LeadInv
  <2>4. Head(to_broker) # "ping" => Head(to_broker) = "input"
    BY <2>1, <2>3 DEF Upstream
  <2>5. Append(backend, "input") \in Seq({"cookie", "input"})
    BY <1>0, AppendProperties
  <2>6. backend' \in Seq({"cookie", "input"})
    BY <1>0, <1>10, <2>4, <2>5 DEF RelaysInput
  <2> QED
    BY <1>0, <1>10, <2>1, <2>6 DEF RelaysInput, BridgeTo, clientState, StreamTypes
<1>11. CASE RelaysDrawing \/ Pings \/ BridgeCloses
  <2>1. to_client' \in Seq(Downstream)
    BY <1>11, <1>C DEF RelaysDrawing, Pings, BridgeCloses
  <2>2. drawn' \in Nat
    BY <1>0, <1>11 DEF RelaysDrawing, Pings, BridgeCloses
  <2> QED
    BY <1>0, <1>11, <2>1, <2>2
    DEF RelaysDrawing, Pings, BridgeCloses, BridgeTo, clientState, StreamTypes
<1>12. CASE UNCHANGED brokerVars
  BY <1>0, <1>12 DEF brokerVars, clientState, bridgeState, StreamTypes
<1> QED
  BY <1>1, <1>2, <1>3, <1>4, <1>5, <1>6, <1>7, <1>8, <1>9, <1>10, <1>11, <1>12
  DEF BrokerSessionNext, ClientTurn, BridgeTurn, BrokerSessionDone

\* How far the client is, by what it sent.
LEMMA SentStep ==
    ASSUME StreamTypes, SentInv, [BrokerSessionNext]_brokerVars
    PROVE  SentInv'
<1>0. sent \in Seq({"token", "input"}) /\ to_broker \in Seq(Upstream)
  BY DEF StreamTypes
<1>A. Append(sent, "token") # <<>> /\ Append(sent, "input") # <<>>
  BY <1>0, AppendProperties
<1>1. CASE Connects \/ GivesUp
  BY <1>1 DEF Connects, GivesUp, Fails, Keeps, sessionFixed, bridgeState, SentInv
<1>2. CASE BeginsHandshake
  BY <1>2 DEF BeginsHandshake, tls_connect, handshake, HandshakeEnds, Fails, Keeps,
     sessionFixed,
       bridgeState, SentInv
<1>3. CASE SendsToken
  BY <1>3, <1>A DEF SendsToken, Fails, Keeps, sessionFixed, bridgeState, SentInv
<1>4. CASE ReadsAnswer
  <2>1. where' \in {"authenticating", "open", "over"} /\ where = "authenticating"
    BY <1>4 DEF ReadsAnswer, Fails
  <2>2. UNCHANGED <<sent, sending, verdict, bridge>>
    BY <1>4 DEF ReadsAnswer, sessionFixed, bridgeState
  <2> QED
    BY <2>1, <2>2 DEF SentInv
<1>5. CASE ReceivesDecoded \/ ReceivesClosed \/ ReadsSome \/ Drops
  <2>1. /\ where' \in {"open", "over"} /\ where = "open" /\ ~sending
        /\ UNCHANGED <<sent, sending, verdict, bridge>>
    BY <1>5 DEF ReceivesDecoded, ReceivesClosed, ReadsSome, Drops, SessionEnds,
       sessionFixed, bridgeState
  <2> QED
    BY <2>1 DEF SentInv
<1>6. CASE Sends \/ SendGoesOn \/ SendFails
  BY <1>6, <1>A DEF Sends, SendGoesOn, SendFails, SessionEnds, sessionFixed, bridgeState,
     SentInv
<1>7. CASE authenticate \/ RelaysInput
  <2>1. sent # <<>> /\ UNCHANGED <<where, sent, sending, verdict>>
    BY <1>7 DEF authenticate, RelaysInput, BridgeTo, clientState, sessionFixed, SentInv
  <2> QED
    BY <2>1 DEF SentInv
<1>8. CASE AcceptsStream \/ OpensSession
  <2>1. sent # <<>> /\ UNCHANGED <<where, sent, sending, verdict>>
    BY <1>8 DEF AcceptsStream, OpensSession, BridgeTo, clientState, sessionFixed, SentInv
  <2> QED
    BY <2>1 DEF SentInv
<1>9. CASE RelaysDrawing \/ Pings \/ BackendEnds \/ BridgeCloses
  BY <1>9 DEF RelaysDrawing, Pings, BackendEnds, BridgeCloses, BridgeTo, clientState,
     sessionFixed, SentInv
<1>10. CASE Aborts \/ UNCHANGED brokerVars
  BY <1>10 DEF Aborts, brokerVars, clientState, bridgeState, sessionFixed, SentInv
<1> QED
  BY <1>1, <1>2, <1>3, <1>4, <1>5, <1>6, <1>7, <1>8, <1>9, <1>10
  DEF BrokerSessionNext, ClientTurn, BridgeTurn, BrokerSessionDone

\* The actions that move neither of the two streams towards the session port.
Quiet == UNCHANGED <<sent, to_broker, backend, bridge, token>>

LEMMA QuietActions ==
    ASSUME Connects \/ BeginsHandshake \/ GivesUp \/ ReceivesDecoded \/ ReceivesClosed \/ Drops
             \/ SendFails \/ Aborts \/ RelaysDrawing \/ Pings \/ BackendEnds \/ UNCHANGED brokerVars
    PROVE  Quiet
<1>1. CASE Connects \/ BeginsHandshake \/ GivesUp
  BY <1>1 DEF Connects, BeginsHandshake, GivesUp, sessionFixed, bridgeState, Quiet
<1>2. CASE ReceivesDecoded \/ ReceivesClosed \/ Drops \/ SendFails
  BY <1>2 DEF ReceivesDecoded, ReceivesClosed, Drops, SendFails, sessionFixed, bridgeState,
     Quiet
<1>3. CASE Aborts \/ UNCHANGED brokerVars
  BY <1>3 DEF Aborts, brokerVars, clientState, bridgeState, sessionFixed, Quiet
<1>4. CASE RelaysDrawing \/ Pings
  BY <1>4 DEF RelaysDrawing, Pings, BridgeTo, clientState, sessionFixed, Quiet
<1>5. CASE BackendEnds
  BY <1>5 DEF BackendEnds, BridgeTo, clientState, sessionFixed, Quiet
<1> QED
  BY <1>1, <1>2, <1>3, <1>4, <1>5

\* The two sequences and the port's, action by action.
LEMMA PortStep ==
    ASSUME StreamTypes, SentInv, LeadInv, PortInv, OnTheWay, [BrokerSessionNext]_brokerVars
    PROVE  LeadInv' /\ PortInv' /\ OnTheWay'
<1>0. /\ sent \in Seq({"token", "input"}) /\ to_broker \in Seq(Upstream)
      /\ backend \in Seq({"cookie", "input"})
  BY DEF StreamTypes
<1>A. Len(sent) \in Nat /\ Len(to_broker) \in Nat /\ Len(backend) \in Nat /\ Load(to_broker) \in Nat
  BY <1>0, LenProperties, LoadCounts
<1>B. /\ \A i \in 1 .. Len(sent) : sent[i] = "token" <=> i = 1
      /\ \A i \in 1 .. Len(to_broker) :
            to_broker[i] = "token" => i = 1 /\ bridge \in {"handshake", "authenticating"}
      /\ \A i \in 1 .. Len(backend) : backend[i] = "cookie" <=> i = 1
  BY DEF LeadInv
<1>C. /\ Len(backend) + Load(to_broker) + (IF bridge = "authenticated" THEN 1 ELSE 0) <= Len(sent)
      /\ Len(backend) + Load(to_broker) <= Len(sent)
  BY <1>A DEF OnTheWay
<1>1. CASE Connects \/ BeginsHandshake \/ GivesUp \/ ReceivesDecoded \/ ReceivesClosed \/ Drops
             \/ SendFails \/ Aborts \/ RelaysDrawing \/ Pings \/ BackendEnds \/ UNCHANGED brokerVars
  <2>1. Quiet
    BY <1>1, QuietActions
  <2> QED
    BY <2>1 DEF Quiet, LeadInv, PortInv, OnTheWay, Load, Loaded
<1>2. CASE SendsToken
  <2>1. CASE where' # "authenticating"
    <3>1. Quiet
      BY <1>2, <2>1 DEF SendsToken, Keeps, sessionFixed, bridgeState, Quiet
    <3> QED
      BY <3>1 DEF Quiet, LeadInv, PortInv, OnTheWay, Load, Loaded
  <2>2. CASE where' = "authenticating"
    <3>1. sent = <<>> /\ to_broker = <<>> /\ bridge = "handshake"
      BY <1>2 DEF SendsToken, SentInv
    <3>2. /\ to_broker' = Append(to_broker, "token") /\ sent' = Append(sent, "token")
          /\ UNCHANGED <<backend, bridge, token>>
      BY <1>2, <2>2 DEF SendsToken, Fails, sessionFixed, bridgeState
    <3>3. /\ Len(sent') = 1 /\ sent'[1] = "token" /\ Len(to_broker') = 1 /\ to_broker'[1] = "token"
          /\ sent' # <<>>
      BY <3>1, <3>2
    <3>4. backend = <<>>
      BY <3>1 DEF PortInv, Unanswered
    <3>5. Load(to_broker') <= 1 /\ Load(to_broker') \in Nat
      <4>1. to_broker' \in Seq(Upstream) /\ Load(to_broker') <= Load(to_broker) + 1
        BY <3>2, <1>0, LoadAppended, AppendProperties DEF Upstream
      <4>2. Load(to_broker) = 0
        BY <3>1, LoadOfNothing
      <4> QED
        BY <4>1, <4>2, LoadCounts
    <3>6. LeadInv'
      BY <3>1, <3>2, <3>3, <3>4 DEF LeadInv
    <3>7. PortInv'
      BY <3>1, <3>2, <3>4 DEF PortInv
    <3>8. OnTheWay'
      BY <3>1, <3>2, <3>3, <3>4, <3>5 DEF OnTheWay
    <3> QED
      BY <3>6, <3>7, <3>8
  <2> QED
    BY <2>1, <2>2
<1>3. CASE ReadsAnswer \/ ReadsSome
  <2>1. PICK n \in 1 .. Len(to_client) : to_broker' = to_broker \o Pongs(n)
    BY <1>3 DEF ReadsAnswer, ReadsSome
  <2>2. UNCHANGED <<sent, backend, bridge, token>>
    BY <1>3 DEF ReadsAnswer, ReadsSome, sessionFixed, bridgeState
  <2>3. /\ \A i \in 1 .. Len(to_broker') : to_broker'[i] # "ping" =>
              i \in 1 .. Len(to_broker) /\ to_broker'[i] = to_broker[i]
        /\ Load(to_broker') = Load(to_broker)
    BY <2>1, PongsAdded
  <2>4. LeadInv'
    BY <1>B, <2>2, <2>3 DEF LeadInv
  <2>5. PortInv'
    BY <2>2 DEF PortInv
  <2>6. OnTheWay'
    BY <2>2, <2>3 DEF OnTheWay
  <2> QED
    BY <2>4, <2>5, <2>6
<1>4. CASE Sends \/ SendGoesOn
  <2>1. sent # <<>> /\ UNCHANGED <<backend, bridge, token>>
    BY <1>4 DEF Sends, SendGoesOn, SentInv, sessionFixed, bridgeState
  <2>2. CASE UNCHANGED <<to_broker, sent>>
    <3>1. Quiet
      BY <2>1, <2>2 DEF Quiet
    <3> QED
      BY <3>1 DEF Quiet, LeadInv, PortInv, OnTheWay, Load, Loaded
  <2>3. CASE to_broker' = Append(to_broker, "input") /\ sent' = Append(sent, "input")
    <3>1. /\ Len(sent') = Len(sent) + 1 /\ sent' # <<>> /\ sent'[Len(sent) + 1] = "input"
          /\ \A i \in 1 .. Len(sent) : sent'[i] = sent[i]
      <4>1. /\ Len(Append(sent, "input")) = Len(sent) + 1 /\ Append(sent, "input") # <<>>
            /\ Append(sent, "input")[Len(sent) + 1] = "input"
            /\ \A i \in 1 .. Len(sent) : Append(sent, "input")[i] = sent[i]
        BY <1>0, AppendProperties
      <4> QED
        BY <2>3, <4>1
    <3>2. /\ Len(to_broker') = Len(to_broker) + 1 /\ to_broker'[Len(to_broker) + 1] = "input"
          /\ \A i \in 1 .. Len(to_broker) : to_broker'[i] = to_broker[i]
          /\ to_broker' \in Seq(Upstream)
      <4>1. /\ Len(Append(to_broker, "input")) = Len(to_broker) + 1
            /\ Append(to_broker, "input") \in Seq(Upstream)
            /\ Append(to_broker, "input")[Len(to_broker) + 1] = "input"
            /\ \A i \in 1 .. Len(to_broker) : Append(to_broker, "input")[i] = to_broker[i]
        BY <1>0, AppendProperties DEF Upstream
      <4> QED
        BY <2>3, <4>1
    <3>3. Load(to_broker') <= Load(to_broker) + 1 /\ Load(to_broker') \in Nat
      BY <2>3, <3>2, <1>0, LoadAppended, LoadCounts DEF Upstream
    <3>4. Len(sent) >= 1
      BY <2>1, <1>0, EmptySeq
    <3>5. LeadInv'
      <4>1. \A i \in 1 .. Len(sent') : sent'[i] = "token" <=> i = 1
        BY <3>1, <3>4, <1>A, <1>B
      <4>2. \A i \in 1 .. Len(to_broker') :
                to_broker'[i] = "token" => i = 1 /\ bridge' \in {"handshake", "authenticating"}
        BY <3>2, <2>1, <1>A, <1>B
      <4> QED
        BY <4>1, <4>2, <2>1, <1>B DEF LeadInv
    <3>6. PortInv'
      BY <2>1, <3>1 DEF PortInv
    <3>7. OnTheWay'
      BY <2>1, <3>1, <3>3, <1>A DEF OnTheWay
    <3> QED
      BY <3>5, <3>6, <3>7
  <2> QED
    BY <1>4, <2>2, <2>3 DEF Sends, SendGoesOn
<1>5. CASE AcceptsStream
  BY <1>5 DEF AcceptsStream, BridgeTo, clientState, sessionFixed, LeadInv, PortInv,
     OnTheWay, Load,
       Loaded, Unanswered
<1>6. CASE authenticate \/ RelaysInput
  <2>1. /\ to_broker # <<>> /\ to_broker' = Tail(to_broker) /\ UNCHANGED <<sent, token>>
    BY <1>6 DEF authenticate, RelaysInput, BridgeTo, clientState, sessionFixed
  <2>2. sent # <<>>
    BY <2>1 DEF SentInv
  <2>3. /\ Len(to_broker') = Len(to_broker) - 1 /\ to_broker' \in Seq(Upstream)
        /\ \A i \in 1 .. Len(to_broker) - 1 : to_broker'[i] = to_broker[i + 1]
        /\ Head(to_broker) = to_broker[1] /\ Head(to_broker) \in Upstream /\ Len(to_broker) >= 1
    BY <2>1, <1>0, HeadTailProperties, EmptySeq
  <2>4. \A i \in 1 .. Len(to_broker') : to_broker'[i] # "token"
    BY <2>3, <1>A, <1>B
  <2>5. /\ Load(to_broker') + (IF Head(to_broker) = "ping" THEN 0 ELSE 1) <= Load(to_broker)
        /\ Load(to_broker') \in Nat
    BY <2>1, <2>3, <1>0, LoadTaken, LoadCounts
  <2>6. CASE authenticate
    <3>1. bridge = "authenticating" /\ backend = <<>> /\ UNCHANGED backend
      BY <2>6 DEF authenticate, PortInv, Unanswered
    <3>2. \/ Head(to_broker) = "token" /\ token = "right" /\ bridge' = "authenticated"
          \/ bridge' = "closed"
      BY <2>6 DEF authenticate, BridgeTo
    <3>3. LeadInv'
      BY <2>1, <2>4, <3>1, <1>B DEF LeadInv
    <3>4. PortInv'
      BY <2>1, <2>2, <3>1, <3>2 DEF PortInv, Unanswered
    <3>5. bridge' = "authenticated" => Load(to_broker') + 1 <= Load(to_broker)
      BY <2>5, <3>2
    <3>6. OnTheWay'
      BY <2>1, <2>5, <3>1, <3>2, <3>5, <1>A, <1>C DEF OnTheWay
    <3> QED
      BY <3>3, <3>4, <3>6
  <2>7. CASE RelaysInput
    <3>1. bridge = "relaying" /\ bridge' = bridge
      BY <2>7 DEF RelaysInput, BridgeTo
    <3>2. CASE Head(to_broker) = "ping"
      <4>1. UNCHANGED backend
        BY <2>7, <3>2 DEF RelaysInput
      <4>2. LeadInv'
        BY <2>1, <2>4, <4>1, <1>B DEF LeadInv
      <4>3. PortInv'
        BY <2>1, <3>1, <4>1 DEF PortInv
      <4>4. OnTheWay'
        BY <2>1, <2>5, <3>1, <3>2, <4>1, <1>A, <1>C DEF OnTheWay
      <4> QED
        BY <4>2, <4>3, <4>4
    <3>3. CASE Head(to_broker) # "ping"
      <4>1. Head(to_broker) = "input"
        BY <2>3, <3>1, <3>3, <1>A, <1>B DEF Upstream
      <4>2. backend' = Append(backend, "input")
        BY <2>7, <3>3, <4>1 DEF RelaysInput
      <4>3. /\ Len(backend') = Len(backend) + 1 /\ backend'[Len(backend) + 1] = "input"
            /\ \A i \in 1 .. Len(backend) : backend'[i] = backend[i]
        BY <4>2, <1>0, AppendProperties
      <4>4. backend # <<>> /\ Len(backend) >= 1 /\ backend' # <<>>
        BY <3>1, <4>2, <1>0, EmptySeq, AppendProperties DEF PortInv
      <4>5. \A i \in 1 .. Len(backend') : backend'[i] = "cookie" <=> i = 1
        BY <4>3, <4>4, <1>A, <1>B
      <4>6. LeadInv'
        BY <2>1, <2>4, <4>5, <1>B DEF LeadInv
      <4>7. PortInv'
        BY <2>1, <3>1, <4>4 DEF PortInv, Unanswered
      <4>8. Load(to_broker') + 1 <= Load(to_broker)
        BY <2>5, <3>3
      <4>9. OnTheWay'
        BY <2>1, <2>5, <3>1, <4>3, <4>8, <1>A, <1>C DEF OnTheWay
      <4> QED
        BY <4>6, <4>7, <4>9
    <3> QED
      BY <3>2, <3>3
  <2> QED
    BY <1>6, <2>6, <2>7
<1>7. CASE OpensSession
  <2>1. /\ bridge = "authenticated" /\ UNCHANGED <<sent, to_broker, token>>
        /\ \/ backend' = <<"cookie">> /\ bridge' = "relaying"
           \/ UNCHANGED backend /\ bridge' = "closed"
    BY <1>7 DEF OpensSession, BridgeTo, clientState, sessionFixed
  <2>2. backend = <<>>
    BY <2>1 DEF PortInv, Unanswered
  <2>3. LeadInv'
    BY <2>1, <2>2, <1>B DEF LeadInv
  <2>4. PortInv'
    BY <2>1, <2>2 DEF PortInv, Unanswered
  <2>5. Load(to_broker) + 1 <= Len(sent) /\ Load(to_broker') = Load(to_broker)
    BY <2>1, <2>2, <1>A, <1>C DEF Load, Loaded
  <2>6. Len(backend') <= 1 /\ Len(backend') \in Nat
    <3>1. CASE backend' = <<>>
      BY <3>1
    <3>2. CASE backend' = <<"cookie">>
      BY <3>2
    <3> QED
      BY <2>1, <2>2, <3>1, <3>2
  <2>7. OnTheWay'
    BY <2>1, <2>5, <2>6, <1>A DEF OnTheWay
  <2> QED
    BY <2>3, <2>4, <2>7
<1>8. CASE BridgeCloses
  <2>1. bridge = "relaying" /\ bridge' = "closed" /\ UNCHANGED <<sent, to_broker, backend, token>>
    BY <1>8 DEF BridgeCloses, BridgeTo, clientState, sessionFixed
  <2> QED
    BY <2>1, <1>B, <1>C DEF LeadInv, PortInv, OnTheWay, Load, Loaded, Unanswered
<1> QED
  BY <1>1, <1>2, <1>3, <1>4, <1>5, <1>6, <1>7, <1>8
  DEF BrokerSessionNext, ClientTurn, BridgeTurn, BrokerSessionDone

\* A stream grows by a drawing or by its end.
LEMMA ShapeGrows ==
    ASSUME NEW s \in Seq(Downstream), NEW lead \in {0, 1}, NEW count, Shape(s, lead, count, 0)
    PROVE  /\ Shape(Append(s, "drawing"), lead, count + 1, 0)
           /\ Shape(Append(s, "fin"), lead, count, 1)
<1>1. /\ Len(s) = lead + count /\ count \in Nat
      /\ \A i \in 1 .. lead : s[i] = "accepted"
      /\ \A i \in lead + 1 .. lead + count : s[i] = "drawing"
  BY DEF Shape
<1>2. ASSUME NEW m \in {"drawing", "fin"}
      PROVE  /\ Len(Append(s, m)) = lead + count + 1
             /\ \A i \in 1 .. lead : Append(s, m)[i] = "accepted"
             /\ \A i \in lead + 1 .. lead + count : Append(s, m)[i] = "drawing"
             /\ Append(s, m)[lead + count + 1] = m
  <2>1. /\ Len(Append(s, m)) = Len(s) + 1 /\ Append(s, m)[Len(s) + 1] = m
        /\ \A i \in 1 .. Len(s) : Append(s, m)[i] = s[i]
    BY AppendProperties DEF Downstream
  <2> QED
    BY <1>1, <2>1
<1>3. Shape(Append(s, "drawing"), lead, count + 1, 0)
  BY <1>1, <1>2 DEF Shape
<1>4. Shape(Append(s, "fin"), lead, count, 1)
  BY <1>1, <1>2 DEF Shape
<1> QED
  BY <1>3, <1>4

\* Over QUIC a read of such a stream is its end by itself, or none of its end: that many
\* messages, and what is left is drawings.
LEMMA ShapeRead ==
    ASSUME StreamTypes, kind = "quic", NEW n \in 1 .. Len(to_client), Read(n),
           NEW lead \in {0, 1}, NEW count, NEW end \in {0, 1}, Shape(to_client, lead, count, end)
    PROVE  \/ lead = 0 /\ count = 0 /\ end = 1 /\ Closes(n) # {}
           \/ /\ Closes(n) = {} /\ Cardinality(Data(n)) = n
              /\ Shape(to_client', 0, count + lead - n, end)
<1>1. /\ Len(to_client) = lead + count + end /\ count \in Nat /\ n \in Nat
      /\ \A i \in 1 .. lead : to_client[i] = "accepted"
      /\ \A i \in lead + 1 .. lead + count : to_client[i] = "drawing"
      /\ \A i \in lead + count + 1 .. lead + count + end : to_client[i] = "fin"
  BY DEF Shape
<1>2. CASE n > lead + count
  <2>1. n = lead + count + 1 /\ end = 1 /\ to_client[n] = "fin"
    BY <1>1, <1>2
  <2>2. SubSeq(to_client, 1, n)[n] = to_client[n]
    <3>1. \A i \in 1 .. n : to_client[i] \in Downstream
      BY <1>1, LenProperties, ElementOfSeq DEF StreamTypes
    <3>2. \A i \in 1 .. n - 1 + 1 : SubSeq(to_client, 1, n)[i] = to_client[1 + i - 1]
      BY <1>1, <3>1, SubSeqProperties
    <3> QED
      BY <1>1, <3>2
  <2>3. n = 1
    BY <2>1, <2>2 DEF Read
  <2>4. lead = 0 /\ count = 0
    BY <1>1, <2>1, <2>3
  <2>5. Closes(n) # {}
    BY <2>1, <2>3 DEF Closes
  <2> QED
    BY <2>1, <2>4, <2>5
<1>3. CASE n <= lead + count
  <2>1. \A i \in 1 .. n : to_client[i] \in {"accepted", "drawing"}
    BY <1>1, <1>3
  <2>2. Closes(n) = {} /\ Data(n) = 1 .. n
    BY <2>1 DEF Closes, Data
  <2>3. Cardinality(Data(n)) = n
    BY <2>2, <1>1, FS_Interval
  <2>4. /\ Len(to_client') = Len(to_client) - n
        /\ \A i \in 1 .. Len(to_client) - n : to_client'[i] = to_client[n + i]
    BY ReadLeaves
  <2>5. n >= lead
    BY <1>1
  <2>6. \A i \in 1 .. count + lead - n : to_client'[i] = "drawing"
    BY <1>1, <1>3, <2>4, <2>5
  <2>7. \A i \in count + lead - n + 1 .. count + lead - n + end : to_client'[i] = "fin"
    BY <1>1, <1>3, <2>4, <2>5
  <2>8. Len(to_client') = 0 + (count + lead - n) + end /\ count + lead - n \in Nat
    BY <1>1, <1>3, <2>4
  <2>9. Shape(to_client', 0, count + lead - n, end)
    BY <2>6, <2>7, <2>8 DEF Shape
  <2> QED
    BY <2>2, <2>3, <2>9
<1> QED
  BY <1>1, <1>2, <1>3

\* What the broker draws is with the client, or cut off, step by step.
LEMMA DrawnStep ==
    ASSUME StreamTypes, NothingYet, UnderWay, EndedWhole, [BrokerSessionNext]_brokerVars
    PROVE  NothingYet' /\ UnderWay' /\ EndedWhole'
<1>0. /\ to_client \in Seq(Downstream) /\ incoming \in Nat /\ taken \in Nat /\ drawn \in Nat
      /\ where \in Beginning \cup {"open", "over"}
      /\ bridge \in Unanswered \cup {"relaying", "closed"}
  BY DEF StreamTypes
<1>1. CASE Sends \/ SendGoesOn \/ RelaysInput \/ Aborts \/ BackendEnds \/ AcceptsStream
             \/ UNCHANGED brokerVars
  <2>1. /\ UNCHANGED <<to_client, incoming, taken, drawn, where, kind, ended>>
        /\ \/ bridge' = bridge
           \/ bridge \in Unanswered /\ bridge' \in Unanswered
    <3>1. CASE AcceptsStream
      BY <3>1 DEF AcceptsStream, BridgeTo, clientState, sessionFixed, Unanswered
    <3> QED
      BY <1>1, <3>1 DEF Sends, SendGoesOn, RelaysInput, Aborts, BackendEnds, BridgeTo,
         clientState, bridgeState,
           sessionFixed, brokerVars
  <2>2. NothingYet'
    BY <2>1 DEF NothingYet
  <2>3. UnderWay'
    BY <2>1 DEF UnderWay, CutOff, TurnedAway, Whole, Shape, Unanswered
  <2>4. EndedWhole'
    BY <2>1 DEF EndedWhole, Unanswered
  <2> QED
    BY <2>2, <2>3, <2>4
<1>2. CASE Connects \/ BeginsHandshake \/ SendsToken \/ GivesUp
  <2>1. /\ UNCHANGED <<to_client, incoming, taken, drawn, kind, ended, bridge>>
        /\ where \in Beginning /\ where' \in Beginning \cup {"over"}
    BY <1>2 DEF Connects, BeginsHandshake, SendsToken, GivesUp, tls_connect, handshake,
       HandshakeEnds, Fails,
         Keeps, sessionFixed, bridgeState, Beginning
  <2>2. where # "open" /\ where # "over" /\ where' # "open"
    BY <2>1 DEF Beginning
  <2>3. NothingYet'
    BY <2>1, <2>2 DEF NothingYet
  <2>4. UnderWay'
    BY <2>1, <2>2 DEF UnderWay, CutOff, TurnedAway, Whole, Shape
  <2>5. EndedWhole'
    BY <2>1, <2>2 DEF EndedWhole
  <2> QED
    BY <2>3, <2>4, <2>5
<1>3. CASE ReceivesClosed \/ Drops \/ SendFails
  <2>1. /\ UNCHANGED <<to_client, drawn, kind, bridge>>
        /\ where' = "over" /\ (ended' = "orderly" => kind = "wss")
    BY <1>3 DEF ReceivesClosed, Drops, SendFails, SessionEnds, sessionFixed, bridgeState
  <2>2. NothingYet'
    BY <2>1 DEF NothingYet, Beginning
  <2>3. UnderWay' /\ EndedWhole'
    BY <2>1 DEF UnderWay, EndedWhole
  <2> QED
    BY <2>2, <2>3
<1>4. CASE ReceivesDecoded
  <2>1. /\ UNCHANGED <<to_client, drawn, kind, bridge, where, ended>> /\ where = "open"
        /\ taken' = taken + incoming /\ incoming' = 0
    BY <1>4 DEF ReceivesDecoded, sessionFixed, bridgeState
  <2>2. drawn' - taken' - incoming' = drawn - taken - incoming
    BY <2>1, <1>0
  <2>3. NothingYet'
    BY <2>1 DEF NothingYet, Beginning
  <2>4. UnderWay'
    BY <2>1, <2>2 DEF UnderWay, CutOff, TurnedAway, Whole, Shape
  <2>5. EndedWhole'
    BY <2>1 DEF EndedWhole
  <2> QED
    BY <2>3, <2>4, <2>5
<1>5. CASE ReadsAnswer
  <2>1. PICK n \in 1 .. Len(to_client) :
            /\ Read(n)
            /\ \/ /\ Data(n) = {} /\ where' \in {where, "over"} /\ UNCHANGED incoming
                  /\ Closes(n) # {} => where' = "over"
               \/ \E i \in Data(n) :
                     /\ \A j \in Data(n) : i <= j
                     /\ IF to_client[i] = "accepted"
                        THEN where' = "open" /\ incoming' = Cardinality(Data(n)) - 1
                        ELSE where' = "over" /\ UNCHANGED incoming
    BY <1>5 DEF ReadsAnswer, Fails
  <2>2. UNCHANGED <<taken, drawn, kind, bridge, ended>> /\ where = "authenticating"
    BY <1>5 DEF ReadsAnswer, sessionFixed, bridgeState
  <2>3. bridge \notin Unanswered
    BY <2>1, <1>0 DEF NothingYet
  <2>4. taken = 0 /\ incoming = 0
    BY <2>2 DEF NothingYet, Beginning
  <2>5. where' \in {"authenticating", "open", "over"} /\ (where' = "authenticating" => UNCHANGED incoming)
    BY <2>1, <2>2
  <2>6. NothingYet'
    BY <2>2, <2>3, <2>4, <2>5 DEF NothingYet, Beginning
  <2>7. EndedWhole'
    BY <2>2 DEF EndedWhole
  <2>8. UnderWay'
    <3> SUFFICES ASSUME kind = "quic", where' # "over" PROVE Whole'
      BY <2>2 DEF UnderWay
    <3>1. CutOff \/ TurnedAway \/ Whole
      BY <2>2, <2>3 DEF UnderWay
    <3>2. ~CutOff
      <4> SUFFICES ASSUME CutOff PROVE FALSE
        OBVIOUS
      <4>1. n = 1 /\ to_client[1] = "gone"
        BY <2>1 DEF CutOff
      <4>2. Data(n) = {} /\ Closes(n) # {}
        BY <4>1 DEF Data, Closes
      <4> QED
        BY <2>1, <4>2
    <3>3. ~TurnedAway
      <4> SUFFICES ASSUME NEW why \in Refusals, to_client = <<why, "gone">> PROVE FALSE
        BY DEF TurnedAway
      <4>1. to_client[1] = why /\ to_client[2] = "gone" /\ n \in {1, 2}
        BY <2>1
      <4>2. Data(n) = {1}
        <5>1. to_client[1] \notin {"fin", "gone", "ping"} /\ to_client[2] \in {"fin", "gone", "ping"}
          BY <4>1 DEF Refusals
        <5> QED
          BY <4>1, <5>1 DEF Data
      <4>3. to_client[1] # "accepted"
        BY <4>1 DEF Refusals
      <4> QED
        BY <2>1, <4>2, <4>3
    <3>4. Shape(to_client, 1, drawn, IF bridge = "closed" THEN 1 ELSE 0)
      BY <3>1, <3>2, <3>3, <2>2, <2>4, <1>0 DEF Whole
    <3>5. /\ Closes(n) = {} /\ Cardinality(Data(n)) = n
          /\ Shape(to_client', 0, drawn + 1 - n, IF bridge = "closed" THEN 1 ELSE 0)
      BY <3>4, <2>1, ShapeRead
    <3>6. Data(n) # {}
      BY <3>5, <2>1, FS_EmptySet
    <3>7. where' = "open" /\ incoming' = n - 1
      BY <3>5, <3>6, <2>1
    <3>8. n \in Nat /\ drawn + 1 - n = drawn' - taken' - incoming'
      BY <3>7, <2>1, <2>2, <2>4, <1>0, LenProperties
    <3> QED
      BY <3>5, <3>7, <3>8, <2>2 DEF Whole
  <2> QED
    BY <2>6, <2>7, <2>8
<1>6. CASE ReadsSome
  <2>1. PICK n \in 1 .. Len(to_client) :
            /\ Read(n)
            /\ IF Closes(n) # {}
               THEN where' = "over" /\ (ended' = "orderly" => "fin" \in Closes(n)) /\ UNCHANGED taken
               ELSE /\ taken' = taken + Cardinality(Data(n))
                    /\ UNCHANGED <<incoming, ended, where>>
    BY <1>6 DEF ReadsSome, SessionEnds
  <2>2. UNCHANGED <<drawn, kind, bridge>> /\ where = "open" /\ incoming = 0
    BY <1>6 DEF ReadsSome, sessionFixed, bridgeState
  <2>3. bridge \notin Unanswered /\ where' \in {"open", "over"} /\ ended = "none"
    BY <2>1, <2>2 DEF NothingYet, EndedWhole
  <2>4. NothingYet'
    BY <2>2, <2>3 DEF NothingYet, Beginning
  <2>5. kind = "quic" => CutOff \/ Whole
    BY <2>2, <2>3 DEF UnderWay, TurnedAway
  <2>6. ASSUME kind = "quic", CutOff PROVE where' = "over" /\ ended' # "orderly"
    <3>1. n = 1 /\ to_client[1] = "gone"
      BY <2>1, <2>6 DEF CutOff
    <3>2. Closes(n) = {"gone"}
      BY <3>1 DEF Closes
    <3> QED
      BY <2>1, <3>2
  <2>7. ASSUME kind = "quic", Whole
        PROVE  \/ bridge = "closed" /\ taken = drawn /\ where' = "over" /\ UNCHANGED taken
               \/ Closes(n) = {} /\ Whole' /\ ended' = "none"
    <3> DEFINE end == IF bridge = "closed" THEN 1 ELSE 0
    <3>1. Shape(to_client, 0, drawn - taken, end)
      BY <2>7, <2>2, <1>0 DEF Whole
    <3>2. end \in {0, 1} /\ (end = 1 => bridge = "closed")
      OBVIOUS
    <3> HIDE DEF end
    <3>3. CASE drawn - taken = 0 /\ end = 1 /\ Closes(n) # {}
      BY <3>2, <3>3, <2>1, <1>0
    <3>4. CASE /\ Closes(n) = {} /\ Cardinality(Data(n)) = n
               /\ Shape(to_client', 0, drawn - taken + 0 - n, end)
      <4>1. taken' = taken + n /\ n \in Nat /\ UNCHANGED <<incoming, ended, where>>
        BY <3>4, <2>1, <1>0, LenProperties
      <4>2. drawn - taken + 0 - n = drawn' - taken' - incoming'
        BY <4>1, <2>2, <1>0
      <4>3. Whole'
        BY <3>4, <4>1, <4>2, <2>2 DEF Whole, end
      <4> QED
        BY <3>4, <4>1, <4>3, <2>3
    <3> QED
      BY <3>1, <3>2, <3>3, <3>4, <2>1, <2>7, ShapeRead
  <2>8. UnderWay'
    BY <2>2, <2>3, <2>5, <2>6, <2>7 DEF UnderWay
  <2>9. EndedWhole'
    <3>1. ended' # "none" => where' = "over"
      BY <2>1, <2>3
    <3>2. kind = "quic" /\ ended' = "orderly" => bridge = "closed" /\ taken = drawn /\ UNCHANGED taken
      BY <2>5, <2>6, <2>7
    <3> QED
      BY <3>1, <3>2, <2>2 DEF EndedWhole
  <2> QED
    BY <2>4, <2>8, <2>9
<1>7. CASE authenticate \/ OpensSession
  <2>1. /\ bridge \in Unanswered /\ to_client = <<>> /\ drawn = 0 /\ where # "open"
        /\ UNCHANGED <<incoming, taken, drawn, where, kind, ended>>
    BY <1>7 DEF authenticate, OpensSession, BridgeTo, clientState, sessionFixed, NothingYet,
       Unanswered
  <2>2. \/ bridge' = "authenticated" /\ UNCHANGED to_client
        \/ bridge' = "relaying" /\ to_client' = Append(to_client, "accepted")
        \/ bridge' = "closed" /\ \E why \in Refusals : to_client' = to_client \o <<why, "gone">>
    BY <1>7 DEF authenticate, OpensSession, BridgeTo, Refusals
  <2>3. NothingYet'
    BY <2>1, <2>2 DEF NothingYet, Unanswered
  <2>4. EndedWhole'
    BY <2>1 DEF EndedWhole, Unanswered
  <2>5. UnderWay'
    <3>1. CASE bridge' = "authenticated"
      BY <3>1 DEF UnderWay, Unanswered
    <3>2. CASE bridge' = "relaying" /\ to_client' = Append(to_client, "accepted")
      <4>1. where # "over" => taken = 0 /\ incoming = 0
        BY <1>0, <2>1 DEF NothingYet
      <4>2. to_client' = <<"accepted">>
        BY <2>1, <3>2
      <4>3. Shape(to_client', 1, 0, 0)
        BY <4>2 DEF Shape
      <4>4. where # "over" => Whole'
        BY <2>1, <3>2, <4>1, <4>3 DEF Whole
      <4> QED
        BY <2>1, <4>4 DEF UnderWay
    <3>3. CASE bridge' = "closed" /\ \E why \in Refusals : to_client' = to_client \o <<why, "gone">>
      <4>1. TurnedAway'
        BY <2>1, <3>3 DEF TurnedAway
      <4> QED
        BY <4>1 DEF UnderWay
    <3> QED
      BY <2>2, <3>1, <3>2, <3>3
  <2> QED
    BY <2>3, <2>4, <2>5
<1>8. CASE RelaysDrawing \/ Pings
  <2>1. /\ bridge = "relaying" /\ UNCHANGED <<incoming, taken, where, kind, ended, bridge>>
        /\ \/ drawn' = drawn + 1 /\ to_client' = Append(to_client, "drawing")
           \/ kind = "wss"
    BY <1>8 DEF RelaysDrawing, Pings, BridgeTo, clientState, sessionFixed
  <2>2. NothingYet'
    BY <2>1 DEF NothingYet, Unanswered
  <2>3. EndedWhole'
    BY <2>1 DEF EndedWhole
  <2>4. ASSUME kind = "quic", where # "over" PROVE Whole'
    <3>1. Whole
      BY <2>1, <2>4 DEF UnderWay, CutOff, TurnedAway, Unanswered
    <3>2. /\ Shape(to_client, IF where = "open" THEN 0 ELSE 1, drawn - taken - incoming, 0)
          /\ drawn' - taken' - incoming' = (drawn - taken - incoming) + 1
          /\ to_client' = Append(to_client, "drawing")
      BY <3>1, <2>1, <2>4, <1>0 DEF Whole
    <3>3. Shape(to_client', IF where = "open" THEN 0 ELSE 1, drawn' - taken' - incoming', 0)
      BY <3>2, <1>0, ShapeGrows
    <3> QED
      BY <3>3, <2>1 DEF Whole
  <2>5. UnderWay'
    BY <2>1, <2>4 DEF UnderWay
  <2> QED
    BY <2>2, <2>3, <2>5
<1>9. CASE BridgeCloses
  <2>1. /\ bridge = "relaying" /\ bridge' = "closed" /\ UNCHANGED <<incoming, taken, drawn, where, kind, ended>>
        /\ to_client' \in {Append(to_client, "fin"), <<"gone">>}
    BY <1>9 DEF BridgeCloses, BridgeTo, clientState, sessionFixed
  <2>2. NothingYet'
    BY <2>1 DEF NothingYet, Unanswered
  <2>3. EndedWhole'
    BY <2>1 DEF EndedWhole
  <2>4. ASSUME kind = "quic", where # "over", to_client' = Append(to_client, "fin") PROVE Whole'
    <3>1. Whole
      BY <2>1, <2>4 DEF UnderWay, CutOff, TurnedAway, Unanswered
    <3>2. Shape(to_client, IF where = "open" THEN 0 ELSE 1, drawn - taken - incoming, 0)
      BY <3>1, <2>1 DEF Whole
    <3>3. Shape(to_client', IF where = "open" THEN 0 ELSE 1, drawn - taken - incoming, 1)
      BY <3>2, <2>4, <1>0, ShapeGrows
    <3> QED
      BY <3>3, <2>1 DEF Whole
  <2>5. to_client' = <<"gone">> => CutOff'
    BY <2>1 DEF CutOff
  <2>6. UnderWay'
    BY <2>1, <2>4, <2>5 DEF UnderWay
  <2> QED
    BY <2>2, <2>3, <2>6
<1> QED
  BY <1>1, <1>2, <1>3, <1>4, <1>5, <1>6, <1>7, <1>8, <1>9
  DEF BrokerSessionNext, ClientTurn, BridgeTurn, BrokerSessionDone

LEMMA BrokerSessionKeeps == SessionInv /\ [BrokerSessionNext]_brokerVars => SessionInv'
BY StreamTypesStep, SentStep, PortStep, DrawnStep DEF SessionInv

\* What the session port saw behind its cookie is what was sent behind the token, as far
\* as it came.
LEMMA InTheOrderSent ==
    ASSUME StreamTypes, LeadInv, OnTheWay, backend # <<>>, sent # <<>>
    PROVE  Head(backend) = "cookie" /\ IsPrefix(Tail(backend), Tail(sent))
<1>1. /\ sent \in Seq({"token", "input"}) /\ backend \in Seq({"cookie", "input"})
      /\ to_broker \in Seq(Upstream)
  BY DEF StreamTypes
<1>2. Len(sent) \in Nat \ {0} /\ Len(backend) \in Nat \ {0} /\ Load(to_broker) \in Nat
  BY <1>1, EmptySeq, LoadCounts
<1>3. Len(backend) <= Len(sent)
  BY <1>2 DEF OnTheWay
<1>4. Head(backend) = backend[1]
  BY <1>1, <1>2
<1>5. Head(backend) = "cookie"
  BY <1>2, <1>4 DEF LeadInv
<1> DEFINE k == Len(backend) - 1
           port == Tail(backend)
           client == Tail(sent)
<1>6. /\ port \in Seq({"cookie", "input"}) /\ Len(port) = k
      /\ \A i \in 1 .. k : port[i] = backend[i + 1]
  BY <1>1, HeadTailProperties
<1>7. /\ client \in Seq({"token", "input"}) /\ Len(client) = Len(sent) - 1
      /\ \A i \in 1 .. Len(sent) - 1 : client[i] = sent[i + 1]
  BY <1>1, HeadTailProperties
<1>8. k \in Nat /\ k <= Len(sent) - 1
  BY <1>2, <1>3
<1>9. \A i \in 1 .. k : backend[i + 1] = "input" /\ sent[i + 1] = "input"
  <2> TAKE i \in 1 .. k
  <2>1. i + 1 \in 1 .. Len(backend) /\ i + 1 \in 1 .. Len(sent) /\ i + 1 # 1
    BY <1>2, <1>3
  <2>2. backend[i + 1] # "cookie" /\ sent[i + 1] # "token"
    BY <2>1 DEF LeadInv
  <2>3. backend[i + 1] \in {"cookie", "input"} /\ sent[i + 1] \in {"token", "input"}
    BY <2>1, <1>1, ElementOfSeq
  <2> QED
    BY <2>2, <2>3
<1>10. \A i \in 1 .. k : port[i] = "input" /\ client[i] = "input"
  BY <1>6, <1>7, <1>8, <1>9
<1> HIDE DEF k, port, client
<1>11. /\ SubSeq(port, 1, k) \in Seq({"input"}) /\ SubSeq(client, 1, k) \in Seq({"input"})
       /\ Len(SubSeq(port, 1, k)) = Len(SubSeq(client, 1, k))
       /\ \A i \in 1 .. k : SubSeq(port, 1, k)[i] = "input" /\ SubSeq(client, 1, k)[i] = "input"
       /\ Len(SubSeq(port, 1, k)) = k
  BY <1>8, <1>10, SubSeqProperties
<1>12. SubSeq(port, 1, k) = SubSeq(client, 1, k)
  BY <1>8, <1>11, SeqEqual
<1>13. Len(port) = k /\ k <= Len(client)
  BY <1>6, <1>7, <1>8
<1> QED
  BY <1>5, <1>12, <1>13 DEF IsPrefix, port, client

LEMMA SessionPromises == SessionInv => BrokerStreamOrdered
<1> SUFFICES ASSUME SessionInv PROVE BrokerStreamOrdered
  OBVIOUS
<1>1. sent # <<>> => verdict /\ Head(sent) = "token"
  <2> SUFFICES ASSUME sent # <<>> PROVE verdict /\ Head(sent) = "token"
    OBVIOUS
  <2>1. Len(sent) \in Nat \ {0} /\ Head(sent) = sent[1]
    BY EmptySeq DEF SessionInv, StreamTypes
  <2>2. sent[1] = "token"
    BY <2>1 DEF SessionInv, LeadInv
  <2>3. verdict
    BY DEF SessionInv, SentInv
  <2> QED
    BY <2>1, <2>2, <2>3
<1>2. backend # <<>> => token = "right" /\ sent # <<>>
  BY DEF SessionInv, PortInv
<1>3. backend # <<>> => Head(backend) = "cookie" /\ IsPrefix(Tail(backend), Tail(sent))
  BY <1>2, InTheOrderSent DEF SessionInv
<1>4. kind = "quic" => (ended = "orderly" => taken = drawn)
  BY DEF SessionInv, EndedWhole
<1> QED
  BY <1>1, <1>2, <1>3, <1>4
  DEF BrokerStreamOrdered, ProxiedOnlyAfterProof, OrderlyMeansWholeQuic, OrderlyMeansWhole

\* What holds of the two streams and their ends in every state: the inductive invariant.
THEOREM SessionInvariant == BrokerSessionSpec => []SessionInv
<1>1. BrokerSessionInit => SessionInv
  BY BrokerSessionStarts
<1>2. SessionInv /\ [BrokerSessionNext]_brokerVars => SessionInv'
  BY BrokerSessionKeeps
<1> QED
  BY <1>1, <1>2, PTL DEF BrokerSessionSpec

\* However the two ends, the network and the user take turns, and however much is drawn
\* and sent: the token goes only to a trusted broker and first of all; the session port sees
\* its cookie first, nothing of a client without the right token, and what the others sent
\* in the order they sent it; and over QUIC an orderly end is reported only when every
\* drawing has been read.
THEOREM StreamIsOrdered == BrokerSessionSpec => []BrokerStreamOrdered
<1>1. SessionInv => BrokerStreamOrdered
  BY SessionPromises
<1> QED
  BY <1>1, SessionInvariant, PTL
=============================================================================
