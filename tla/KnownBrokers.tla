---------------------------- MODULE KnownBrokers ----------------------------
(* Trust on first use (known_brokers.cpp, verify_broker_certificate() and            *)
(* connect_with_broker_trust()): several clients of one user share the file          *)
(* known_brokers, each loads it, decides and saves all of it, and a broker may be    *)
(* given a new certificate at any time.                                              *)
(* The file is its entries: at most one certificate per broker here (the lines that  *)
(* are no entries are kept as they are by every operation and are left out).         *)
EXTENDS Naturals, FiniteSets

CONSTANTS Clients, Brokers, Certs,
          MaxNewCerts      \* bound: how often a broker's certificate changes

NoCert == "no entry"

VARIABLES
    certificate,     \* what each broker presents
    file,            \* known_brokers
    target, seed,    \* per client: the broker it dials, --known-broker-fingerprint
    policy,          \* [accept_new, prompt]
    stage, attempt,     \* where it is, in which of the two connect()s
    copy,            \* the store as it loaded it
    check,           \* BrokerCheck: the certificate presented and the entry found
    action,          \* TrustAction
    vouched,         \* history: per broker, the certificates somebody accepted for it
    renewals

brokersFixed == <<target, seed, policy>>
brokersVars  == <<certificate, file, brokersFixed, stage, attempt, copy, check, action,
                  vouched, renewals>>

Entry   == Certs \cup {NoCert}
NoCheck == [state |-> "none", presented |-> NoCert, stored |-> NoCert]

BrokersInit ==
    /\ certificate \in [Brokers -> Certs]
    /\ file \in [Brokers -> Entry]
    /\ target \in [Clients -> Brokers] /\ seed \in [Clients -> Entry]
    /\ policy \in [Clients -> [accept_new : BOOLEAN, prompt : BOOLEAN]]
    /\ stage = [c \in Clients |-> "idle"] /\ attempt = [c \in Clients |-> 0]
    /\ copy = [c \in Clients |-> file]
    /\ check = [c \in Clients |-> NoCheck]
    /\ action = [c \in Clients |-> "none"]
    /\ vouched = [b \in Brokers |-> {file[b]} \ {NoCert}]
    /\ renewals = 0

StageOf(c, where) == stage' = [stage EXCEPT ![c] = where]

has_entry(store, b) == store[b] # NoCert

\* lookup(): only an entry for this very host and port can make a certificate "changed".
lookup(store, b, presented) ==
    IF ~has_entry(store, b) THEN "unknown" ELSE IF store[b] = presented THEN "known" ELSE "changed"

Put(store, b, cert) == [store EXCEPT ![b] = cert]

----------------------------------------------------------------------------
(* verify_broker_certificate(): after each handshake. *)

\* connect() reaches the handshake, or never gets that far.
Handshakes(c) ==
    /\ stage[c] = "idle"
    /\ attempt' = [attempt EXCEPT ![c] = @ + 1]
    /\ check' = [check EXCEPT ![c] = [NoCheck EXCEPT !.presented = certificate[target[c]]]]
    /\ \E where \in {IF seed[c] = NoCert THEN "verifying" ELSE "seeding", "failed"} : StageOf(c, where)
    /\ UNCHANGED <<certificate, file, brokersFixed, copy, action, vouched, renewals>>

\* seed_known_broker(): load; an entry that exists is never overridden.
SeedLoads(c) ==
    /\ stage[c] = "seeding"
    /\ copy' = [copy EXCEPT ![c] = file]
    /\ \/ StageOf(c, IF has_entry(file, target[c]) THEN "verifying" ELSE "seed saving")
       \/ StageOf(c, "failed")
    /\ UNCHANGED <<certificate, file, brokersFixed, attempt, check, action, vouched, renewals>>

\* ... add and save: the whole file is replaced by what was loaded and the new line.
SeedSaves(c) ==
    /\ stage[c] = "seed saving"
    /\ \/ /\ file' = Put(copy[c], target[c], seed[c]) /\ StageOf(c, "verifying")
          /\ vouched' = [vouched EXCEPT ![target[c]] = @ \cup {seed[c]}]
       \/ StageOf(c, "failed") /\ UNCHANGED <<file, vouched>>
    /\ UNCHANGED <<certificate, brokersFixed, attempt, copy, check, action, renewals>>

\* Mutant: what was recorded once is taken for verified in the second connect().
VerifiesOnce(c) ==
    /\ stage[c] = "verifying"
    /\ LET state == lookup(file, target[c], check[c].presented) IN
         /\ check' = [check EXCEPT ![c] = [@ EXCEPT !.state = state, !.stored = file[target[c]]]]
         /\ StageOf(c, IF state = "known" \/ attempt[c] = 2 THEN "connected" ELSE "deciding")
    /\ UNCHANGED <<certificate, file, brokersFixed, attempt, copy, action, vouched, renewals>>

Verifies(c) ==
    /\ stage[c] = "verifying"
    /\ LET state == lookup(file, target[c], check[c].presented) IN
         \/ /\ check' = [check EXCEPT ![c] = [@ EXCEPT !.state = state, !.stored = file[target[c]]]]
            /\ StageOf(c, IF state = "known" THEN "connected"
                       ELSE IF attempt[c] = 1 THEN "deciding" ELSE "failed")
         \/ StageOf(c, "failed") /\ UNCHANGED check         \* the file cannot be read
    /\ UNCHANGED <<certificate, file, brokersFixed, attempt, copy, action, vouched, renewals>>

----------------------------------------------------------------------------
(* resolve_broker_trust() and terminal_trust_prompt(). *)

\* The end of the input, or anything but the word asked for, refuses; "replace" answers
\* only the question of a changed certificate and "yes" only that of an unknown one.
Answers(state) ==
    IF state = "unknown" THEN {"trust", "reject"} ELSE {"replace", "reject"}

\* Mutant: --trust-new-broker answers for a changed certificate too.
ResolutionsEager(p, state) ==
    IF p.accept_new THEN {IF state = "unknown" THEN "store_new" ELSE "replace_stored"}
    ELSE {"refuse"}

Resolutions(p, state) ==
    IF p.accept_new /\ state = "unknown" THEN {"store_new"}
    ELSE IF ~p.prompt THEN {"refuse"}
    ELSE {CASE answer = "trust" -> "store_new"
            [] answer = "replace" -> "replace_stored"
            [] OTHER -> "refuse" : answer \in Answers(state)}

resolve_broker_trust(c) ==
    /\ stage[c] = "deciding"
    /\ \E a \in Resolutions(policy[c], check[c].state) :
         /\ action' = [action EXCEPT ![c] = a]
         /\ StageOf(c, IF a = "refuse" THEN "failed" ELSE "recording")
    /\ UNCHANGED <<certificate, file, brokersFixed, attempt, copy, check, vouched, renewals>>

\* Mutant: what appeared while the user was deciding is written over.
RecordsOver(c) ==
    /\ stage[c] = "recording" /\ copy' = [copy EXCEPT ![c] = file] /\ StageOf(c, "saving")
    /\ UNCHANGED <<certificate, file, brokersFixed, attempt, check, action, vouched, renewals>>

\* record_broker_trust(): loaded anew; a new entry never overwrites one that appeared
\* meanwhile.
RecordLoads(c) ==
    /\ stage[c] = "recording"
    /\ copy' = [copy EXCEPT ![c] = file]
    /\ LET state == lookup(file, target[c], check[c].presented) IN
         \/ StageOf(c, IF action[c] = "replace_stored" \/ state = "unknown" THEN "saving"
                    ELSE IF state = "known" THEN "idle" ELSE "failed")
         \/ StageOf(c, "failed")
    /\ UNCHANGED <<certificate, file, brokersFixed, attempt, check, action, vouched, renewals>>

\* save(), whole and atomic; then the second connect().
RecordSaves(c) ==
    /\ stage[c] = "saving"
    /\ \/ /\ file' = Put(copy[c], target[c], check[c].presented) /\ StageOf(c, "idle")
          /\ vouched' = [vouched EXCEPT ![target[c]] = @ \cup {check[c].presented}]
       \/ StageOf(c, "failed") /\ UNCHANGED <<file, vouched>>
    /\ UNCHANGED <<certificate, brokersFixed, attempt, copy, check, action, renewals>>

Renews ==
    /\ renewals < MaxNewCerts /\ renewals' = renewals + 1
    /\ \E b \in Brokers, k \in Certs : certificate' = [certificate EXCEPT ![b] = k]
    /\ UNCHANGED <<file, brokersFixed, stage, attempt, copy, check, action, vouched>>

BrokersDone ==
    /\ \A c \in Clients : stage[c] \in {"connected", "failed"}
    /\ UNCHANGED brokersVars

BrokersNext ==
    \/ \E c \in Clients :
         \/ Handshakes(c) \/ SeedLoads(c) \/ SeedSaves(c) \/ Verifies(c)
         \/ resolve_broker_trust(c) \/ RecordLoads(c) \/ RecordSaves(c)
    \/ Renews \/ BrokersDone

BrokersSpec == BrokersInit /\ [][BrokersNext]_brokersVars

----------------------------------------------------------------------------
(* Properties. *)

\* A client is connected to a certificate somebody accepted for that very broker, by a
\* seed, a first use or an explicit replacement, whatever the broker presented in between.
OnlyVouchedFor ==
    \A c \in Clients :
        stage[c] = "connected" => check[c].presented \in vouched[target[c]]

\* "Someone recorded an entry since we looked.  Do not overwrite it": an entry changes
\* only when one is replaced on purpose.
EntryKept ==
    [][\A b \in Brokers : has_entry(file, b) =>
          \/ file'[b] = file[b]
          \/ \E c \in Clients : /\ stage[c] = "saving" /\ target[c] = b
                                /\ action[c] = "replace_stored"]_brokersVars

\* The same while the others wait (no client writes between the load and the save of
\* another): and then it was the user who said "replace", never --trust-new-broker.
EntryKeptAlone ==
    [][\A b \in Brokers, c \in Clients :
          (has_entry(file, b) /\ copy[c] = file /\ stage[c] \in {"seed saving", "saving"}
             /\ stage'[c] # stage[c])
          => \/ file'[b] = file[b]
             \/ /\ target[c] = b /\ action[c] = "replace_stored" /\ policy[c].prompt
                /\ check[c].state = "changed"]_brokersVars

\* Trust on first use over the shared file: connections only to what was vouched for, and
\* entries that stay.
TrustIsKept == []OnlyVouchedFor /\ EntryKeptAlone
============================================================================
