---------------------------- MODULE X11Clipboard ----------------------------
(* class X11Clipboard (x11_main.cpp): the CLIPBOARD selection on a connection and a    *)
(* thread of its own, the UI thread that sets and gets it, and the other clients of    *)
(* the X server, which own the selection, serve it, ask for it and go away.  A text    *)
(* too long for one request crosses in chunks, in either direction.  Events reach the  *)
(* thread in the order the server sent them, which may be long after it did.           *)
EXTENDS Naturals, Sequences, FiniteSets

CONSTANTS
    Peers,     \* the other clients
    Texts,     \* texts the UI thread sets
    PeerText,  \* the text each of the others offers
    Long,      \* the texts that take Chunks requests
    Chunks,
    Late,      \* whether an owner's answer may come after it was given up
    MaxCalls,  \* bound: set() and get()
    MaxTakes,  \* bound: selections taken by the others
    MaxPastes, \* bound: their requests
    MaxDeaths  \* bound: how many of them go away

VARIABLES
    selection, \* the server's: who owns CLIPBOARD
    property,  \* the property on our window
    queue,     \* the thread's X events
    peers,     \* the other clients
    thread,    \* the thread's own state
    outgoing,  \* outgoing_: what is left for each requestor
    call,      \* what the UI thread is in, and the two requests it shares with the thread
    since,     \* history: texts the selection was since get() was called
    pasted,    \* history: what get() returned, and what it could have
    served,    \* history: what the others have assembled
    calls      \* what is left of the bounds

clipboardVars ==
    <<selection, property, queue, peers, thread, outgoing, call, since, pasted, served, calls>>

ASSUME ClipboardAssumption ==
    /\ Long \subseteq Texts \cup {PeerText[p] : p \in Peers} /\ Chunks \in Nat \ {0}
    /\ IsFiniteSet(Peers) /\ Late \in BOOLEAN
    /\ {"us", "none"} \cap Peers = {} /\ "nothing" \notin Texts

Nothing == "nothing"
Property(type, text, part) == [type |-> type, text |-> text, part |-> part]
NoProperty == Property("none", Nothing, 0)
Event(type, of) == [type |-> type, of |-> of]

Part(text, i) == [text |-> text, part |-> i]
WholeText(text) == IF text \in Long THEN [i \in 1..Chunks |-> Part(text, i)] ELSE <<Part(text, 1)>>
AllTexts == Texts \cup {PeerText[p] : p \in Peers}

\* The chunk of a text after "done" of them; the last one has no bytes.
NextChunk(text, done) ==
    IF done < Chunks THEN Property("chunk", text, done + 1) ELSE Property("end", text, 0)

NoTransfer == [text |-> Nothing, done |-> 0]

ClipboardInit ==
    /\ selection = "none" /\ property = NoProperty /\ queue = <<>>
    /\ peers = [p \in Peers |-> [alive |-> TRUE, asked |-> FALSE, sending |-> NoTransfer,
                                 due |-> FALSE, paste |-> "no", got |-> <<>>,
                                 property |-> NoProperty]]
    /\ thread = [own |-> FALSE, text |-> Nothing, pc |-> "idle", owner |-> "none",
                 retried |-> FALSE, got |-> <<>>, listens |-> TRUE,
                 watch |-> [p \in Peers |-> {}]]
    /\ outgoing = [p \in Peers \cup {"us"} |-> NoTransfer]
    /\ call = [in |-> "none", offer |-> Nothing, wants |-> FALSE, answer |-> <<>>, done |-> FALSE]
    /\ since = {} /\ pasted = {} /\ served = {}
    /\ calls = [calls |-> MaxCalls, takes |-> MaxTakes, pastes |-> MaxPastes,
                deaths |-> MaxDeaths]

\* The text the selection offers, and ours until the thread has read that it was lost.
Offered == (IF selection = "us" \/ thread.own THEN {thread.text} ELSE {})
           \cup {PeerText[p] : p \in {selection} \cap Peers}

----------------------------------------------------------------------------
\* The UI thread.

SetText ==
    /\ call.in = "none" /\ calls.calls > 0
    /\ \E text \in Texts :
         call' = [call EXCEPT !.in = "set", !.offer = text, !.done = FALSE]
    /\ calls' = [calls EXCEPT !.calls = @ - 1]
    /\ UNCHANGED <<selection, property, queue, peers, thread, outgoing, since, pasted, served>>

GetText ==
    /\ call.in = "none" /\ calls.calls > 0
    /\ call' = [call EXCEPT !.in = "get", !.wants = TRUE, !.done = FALSE]
    /\ since' = Offered
    /\ calls' = [calls EXCEPT !.calls = @ - 1]
    /\ UNCHANGED <<selection, property, queue, peers, thread, outgoing, pasted, served>>

\* set() waits 1.5 s for the ownership, and returns all the same.
SetReturns ==
    /\ call.in = "set"
    /\ call' = [call EXCEPT !.in = "none"]
    /\ UNCHANGED <<selection, property, queue, peers, thread, outgoing, since, pasted, served,
                   calls>>

\* get() is answered, or gives up after a minute.
GetReturns ==
    /\ call.in = "get" /\ (call.done \/ thread.pc = "stuck")
    /\ call' = [call EXCEPT !.in = "none", !.answer = <<>>, !.done = FALSE]
    /\ pasted' = pasted \cup {[text |-> IF call.done THEN call.answer ELSE <<>>, of |-> since]}
    /\ since' = {}
    /\ UNCHANGED <<selection, property, queue, peers, thread, outgoing, served, calls>>

----------------------------------------------------------------------------
\* The thread.  run() takes an offer before it starts a get(), and both before events.
\* XSelectInput() replaces what is watched of a window: of another client's, that it is
\* gone and that it deletes its property; of our own, the property server_time() waits for.

Running == thread.pc # "stuck"
Busy == thread.pc \in {"converting", "receiving"}
Grows(text) == IF call.in = "get" THEN since \cup {text} ELSE since

take_ownership ==
    /\ Running /\ call.offer # Nothing
    /\ call' = [call EXCEPT !.offer = Nothing]
    /\ IF thread.listens
       THEN /\ thread' = [thread EXCEPT !.own = TRUE, !.text = call.offer]
            /\ selection' = "us"
            /\ since' = Grows(call.offer)
       ELSE thread' = [thread EXCEPT !.text = call.offer, !.pc = "stuck"]
            /\ UNCHANGED <<selection, since>>
    /\ UNCHANGED <<property, queue, peers, outgoing, pasted, served, calls>>

Answers(t, got) ==
    /\ thread' = [t EXCEPT !.pc = "idle", !.owner = "none", !.got = <<>>,
                           !.watch = [p \in Peers |-> IF p = t.owner THEN {} ELSE @[p]]]
    /\ call' = [call EXCEPT !.answer = got, !.done = call.in = "get" /\ ~call.wants]

\* An event of a conversion under way; our window's own request is one.
OfConversion(e) == e.type \in {"reply", "new"} \/ e = Event("request", "us")
Voided(events) ==
    [i \in DOMAIN events |-> IF OfConversion(events[i]) THEN Event("void", "us") ELSE events[i]]

\* Given up: what the owner still sends, another client or ourselves, comes late or never.
Abandons(t, events) ==
    /\ Answers(t, <<>>)
    /\ IF Late THEN queue' = events /\ UNCHANGED peers
       ELSE /\ queue' = Voided(events)
            /\ peers' = [p \in Peers |-> [peers[p] EXCEPT !.asked = FALSE, !.due = FALSE,
                                                          !.sending = NoTransfer]]

\* Our window's property deleted: an owner that sends chunks sees it.
Deletes(P) == [p \in Peers |-> [P[p] EXCEPT !.due = @ \/ P[p].sending # NoTransfer]]

begin_get ==
    /\ Running /\ call.offer = Nothing /\ call.wants /\ ~Busy
    /\ IF thread.own
       THEN /\ call' = [call EXCEPT !.wants = FALSE, !.done = TRUE,
                                    !.answer = WholeText(thread.text)]
            /\ UNCHANGED <<thread, peers, property>>
       ELSE IF selection = "none"
       THEN /\ call' = [call EXCEPT !.wants = FALSE, !.done = TRUE, !.answer = <<>>]
            /\ UNCHANGED <<thread, peers, property>>
       \* The owner is our own window when its SelectionClear was of an earlier ownership.
       ELSE IF selection = "us" \/ ~thread.listens
       THEN /\ thread' = [thread EXCEPT !.pc = "stuck", !.listens = FALSE]
            /\ call' = [call EXCEPT !.wants = FALSE]
            /\ UNCHANGED <<peers, property>>
       ELSE /\ thread' = [thread EXCEPT !.pc = "converting", !.owner = selection,
                                        !.retried = FALSE, !.watch[selection] = {"gone"}]
            /\ call' = [call EXCEPT !.wants = FALSE]
            /\ property' = NoProperty
            /\ peers' = LET P == IF property = NoProperty THEN peers ELSE Deletes(peers) IN
                        [P EXCEPT ![selection].asked = TRUE]
    /\ UNCHANGED <<selection, queue, outgoing, since, pasted, served, calls>>

\* convert_deadline_: 1.2 s for the reply, then 3 s for each chunk.
Deadline ==
    /\ Running /\ Busy /\ queue = <<>>
    /\ Abandons(thread, queue)
    /\ UNCHANGED <<selection, property, outgoing, since, pasted, served, calls>>

\* A transfer is done with: its window is watched no longer.
Unwatched(t, p) == IF p = "us" THEN [t EXCEPT !.listens = FALSE] ELSE [t EXCEPT !.watch[p] = {}]

\* serve_timeout: a requestor that stopped reading.
drop_outgoing ==
    /\ Running /\ queue = <<>>
    /\ \E p \in DOMAIN outgoing :
        /\ outgoing[p] # NoTransfer
        /\ outgoing' = [outgoing EXCEPT ![p] = NoTransfer]
        /\ thread' = Unwatched(thread, p)
    /\ UNCHANGED <<selection, property, queue, peers, call, since, pasted, served, calls>>

\* handle(): the events, one after another.
Delivers(type) == Running /\ queue # <<>> /\ queue[1].type = type /\ call.offer = Nothing
Dequeued == queue' = Tail(queue)

SelectionClear ==
    /\ Delivers("clear") /\ Dequeued
    /\ thread' = [thread EXCEPT !.own = FALSE]
    /\ UNCHANGED <<selection, property, peers, outgoing, call, since, pasted, served, calls>>

\* handle() has nothing to do for it.
Ignored ==
    /\ Delivers("void") /\ Dequeued
    /\ UNCHANGED <<selection, property, peers, thread, outgoing, call, since, pasted, served,
                   calls>>

\* Mutant: what came before the owner went away is pasted.
OwnerLostPastes == Answers(thread, thread.got) /\ Dequeued /\ UNCHANGED peers

OwnerLost == Abandons(thread, Tail(queue))

DestroyNotify ==
    /\ Delivers("destroy")
    /\ IF thread.owner = queue[1].of /\ Busy THEN OwnerLost
       ELSE Dequeued /\ UNCHANGED <<thread, call, peers>>
    /\ outgoing' = [outgoing EXCEPT ![queue[1].of] = NoTransfer]
    /\ UNCHANGED <<selection, property, since, pasted, served, calls>>

\* The reply is nothing, then STRING is asked of whoever owns the selection by now; or
\* the text; or the start of chunks.
Refused ==
    /\ IF thread.retried THEN Answers(thread, <<>>) /\ Dequeued /\ UNCHANGED peers
       ELSE /\ thread' = [thread EXCEPT !.retried = TRUE]
            /\ peers' = [p \in Peers |-> [peers[p] EXCEPT !.asked = @ \/ p = selection]]
            /\ queue' = IF selection \in Peers THEN Tail(queue)
                        ELSE Append(Tail(queue), IF selection = "us" THEN Event("request", "us")
                                                 ELSE Event("reply", "refused"))
            /\ UNCHANGED call
    /\ UNCHANGED property

Replied ==
    /\ IF property.type = "incr"
       THEN thread' = [thread EXCEPT !.pc = "receiving", !.got = <<>>] /\ UNCHANGED call
       ELSE Answers(thread, IF property = NoProperty THEN <<>>
                            ELSE <<Part(property.text, property.part)>>)
    /\ property' = NoProperty /\ Dequeued
    /\ peers' = IF property = NoProperty THEN peers ELSE Deletes(peers)

SelectionNotify ==
    /\ Delivers("reply")
    /\ IF thread.pc # "converting"
       THEN Dequeued /\ UNCHANGED <<thread, call, property, peers>>
       ELSE IF queue[1].of = "refused" THEN Refused ELSE Replied
    /\ UNCHANGED <<selection, outgoing, since, pasted, served, calls>>

\* Mutant: the last chunk is not waited for.
ChunkEndsEarly(got) == Len(got) >= 1

ChunkEnds(got) == property.type = "end"

PropertyNew ==
    /\ Delivers("new") /\ Dequeued
    /\ IF thread.pc # "receiving" \/ property = NoProperty
       THEN UNCHANGED <<thread, call, property, peers>>
       ELSE LET got == IF property.type = "end" THEN thread.got
                       ELSE Append(thread.got, Part(property.text, property.part)) IN
            /\ IF ChunkEnds(got) THEN Answers(thread, got)
               ELSE thread' = [thread EXCEPT !.got = got] /\ UNCHANGED call
            /\ property' = NoProperty
            /\ peers' = Deletes(peers)
    /\ UNCHANGED <<selection, outgoing, since, pasted, served, calls>>

\* The whole text, or the announcement of its chunks; of our own window, too.
serve ==
    /\ Delivers("request")
    /\ LET p == queue[1].of
           ours == thread.own
           long == ours /\ thread.text \in Long
           prop == Property(IF long THEN "incr" ELSE "whole", thread.text, 1) IN
       /\ outgoing' = IF long THEN [outgoing EXCEPT ![p] = [text |-> thread.text, done |-> 0]]
                      ELSE outgoing
       /\ IF p = "us"
          THEN /\ queue' = Tail(queue) \o (IF ours THEN <<Event("new", p), Event("reply", "text")>>
                                            ELSE <<Event("reply", "refused")>>)
               /\ property' = IF ours THEN prop ELSE property
               /\ UNCHANGED <<peers, thread>>
          ELSE /\ peers' = IF ~peers[p].alive THEN peers
                           ELSE [peers EXCEPT ![p].paste = IF ours THEN "notified" ELSE "no",
                                              ![p].property = IF ours THEN prop ELSE @]
               /\ thread' = IF long THEN [thread EXCEPT !.watch[p] = {"gone", "deleted"}]
                            ELSE thread
               /\ Dequeued /\ UNCHANGED property
    /\ UNCHANGED <<selection, call, since, pasted, served, calls>>

\* Mutant: the chunks are those of the text of now.
ChunkOfNow(p) == NextChunk(thread.text, outgoing[p].done)

ChunkOf(p) == NextChunk(outgoing[p].text, outgoing[p].done)

\* The requestor deleted its property: the next chunk, and after the last the end.
serve_next_chunk ==
    /\ Delivers("deleted") /\ Dequeued
    /\ LET p == queue[1].of
           over == outgoing[p].done = Chunks IN
       IF outgoing[p] = NoTransfer THEN UNCHANGED <<outgoing, peers, thread>>
       ELSE /\ outgoing' = [outgoing EXCEPT ![p] = IF over THEN NoTransfer
                                                   ELSE [outgoing[p] EXCEPT !.done = @ + 1]]
            /\ thread' = IF over THEN Unwatched(thread, p) ELSE thread
            /\ peers' = IF peers[p].alive THEN [peers EXCEPT ![p].property = ChunkOf(p)]
                        ELSE peers
    /\ UNCHANGED <<selection, property, call, since, pasted, served, calls>>

ThreadStep ==
    \/ take_ownership \/ begin_get \/ Deadline \/ drop_outgoing
    \/ SelectionClear \/ Ignored \/ DestroyNotify \/ SelectionNotify \/ PropertyNew
    \/ serve \/ serve_next_chunk

----------------------------------------------------------------------------
\* The other clients.

PeerTakes(p) ==
    /\ peers[p].alive /\ selection # p /\ calls.takes > 0
    /\ selection' = p
    /\ queue' = IF selection = "us" THEN Append(queue, Event("clear", p)) ELSE queue
    /\ since' = Grows(PeerText[p])
    /\ calls' = [calls EXCEPT !.takes = @ - 1]
    /\ UNCHANGED <<property, peers, thread, outgoing, call, pasted, served>>

\* It answers a conversion, of UTF8_STRING or of nothing it has.
PeerAnswers(p) ==
    /\ peers[p].alive /\ peers[p].asked
    /\ \/ /\ peers' = [peers EXCEPT ![p].asked = FALSE,
                                    ![p].sending = IF PeerText[p] \in Long
                                                   THEN [text |-> PeerText[p], done |-> 0]
                                                   ELSE NoTransfer]
          /\ property' = Property(IF PeerText[p] \in Long THEN "incr" ELSE "whole",
                                  PeerText[p], 1)
          /\ queue' = queue \o <<Event("new", p), Event("reply", "text")>>
       \/ /\ peers' = [peers EXCEPT ![p].asked = FALSE]
          /\ queue' = Append(queue, Event("reply", "refused"))
          /\ UNCHANGED property
    /\ UNCHANGED <<selection, thread, outgoing, call, since, pasted, served, calls>>

PeerSends(p) ==
    /\ peers[p].alive /\ peers[p].due
    /\ LET s == peers[p].sending IN
       /\ property' = NextChunk(s.text, s.done)
       /\ peers' = [peers EXCEPT ![p].due = FALSE,
                                 ![p].sending = IF s.done = Chunks THEN NoTransfer
                                                ELSE [s EXCEPT !.done = @ + 1]]
    /\ queue' = Append(queue, Event("new", p))
    /\ UNCHANGED <<selection, thread, outgoing, call, since, pasted, served, calls>>

\* It asks for the selection, and may ask again before it has it all.
PeerPastes(p) ==
    /\ peers[p].alive /\ selection = "us" /\ calls.pastes > 0
    /\ peers[p].paste # "waiting"
    /\ peers' = [peers EXCEPT ![p].paste = "waiting", ![p].got = <<>>,
                              ![p].property = NoProperty]
    /\ queue' = Append(queue, Event("request", p))
    /\ calls' = [calls EXCEPT !.pastes = @ - 1]
    /\ UNCHANGED <<selection, property, thread, outgoing, call, since, pasted, served>>

PeerReads(p) ==
    /\ peers[p].alive /\ peers[p].paste \in {"notified", "receiving"}
    /\ peers[p].property # NoProperty
    /\ LET prop == peers[p].property
           got == IF prop.type \in {"whole", "chunk"}
                  THEN Append(peers[p].got, Part(prop.text, prop.part)) ELSE peers[p].got
           over == prop.type \in {"whole", "end"} IN
       /\ peers' = [peers EXCEPT ![p].property = NoProperty,
                                 ![p].got = IF over THEN <<>> ELSE got,
                                 ![p].paste = IF over THEN "no" ELSE "receiving"]
       /\ served' = IF over THEN served \cup {got} ELSE served
       /\ queue' = IF "deleted" \in thread.watch[p] THEN Append(queue, Event("deleted", p))
                   ELSE queue
    /\ UNCHANGED <<selection, property, thread, outgoing, call, since, pasted, calls>>

PeerDies(p) ==
    /\ peers[p].alive /\ calls.deaths > 0
    /\ calls' = [calls EXCEPT !.deaths = @ - 1]
    /\ peers' = [peers EXCEPT ![p] = [alive |-> FALSE, asked |-> FALSE, sending |-> NoTransfer,
                                      due |-> FALSE, paste |-> "no", got |-> <<>>,
                                      property |-> NoProperty]]
    /\ selection' = IF selection = p THEN "none" ELSE selection
    /\ queue' = IF "gone" \in thread.watch[p]
                THEN Append(queue, Event("destroy", p)) ELSE queue
    /\ UNCHANGED <<property, thread, outgoing, call, since, pasted, served>>

PeerStep ==
    \E p \in Peers :
        PeerTakes(p) \/ PeerAnswers(p) \/ PeerSends(p) \/ PeerPastes(p) \/ PeerReads(p) \/ PeerDies(p)

ClipboardNext == SetText \/ GetText \/ SetReturns \/ GetReturns \/ ThreadStep \/ PeerStep

ClipboardSpec == ClipboardInit /\ [][ClipboardNext]_clipboardVars

----------------------------------------------------------------------------
\* What is pasted here is nothing, or one whole text that the clipboard held at some time
\* since the paste was asked for: never part of one whose owner went away, never one of
\* an earlier owner.
PasteIsNow ==
    \A paste \in pasted : paste.text = <<>> \/ \E text \in paste.of : paste.text = WholeText(text)

\* What another client reads from us is one whole text, whatever is copied here and
\* whoever else takes the selection while its chunks are crossing.
ServedWhole == \A text \in served : \E t \in Texts : text = WholeText(t)

\* "The clipboard thread bounds every wait it makes": and the one in server_time() it
\* does not.
EveryWaitBounded == Running

\* What is pasted here, and what is pasted elsewhere from here, is one owner's text, whole.
ClipboardTrue == PasteIsNow /\ ServedWhole
=============================================================================
