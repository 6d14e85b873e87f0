---------------------------- MODULE TurnTransport ----------------------------
(***************************************************************************)
(* How a message reaches the worker through the gateway and how the events *)
(* of its turn come back: the client, the channel's admission, the maps of *)
(* reply topics and execution bindings, and the client's event queue.      *)
(*                                                                         *)
(* The lanes of a conversation are KeyedDispatcher, steering while a turn  *)
(* runs is SteeringInbox.                                                  *)
(***************************************************************************)
LOCAL INSTANCE Integers
LOCAL INSTANCE FiniteSets
LOCAL INSTANCE Sequences
LOCAL INSTANCE SequencesExt

CONSTANTS
    ChSend,            \* messages sent; a turn is named after its message
    ChWindow, ChWindowOf, ChThreadOf,
    ChSorts,           \* the possible sorts of the messages
    NoWindow, NoSend,
    ChInbox,           \* room in the channel's inbox
    ChBuffer,          \* room in the client's event queue
    ChParts            \* bound: token deltas and parts of a turn

VARIABLES
    chSort,            \* a steering send or a turn, and its execution binding
    chStage,           \* where every message is
    chInbox,
    chReplyTo,         \* per task id, "" included, the topic it came from
    chBound,           \* per task id, the binding of its turn
    chDelegate,        \* the binding a turn runs with
    chSaid,            \* what every turn has published
    chWire,            \* per window, the events under way to it
    chQueue, chShown,  \* per window, the events queued and shown
    chThreadTask,      \* per window and thread, the task submitted last
    chHistory          \* per window, its local copy of the conversation

chVars == <<chSort, chStage, chInbox, chReplyTo, chBound, chDelegate, chSaid, chWire,
            chQueue, chShown, chThreadTask, chHistory>>

chHarness == <<chInbox, chReplyTo, chBound, chDelegate>>
chClient == <<chQueue, chShown, chThreadTask, chHistory>>

\* A message is "absent", a "steer" with or without a binding, or a turn
\* without a binding, with one to its own client, to another, or to a client
\* it has no access to.
Steers(s) == chSort[s] \in {"steer", "steer bound"}
ChTask(s) == IF Steers(s) THEN NoSend ELSE s
ChThreads == {ChThreadOf[s] : s \in ChSend}

ChInit ==
    /\ chSort \in ChSorts
    /\ chStage = [s \in ChSend |-> "idle"]
    /\ chInbox = <<>>
    /\ chReplyTo = [t \in ChSend \cup {NoSend} |-> NoWindow]
    /\ chBound = [s \in ChSend |-> "none"]
    /\ chDelegate = [s \in ChSend |-> "none"]
    /\ chSaid = [s \in ChSend |-> <<>>]
    /\ chWire = [w \in ChWindow |-> <<>>]
    /\ chQueue = [w \in ChWindow |-> <<>>]
    /\ chShown = [w \in ChWindow |-> <<>>]
    /\ chThreadTask = [w \in ChWindow |-> [t \in ChThreads |-> NoSend]]
    /\ chHistory = [w \in ChWindow |-> <<>>]

ChSent(s) == chStage[s] # "idle"
ChStageOf(s, stage) == chStage' = [chStage EXCEPT ![s] = stage]

-----------------------------------------------------------------------------
\* The client.

\* The task of a turn becomes the one of its thread, then the turn is sent.
ChEnqueue(s) ==
    LET w == ChWindowOf[s] IN
    /\ chStage[s] = "idle" /\ chSort[s] # "absent"
    /\ ChStageOf(s, "sent")
    /\ chThreadTask' = IF Steers(s) THEN chThreadTask
                       ELSE [chThreadTask EXCEPT ![w][ChThreadOf[s]] = s]
    /\ UNCHANGED <<chSort, chHarness, chSaid, chWire, chQueue, chShown, chHistory>>

\* Only then is it recorded: an answer may have been recorded before.
recordProjection(w, m) ==
    chHistory' = IF m \in ToSet(chHistory[w]) THEN chHistory
                 ELSE [chHistory EXCEPT ![w] = Append(@, m)]

ChRecord(s) ==
    /\ ChSent(s) /\ <<s, "said">> \notin ToSet(chHistory[ChWindowOf[s]])
    /\ recordProjection(ChWindowOf[s], <<s, "said">>)
    /\ UNCHANGED <<chSort, chStage, chHarness, chSaid, chWire, chQueue, chShown, chThreadTask>>

ChEvent(s, type) == [of |-> s, type |-> type]
HasRoom(w) == Len(chQueue[w]) < ChBuffer

\* An event without an address of its own is taken for one of the task that
\* was submitted last for its thread.
addrFor(w, e) ==
    [of |-> e.of, type |-> e.type,
     task |-> IF e.type \in {"started", "final"} THEN ChTask(e.of)
              ELSE chThreadTask[w][ChThreadOf[e.of]]]

forgetTurn(w, s) ==
    chThreadTask' = IF chThreadTask[w][ChThreadOf[s]] = ChTask(s)
                    THEN [chThreadTask EXCEPT ![w][ChThreadOf[s]] = NoSend] ELSE chThreadTask

\* A plausible mistake: a full queue sheds any event.
MayDropAny(w, e) == ~HasRoom(w)

\* Only a token delta is shed when the queue is full; any other event waits.
MayDrop(w, e) == ~HasRoom(w) /\ e.type = "delta"

ChReceive(w) ==
    LET e == Head(chWire[w]) IN
    /\ chWire[w] # <<>>
    /\ HasRoom(w) \/ MayDrop(w, e)
    /\ chQueue' = IF HasRoom(w) THEN [chQueue EXCEPT ![w] = Append(@, addrFor(w, e))] ELSE chQueue
    /\ IF e.type = "final"
       THEN recordProjection(w, <<e.of, "answer">>) /\ forgetTurn(w, e.of)
       ELSE UNCHANGED <<chHistory, chThreadTask>>
    /\ chWire' = [chWire EXCEPT ![w] = Tail(@)]
    /\ UNCHANGED <<chSort, chStage, chHarness, chSaid, chShown>>

ChShow(w) ==
    /\ chQueue[w] # <<>>
    /\ chShown' = [chShown EXCEPT ![w] = Append(@, Head(chQueue[w]))]
    /\ chQueue' = [chQueue EXCEPT ![w] = Tail(@)]
    /\ UNCHANGED <<chSort, chStage, chHarness, chSaid, chWire, chThreadTask, chHistory>>

-----------------------------------------------------------------------------
\* The channel.
Blocked == \E s \in ChSend : chStage[s] = "handing"

replyTopic(s) ==
    IF chReplyTo[ChTask(s)] # NoWindow THEN chReplyTo[ChTask(s)] ELSE ChWindowOf[s]

sendEvent(s, type) ==
    /\ chWire' = [chWire EXCEPT ![replyTopic(s)] = Append(@, ChEvent(s, type))]
    /\ chSaid' = [chSaid EXCEPT ![s] = Append(@, type)]

\* A binding needs a task of its own, and access.
BindingRefused(s) == chSort[s] \in {"denied", "steer bound"}
BindingAuthorized(s) == chSort[s] \in {"own", "shared"}
BindingOf(s) == IF BindingAuthorized(s) THEN chSort[s] ELSE "none"

rejectTurn(s) ==
    /\ ChStageOf(s, "rejecting")
    /\ chReplyTo' = [chReplyTo EXCEPT ![ChTask(s)] = ChWindowOf[s]]
    /\ UNCHANGED chBound

\* A message without a task must not touch the maps.
enqueueTurn(s, stage) ==
    /\ ChStageOf(s, stage)
    /\ IF Steers(s) THEN UNCHANGED <<chReplyTo, chBound>>
       ELSE /\ chReplyTo' = [chReplyTo EXCEPT ![s] = ChWindowOf[s]]
            /\ chBound' = [chBound EXCEPT ![s] = BindingOf(s)]

\* The receive loop; it waits for room in the inbox.
ChOnMessage(s) ==
    /\ chStage[s] = "sent" /\ ~Blocked
    /\ \/ BindingRefused(s) /\ rejectTurn(s)
       \/ /\ ~BindingRefused(s) /\ ~BindingAuthorized(s)
          /\ enqueueTurn(s, "handing")
       \/ /\ BindingAuthorized(s)
          /\ ChStageOf(s, "authorizing") /\ UNCHANGED <<chReplyTo, chBound>>
    /\ UNCHANGED <<chSort, chInbox, chDelegate, chSaid, chWire, chClient>>

\* A bound turn is authorized aside of the receive loop.
authorizeAndEnqueueTurn(s) ==
    /\ chStage[s] = "authorizing"
    /\ rejectTurn(s) \/ enqueueTurn(s, "handing aside")
    /\ UNCHANGED <<chSort, chInbox, chDelegate, chSaid, chWire, chClient>>

ChHand(s) ==
    /\ chStage[s] \in {"handing", "handing aside"}
    /\ Len(chInbox) < ChInbox
    /\ chInbox' = Append(chInbox, s)
    /\ ChStageOf(s, "inbox")
    /\ UNCHANGED <<chSort, chReplyTo, chBound, chDelegate, chSaid, chWire, chClient>>

\* The time for the authorization is over while the inbox is full.
ChHandFails(s) ==
    /\ chStage[s] = "handing aside" /\ Len(chInbox) = ChInbox
    /\ ChStageOf(s, "lost")
    /\ UNCHANGED <<chSort, chHarness, chSaid, chWire, chClient>>

\* The end of a turn: the event is sent, then its task is forgotten.
ChPublishFinal(s) ==
    /\ sendEvent(s, "final")
    /\ chReplyTo' = [chReplyTo EXCEPT ![ChTask(s)] = NoWindow]
    /\ chBound' = IF Steers(s) THEN chBound ELSE [chBound EXCEPT ![s] = "none"]
    /\ ChStageOf(s, "ended")

ChRejected(s) ==
    /\ chStage[s] = "rejecting"
    /\ ChPublishFinal(s)
    /\ UNCHANGED <<chSort, chInbox, chDelegate, chClient>>

\* The refusal is addressed to the topic the message came from.
RejectSteering(s) == ChPublishFinal(s)

RunningIn(thread) == {s \in ChSend : chStage[s] = "running" /\ ChThreadOf[s] = thread}

\* A steering send joins the turn that runs, or is refused.
ChFetchSteering ==
    LET s == Head(chInbox) IN
    /\ chInbox # <<>> /\ Steers(s)
    /\ chInbox' = Tail(chInbox)
    /\ IF RunningIn(ChThreadOf[s]) # {}
       THEN ChStageOf(s, "joined") /\ UNCHANGED <<chReplyTo, chBound, chSaid, chWire>>
       ELSE RejectSteering(s)
    /\ UNCHANGED <<chSort, chDelegate, chClient>>

ChFetchTurn ==
    LET s == Head(chInbox) IN
    /\ chInbox # <<>> /\ ~Steers(s)
    /\ chInbox' = Tail(chInbox)
    /\ ChStageOf(s, "lane")
    /\ UNCHANGED <<chSort, chReplyTo, chBound, chDelegate, chSaid, chWire, chClient>>

\* A turn starts under the binding of its task, one at a time in a thread.
ChStart(s) ==
    /\ chStage[s] = "lane" /\ RunningIn(ChThreadOf[s]) = {}
    /\ ChStageOf(s, "running")
    /\ chDelegate' = [chDelegate EXCEPT ![s] = chBound[s]]
    /\ sendEvent(s, "started")
    /\ UNCHANGED <<chSort, chInbox, chReplyTo, chBound, chClient>>

ChPublish(s, type) ==
    /\ chStage[s] = "running" /\ Len(chSaid[s]) <= ChParts
    /\ sendEvent(s, type)
    /\ UNCHANGED <<chSort, chStage, chHarness, chClient>>

ChFinish(s) ==
    /\ chStage[s] = "running"
    /\ ChPublishFinal(s)
    /\ UNCHANGED <<chSort, chInbox, chDelegate, chClient>>

ChNext ==
    \/ \E s \in ChSend :
          \/ ChEnqueue(s) \/ ChRecord(s) \/ ChOnMessage(s) \/ authorizeAndEnqueueTurn(s)
          \/ ChHand(s) \/ ChHandFails(s) \/ ChRejected(s) \/ ChStart(s) \/ ChFinish(s)
          \/ \E type \in {"delta", "part"} : ChPublish(s, type)
    \/ ChFetchSteering \/ ChFetchTurn
    \/ \E w \in ChWindow : ChReceive(w) \/ ChShow(w)
-----------------------------------------------------------------------------
ChStages == {"idle", "sent", "authorizing", "handing", "handing aside", "lost", "inbox", "lane",
             "running", "joined", "rejecting", "ended"}
ChTypeOK ==
    /\ \A s \in ChSend : chStage[s] \in ChStages
    /\ Len(chInbox) <= ChInbox
    /\ \A w \in ChWindow : Len(chQueue[w]) <= ChBuffer

Structural(events) == SelectSeq(events, LAMBDA e : e.type # "delta")
ChAt(w) == chShown[w] \o chQueue[w] \o chWire[w]

\* The window that sent a message gets every structural event of its turn or
\* of its rejection, once and in the order they were published, and no other
\* window gets any.
EventsReachTheirSender ==
    \A s \in ChSend, w \in ChWindow :
        LET got == Structural(SelectSeq(ChAt(w), LAMBDA e : e.of = s))
        IN  [i \in DOMAIN got |-> got[i].type] =
               IF w = ChWindowOf[s] THEN SelectSeq(chSaid[s], LAMBDA t : t # "delta") ELSE <<>>

\* What the user has been shown is also in the local copy.
AnswersAreKept ==
    \A w \in ChWindow : \A i \in DOMAIN chShown[w] :
        chShown[w][i].type = "final" => <<chShown[w][i].of, "answer">> \in ToSet(chHistory[w])

\* An event is never attributed to a turn whose end came before it, nor to a
\* turn of another window.
AttributedToOpenTurn ==
    \A w \in ChWindow :
        LET seen == chShown[w] \o chQueue[w] IN
        \A i \in DOMAIN seen : seen[i].task # NoSend =>
            /\ ChWindowOf[seen[i].task] = w
            /\ \A j \in 1..i - 1 : ~(seen[j].type = "final" /\ seen[j].of = seen[i].task)

\* A turn runs with the binding its message carried, and the maps hold
\* nothing of a turn that has ended.
BindingsFollowTurns ==
    \A s \in ChSend :
        /\ chStage[s] = "running" => chDelegate[s] = BindingOf(s)
        /\ chStage[s] \in {"ended", "joined"} =>
              chBound[s] = "none" /\ chReplyTo[s] = NoWindow

ChTransportSound ==
    EventsReachTheirSender /\ AnswersAreKept /\ AttributedToOpenTurn /\ BindingsFollowTurns
=============================================================================
