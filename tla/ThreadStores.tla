------------------------------ MODULE ThreadStores ------------------------------
(***************************************************************************)
(* A thread in its stores: the transcript, which turns load and extend     *)
(* message by message, and the entry of the thread list with its title.    *)
(* Both are files of one process, replaced as a whole, or kept by a        *)
(* MemoryLayer service that several processes share: it appends, so each   *)
(* process remembers which messages are stored and sends only the others,  *)
(* and it answers lists too slowly to draw from, so each process keeps a   *)
(* copy.  In a process the operations on one thread exclude each other;    *)
(* what a request does is one step, for nobody sees it half done.          *)
(***************************************************************************)
LOCAL INSTANCE Integers
LOCAL INSTANCE Sequences
LOCAL INSTANCE FiniteSets
LOCAL INSTANCE SequencesExt

CONSTANTS
    StPlans,           \* the stores, who uses them and by which names, and the bounds:
                       \* [layer, procs, names, precommit, ui, bound]
    StProc, StTask,    \* processes; user messages, each for one turn
    StLogical, StBackend,
    StWindow,          \* messages a load asks for
    NoThread, NotSeen

VARIABLES
    stPlan,
    stStore,           \* [msgs: workspace -> messages, title, ws]
    stMem,             \* process -> [seen, title, ensured]
    stTurn,            \* process -> [pc, task, key, history]
    stJob,             \* process -> what holds the lane of the thread, or a refresh
    stAsked,           \* tasks committed by the host, tasks begun
    stCount,           \* [messages, ui, faults]
    stPast             \* [kept, given, crossed, raced] (history)

stVars == <<stPlan, stStore, stMem, stTurn, stJob, stAsked, stCount, stPast>>

Keys == {StLogical, StBackend}
StIdle == [pc |-> "idle", task |-> 0, key |-> StBackend, history |-> <<>>]
NoJob == [of |-> "none", key |-> StBackend, left |-> <<>>, title |-> NoThread]

StInit ==
    /\ stPlan \in StPlans
    /\ stStore = [msgs |-> [k \in Keys |-> <<>>], title |-> NoThread, ws |-> ~stPlan.layer]
    /\ stMem = [p \in StProc |-> [seen |-> NotSeen, title |-> NoThread,
                                  ensured |-> IF stPlan.layer THEN "no" ELSE "yes"]]
    /\ stTurn = [p \in StProc |-> StIdle] /\ stJob = [p \in StProc |-> NoJob]
    /\ stAsked = [committed |-> {}, begun |-> {}]
    /\ stCount = [messages |-> 0, ui |-> 0, faults |-> 0]
    /\ stPast = [kept |-> {}, given |-> FALSE, crossed |-> FALSE, raced |-> FALSE]

\* A load asks for the first messages of a thread.
FirstOf(messages) == SubSeq(messages, 1, IF Len(messages) < StWindow THEN Len(messages) ELSE StWindow)

\* A message: its number, and whether it has an id.
Msg(n, named) == [n |-> n, named |-> named]
Ids(messages) == {m.n : m \in {m \in ToSet(messages) : m.named}}

\* The workspace is bound to one of another name in the service.
backendWorkspace(name) == IF name \in {"", StLogical} THEN StBackend ELSE name

StFault == stCount.faults < stPlan.bound.faults
Outcomes == {"ok"} \cup (IF StFault THEN {"failed", "lost"} ELSE {})
Charge(outcome) == IF outcome = "ok" THEN 0 ELSE 1

LaneIsFree(p) == stJob[p].of # "delete"
StReady(p) == p \in stPlan.procs /\ stMem[p].ensured = "yes" /\ LaneIsFree(p)

-----------------------------------------------------------------------------
\* The workspace is created by whoever needs it first; a creation that is
\* refused because another process was faster is good.
ConflictAnswer(exists) == IF exists THEN "yes" ELSE "refused"

StEnsureAsk(p) ==
    /\ p \in stPlan.procs /\ stMem[p].ensured = "no"
    /\ stMem' = [stMem EXCEPT ![p].ensured = IF stStore.ws THEN "yes" ELSE "missing"]
    /\ UNCHANGED <<stPlan, stStore, stTurn, stJob, stAsked, stCount, stPast>>

StEnsureCreate(p) ==
    /\ p \in stPlan.procs /\ stMem[p].ensured = "missing"
    /\ stStore' = [stStore EXCEPT !.ws = TRUE]
    /\ stMem' = [stMem EXCEPT ![p].ensured = IF stStore.ws THEN ConflictAnswer(stStore.ws) ELSE "yes"]
    /\ UNCHANGED <<stPlan, stTurn, stJob, stAsked, stCount, stPast>>

-----------------------------------------------------------------------------
\* Transcripts.  The host may store the user's message before its turn comes.
StCommit(u) ==
    /\ stPlan.precommit /\ u \notin stAsked.committed /\ stStore.ws
    /\ stStore' = [stStore EXCEPT !.msgs[StBackend] = Append(@, Msg(u, TRUE))]
    /\ stAsked' = [stAsked EXCEPT !.committed = @ \cup {u}]
    /\ stPast' = [stPast EXCEPT !.kept = @ \cup {u}]
    /\ UNCHANGED <<stPlan, stMem, stTurn, stJob, stCount>>

\* The copy of the incoming message, when the host has stored it, is dropped.
DropTrailing(history, u) ==
    IF history # <<>> /\ Last(history) = Msg(u, TRUE) THEN Front(history) ELSE history

\* A turn begins with what a load returns, and the process knows what is stored.
StBegin(p, u, name) ==
    LET key == backendWorkspace(name)
        loaded == FirstOf(stStore.msgs[key])
    IN  /\ StReady(p) /\ stTurn[p].pc = "idle" /\ u \notin stAsked.begun
        /\ stPlan.precommit => u \in stAsked.committed
        /\ stTurn' = [stTurn EXCEPT ![p] = [pc |-> "user", task |-> u, key |-> key,
                                            history |-> DropTrailing(loaded, u)]]
        /\ stMem' = [stMem EXCEPT ![p].seen = IF stPlan.layer THEN Ids(loaded) ELSE NotSeen]
        /\ stAsked' = [stAsked EXCEPT !.begun = @ \cup {u}]
        /\ stPast' = [stPast EXCEPT !.crossed = @ \/ \E q \in StProc : stJob[q].of = "delete"]
        /\ UNCHANGED <<stPlan, stStore, stJob, stCount>>

SeenBy(p) == IF stMem[p].seen = NotSeen THEN {} ELSE stMem[p].seen

\* A plausible mistake: the last message is new.
FreshLast(p, messages) == <<Last(messages)>>
\* The messages a save sends to a store that appends.
Fresh(p, messages) == SelectSeq(messages, LAMBDA m : ~(m.named /\ m.n \in SeenBy(p)))

Stored(p, key, messages) ==
    IF stPlan.layer THEN stStore.msgs[key] \o Fresh(p, messages) ELSE messages

\* A session's Append: the transcript with one more message is saved.  What
\* cannot be saved ends the turn, also when the store has it.
StSave(p, m, next) ==
    \E outcome \in Outcomes :
        LET messages == Append(stTurn[p].history, m) IN
        /\ LaneIsFree(p)
        /\ stStore' = IF outcome = "failed" THEN stStore
                      ELSE [stStore EXCEPT !.msgs[stTurn[p].key] = Stored(p, stTurn[p].key, messages)]
        /\ stMem' = IF outcome = "ok" /\ stPlan.layer
                    THEN [stMem EXCEPT ![p].seen = SeenBy(p) \cup Ids(messages)] ELSE stMem
        /\ stTurn' = [stTurn EXCEPT ![p] = IF outcome = "ok"
                                           THEN [@ EXCEPT !.pc = next, !.history = messages] ELSE StIdle]
        /\ stPast' = [stPast EXCEPT !.kept = IF outcome = "ok" /\ m.named THEN @ \cup {m.n} ELSE @]
        /\ stCount' = [stCount EXCEPT !.messages = @ + 1, !.faults = @ + Charge(outcome)]
        /\ UNCHANGED <<stPlan, stJob, stAsked>>

StUser(p) == stTurn[p].pc = "user" /\ StSave(p, Msg(stTurn[p].task, TRUE), "run")

\* Assistant messages and tool results have ids; an image that is put in for
\* the model has none.
StAnswer(p, named) ==
    /\ stTurn[p].pc = "run" /\ stCount.messages < stPlan.bound.messages
    /\ StSave(p, Msg(Cardinality(StTask) + stCount.messages + 1, named), "run")

StEnd(p) ==
    /\ stTurn[p].pc # "idle" /\ stTurn' = [stTurn EXCEPT ![p] = StIdle]
    /\ UNCHANGED <<stPlan, stStore, stMem, stJob, stAsked, stCount, stPast>>

-----------------------------------------------------------------------------
\* What a user does to the thread.
Ui == stCount.ui < stPlan.bound.ui
CountUi(outcome) == stCount' = [stCount EXCEPT !.ui = @ + 1, !.faults = @ + Charge(outcome)]

\* A delete forgets what is stored, asks for the messages and deletes one by
\* one; files go at once.  A running turn saves its own copy afterwards.
StDelete(p, name) ==
    LET key == backendWorkspace(name) IN
    /\ StReady(p) /\ Ui /\ "delete" \in stPlan.ui /\ CountUi("ok")
    /\ stPast' = [stPast EXCEPT !.crossed = @ \/ \E q \in stPlan.procs : stTurn[q].pc # "idle",
                                !.kept = IF stPlan.layer THEN @ ELSE {}]
    /\ IF stPlan.layer
       THEN /\ stMem' = [stMem EXCEPT ![p].seen = NotSeen]
            /\ stJob' = [stJob EXCEPT ![p] = [of |-> "delete", key |-> key, title |-> NoThread,
                                              left |-> FirstOf(stStore.msgs[key])]]
            /\ UNCHANGED stStore
       ELSE stStore' = [stStore EXCEPT !.msgs[key] = <<>>] /\ UNCHANGED <<stMem, stJob>>
    /\ UNCHANGED <<stPlan, stTurn, stAsked>>

StDeleteOne(p) ==
    LET job == stJob[p] IN
    /\ job.of = "delete"
    /\ IF job.left = <<>> THEN stJob' = [stJob EXCEPT ![p] = NoJob] /\ UNCHANGED <<stStore, stPast>>
       ELSE /\ stStore' = [stStore EXCEPT !.msgs[job.key] = SelectSeq(@, LAMBDA m : m # Head(job.left))]
            /\ stPast' = [stPast EXCEPT !.kept = @ \ {Head(job.left).n}]
            /\ stJob' = [stJob EXCEPT ![p].left = Tail(@)]
    /\ UNCHANGED <<stPlan, stMem, stTurn, stAsked, stCount>>

StDeleteFails(p) ==
    /\ stJob[p].of = "delete" /\ StFault
    /\ stJob' = [stJob EXCEPT ![p] = NoJob]
    /\ stCount' = [stCount EXCEPT !.faults = @ + 1]
    /\ UNCHANGED <<stPlan, stStore, stMem, stTurn, stAsked, stPast>>

\* The command /clear saves an empty transcript, which a store that appends
\* takes for nothing to do.
StClear(p, name) ==
    /\ StReady(p) /\ Ui /\ "clear" \in stPlan.ui /\ CountUi("ok") /\ stTurn[p].pc = "idle"
    /\ IF stPlan.layer THEN UNCHANGED <<stStore, stPast>>
       ELSE /\ stStore' = [stStore EXCEPT !.msgs[backendWorkspace(name)] = <<>>]
            /\ stPast' = [stPast EXCEPT !.kept = {}]
    /\ UNCHANGED <<stPlan, stMem, stTurn, stJob, stAsked>>

-----------------------------------------------------------------------------
\* The list: "new" is the title of a new thread, "auto" one that was taken from
\* the first message, "given" the user's.
Created == [stStore EXCEPT !.title = "new"]

StCreate(p) ==
    \E outcome \in Outcomes :
        /\ StReady(p) /\ stStore.title = NoThread /\ stMem[p].title = NoThread /\ Ui /\ CountUi(outcome)
        /\ stStore' = IF outcome = "failed" THEN stStore ELSE Created
        /\ stMem' = IF outcome = "ok" \/ ~stPlan.layer THEN [stMem EXCEPT ![p].title = "new"] ELSE stMem
        /\ UNCHANGED <<stPlan, stTurn, stJob, stAsked, stPast>>

\* A title is taken from the text when there is none yet.
TouchedTitle(title) == IF title \in {NoThread, "new"} THEN "auto" ELSE title

\* A message is sent: the file has what the memory has; the service is asked
\* only to change a title, of a thread it knows.
StTouch(p) ==
    \E outcome \in Outcomes :
        LET title == TouchedTitle(stMem[p].title)
            asks == ~stPlan.layer \/ title # stMem[p].title
            known == ~stPlan.layer \/ stStore.title # NoThread
        IN  /\ StReady(p) /\ Ui /\ "title" \in stPlan.ui /\ CountUi(outcome)
            /\ stMem' = [stMem EXCEPT ![p].title = title]
            /\ stStore' = IF asks /\ known /\ outcome # "failed"
                          THEN [stStore EXCEPT !.title = title] ELSE stStore
            /\ UNCHANGED <<stPlan, stTurn, stJob, stAsked, stPast>>

Others(p) == stPlan.procs # {p} \/ stJob[p].of = "refresh"

\* The service is renamed first, the memory and its file together.
StRename(p) ==
    \E outcome \in Outcomes :
        LET known == ~stPlan.layer \/ stStore.title # NoThread
            done == known /\ outcome = "ok"
        IN  /\ StReady(p) /\ Ui /\ "title" \in stPlan.ui /\ CountUi(outcome)
            /\ stStore' = IF known /\ outcome # "failed" THEN [stStore EXCEPT !.title = "given"] ELSE stStore
            /\ stMem' = IF done \/ ~stPlan.layer THEN [stMem EXCEPT ![p].title = "given"] ELSE stMem
            /\ stPast' = [stPast EXCEPT !.given = @ \/ done, !.raced = @ \/ Others(p)]
            /\ UNCHANGED <<stPlan, stTurn, stJob, stAsked>>

StForget(p) ==
    \E outcome \in Outcomes :
        /\ StReady(p) /\ Ui /\ "title" \in stPlan.ui /\ stMem[p].title # NoThread /\ CountUi(outcome)
        /\ stStore' = IF outcome = "failed" THEN stStore ELSE [stStore EXCEPT !.title = NoThread]
        /\ stMem' = CASE ~stPlan.layer -> [stMem EXCEPT ![p].title = NoThread]
                      [] stPlan.layer /\ outcome = "ok" ->
                            [stMem EXCEPT ![p].title = NoThread, ![p].seen = NotSeen]
                      [] OTHER -> stMem
        /\ stPast' = [stPast EXCEPT !.given = FALSE, !.crossed = @ \/ stTurn[p].pc # "idle"]
        /\ UNCHANGED <<stPlan, stTurn, stJob, stAsked>>

\* A refresh replaces the copy by the list as it was when the service answered.
StRefresh(p) ==
    /\ StReady(p) /\ stPlan.layer /\ stJob[p] = NoJob /\ Ui /\ "title" \in stPlan.ui /\ CountUi("ok")
    /\ stJob' = [stJob EXCEPT ![p] = [NoJob EXCEPT !.of = "refresh", !.title = stStore.title]]
    /\ UNCHANGED <<stPlan, stStore, stMem, stTurn, stAsked, stPast>>

StRefreshed(p) ==
    /\ stJob[p].of = "refresh"
    /\ stMem' = [stMem EXCEPT ![p].title = stJob[p].title]
    /\ stJob' = [stJob EXCEPT ![p] = NoJob]
    /\ UNCHANGED <<stPlan, stStore, stTurn, stAsked, stCount, stPast>>

\* The process stops and starts: files are read, the list is asked for.
StRestart(p) ==
    /\ p \in stPlan.procs /\ StFault
    /\ stCount' = [stCount EXCEPT !.faults = @ + 1]
    /\ stMem' = [stMem EXCEPT ![p] = [seen |-> NotSeen, title |-> stStore.title,
                                      ensured |-> IF stStore.ws THEN "yes" ELSE "no"]]
    /\ stTurn' = [stTurn EXCEPT ![p] = StIdle] /\ stJob' = [stJob EXCEPT ![p] = NoJob]
    /\ UNCHANGED <<stPlan, stStore, stAsked, stPast>>

StNext ==
    \/ \E u \in StTask : StCommit(u)
    \/ \E p \in StProc :
          \/ StEnsureAsk(p) \/ StEnsureCreate(p)
          \/ \E u \in StTask, name \in stPlan.names : StBegin(p, u, name)
          \/ StUser(p) \/ StEnd(p) \/ \E named \in BOOLEAN : StAnswer(p, named)
          \/ \E name \in stPlan.names : StDelete(p, name) \/ StClear(p, name)
          \/ StDeleteOne(p) \/ StDeleteFails(p)
          \/ StCreate(p) \/ StTouch(p) \/ StRename(p) \/ StForget(p)
          \/ StRefresh(p) \/ StRefreshed(p) \/ StRestart(p)

-----------------------------------------------------------------------------
StTypeOK ==
    /\ stStore.title \in {NoThread, "new", "auto", "given"}
    /\ \A p \in StProc :
          /\ stMem[p].ensured \in {"no", "missing", "yes", "refused"}
          /\ stTurn[p].pc \in {"idle", "user", "run"}
          /\ stJob[p].of \in {"none", "delete", "refresh"}
    /\ stAsked.begun \cup stAsked.committed \subseteq StTask

\* Nobody is turned away because two processes create the workspace at once.
StWorkspaceOpen == \A p \in StProc : stMem[p].ensured # "refused"

\* A message with an id is stored once: by the host and by the turn, by turns
\* of two processes, after replies that were lost and processes that stopped
\* (store.go: "without the diff every turn would re-append").
StStoredOnce ==
    ~stPast.crossed =>
        \A k \in Keys : \A i, j \in DOMAIN stStore.msgs[k] :
            i # j /\ stStore.msgs[k][i].named => stStore.msgs[k][i] # stStore.msgs[k][j]

\* What was reported as saved is in the thread, by whichever name it was saved,
\* until it is deleted.
StSavedIsKept == ~stPast.crossed => stPast.kept \subseteq Ids(stStore.msgs[StBackend])

\* A turn goes on from what is stored: it has nothing the store has not.
StTurnIsStored ==
    ~stPast.crossed =>
        \A p \in StProc : \A i \in DOMAIN stTurn[p].history :
            \/ stTurn[p].history[i] \in ToSet(stStore.msgs[stTurn[p].key])
            \/ \E q \in StProc : stJob[q].of = "delete"

\* A title the user has given stays, over messages, failures and restarts, when
\* one process without a refresh under way has the thread to itself.
StGivenStays == stPast.given /\ ~stPast.raced => stStore.title = "given"

StSound ==
    StWorkspaceOpen /\ StStoredOnce /\ StSavedIsKept /\ StTurnIsStored /\ StGivenStays
=============================================================================
