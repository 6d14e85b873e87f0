------------------------------- MODULE TuiClient -------------------------------
(***************************************************************************)
(* The terminal client.  Its state belongs to one update loop, which takes *)
(* keys, events of the host and the results of its own commands one at a   *)
(* time; the commands (a send, a load of a thread, a removal, a change of  *)
(* directory, a shell command) run beside it and answer when they can.     *)
(* The user may write while a turn runs: the client keeps such messages    *)
(* and sends the next one of a thread when no turn of it is active, as far *)
(* as its own record of turns can tell.                                    *)
(***************************************************************************)
LOCAL INSTANCE Integers
LOCAL INSTANCE Sequences
LOCAL INSTANCE FiniteSets
LOCAL INSTANCE SequencesExt

CONSTANTS
    TuPlans,        \* who is used: [listed, ops, keys, faults, outside]
    TuThread,       \* threads
    TuHome,         \* thread -> its workspace
    TuTasks,        \* messages sent, numbered as they are submitted
    NoTurn, NoPlace

VARIABLES
    tuPlan,
    tuClient,       \* the state of the update loop
    tuHost,         \* [work, inbox, stored, listed, made]: what the commands and turns change
    tuJobs,         \* commands under way and answers not yet taken
    tuEvents,       \* events published and not yet taken
    tuCount,        \* [keys, faults]
    tuPast          \* [sent, edited, cancelled, odd, had] (history)

tuVars == <<tuPlan, tuClient, tuHost, tuJobs, tuEvents, tuCount, tuPast>>

TuTask == 1..TuTasks
TuActive == {"sending", "inbox", "running", "asking"}

TuInit ==
    /\ tuPlan \in TuPlans
    /\ \E first \in tuPlan.listed :
          tuClient = [shown |-> first, ws |-> TuHome[first], switching |-> FALSE,
                      turns |-> [t \in TuTask |-> NoTurn], thinking |-> {}, seen |-> {},
                      queue |-> <<>>, next |-> 1, text |-> FALSE, draft |-> FALSE,
                      past |-> FALSE, recall |-> FALSE, editing |-> 0, last |-> 0, cancel |-> 0,
                      clearing |-> {}, deferred |-> NoPlace, asks |-> {}]
    /\ tuHost = [work |-> [t \in TuTask |-> [st |-> "none", thread |-> NoPlace, base |-> {}]],
                 inbox |-> <<>>, stored |-> [h \in TuThread |-> {}], listed |-> tuPlan.listed,
                 made |-> tuPlan.listed]
    /\ tuJobs = {} /\ tuEvents = <<>>
    /\ tuCount = [keys |-> 0, faults |-> 0]
    /\ tuPast = [sent |-> <<>>, edited |-> {}, cancelled |-> {}, odd |-> {}]

Job(op, thread) == [op |-> op, thread |-> thread, task |-> 0, next |-> NoPlace, got |-> {},
                    back |-> FALSE, ok |-> TRUE]

\* What the update loop works on: its own state, the commands it starts, the
\* turns it cancels and the history.
Now == [c |-> tuClient, j |-> tuJobs, w |-> tuHost.work, p |-> tuPast]
Becomes(s) ==
    /\ tuClient' = s.c /\ tuPast' = s.p
    /\ tuHost' = [tuHost EXCEPT !.work = s.w]
Odd(s, what) == [s EXCEPT !.p.odd = @ \cup {what}]

-----------------------------------------------------------------------------
\* The record of turns.
MarkTurn(c, t, thread, phase) == [c EXCEPT !.turns[t] = [thread |-> thread, phase |-> phase]]
finishTurn(c, t) == [c EXCEPT !.turns[t] = NoTurn, !.cancel = IF @ = t THEN 0 ELSE @]
OnShown(c, t) == c.turns[t] # NoTurn /\ c.turns[t].thread = c.shown
hasActiveTurnFor(c, thread) == \E t \in TuTask : c.turns[t] # NoTurn /\ c.turns[t].thread = thread
syncThinking(c, t) ==
    [c EXCEPT !.thinking = IF OnShown(c, t) /\ c.turns[t].phase = "thinking" THEN @ \cup {t} ELSE @ \ {t}]

\* A message of a thread goes out, as a task of its own.
dispatchPreparedMessage(s, m) ==
    LET marked == MarkTurn(s.c, m.id, m.thread, "queued")
        shown == m.thread = s.c.shown
    IN  [s EXCEPT !.c = IF shown THEN [marked EXCEPT !.last = m.id, !.past = TRUE,
                                                     !.thinking = @ \cup {m.id}]
                        ELSE marked,
                  !.j = @ \cup {[Job("send", m.thread) EXCEPT !.task = m.id]},
                  !.w[m.id] = [st |-> "sending", thread |-> m.thread, base |-> {}]]

\* The first message that is not being edited and whose thread has no turn.
MaySend(c, m) == m.id # c.editing /\ ~hasActiveTurnFor(c, m.thread)
dispatchNextPending(s) ==
    LET at == SelectInSeq(s.c.queue, LAMBDA m : MaySend(s.c, m))
    IN  IF at = 0 THEN s
        ELSE dispatchPreparedMessage([s EXCEPT !.c.queue = RemoveAt(@, at)], s.c.queue[at])

submitPreparedMessage(s, m) ==
    IF hasActiveTurnFor(s.c, m.thread) THEN [s EXCEPT !.c.queue = Append(@, m)]
    ELSE dispatchPreparedMessage(s, m)

\* The host cancels a turn it runs, and no other.
Cancellable(s, t) == s.w[t].st \in {"running", "asking"}
tryCancelTask(s, t) ==
    [s EXCEPT !.c = [finishTurn(@, t) EXCEPT !.thinking = @ \ {t}], !.w[t].st = "stopping",
              !.p.cancelled = @ \cup {t}]
retryPendingCancel(s, t) ==
    IF s.c.cancel # t THEN s
    ELSE IF s.c.turns[t] = NoTurn THEN [s EXCEPT !.c.cancel = 0]
    ELSE IF Cancellable(s, t) THEN dispatchNextPending(tryCancelTask(s, t))
    ELSE s

-----------------------------------------------------------------------------
\* The composer: the text of a new message, of a queued one under edit, or of
\* one sent before.
resetHistoryNavigation(c) == [c EXCEPT !.recall = FALSE, !.draft = FALSE, !.editing = 0]
PendingHere(c) == SelectSeq(c.queue, LAMBDA m : m.thread = c.shown)
loadPendingForEdit(c, m) == [c EXCEPT !.recall = FALSE, !.editing = m.id, !.text = TRUE]
loadHistoryEntry(c) == [c EXCEPT !.editing = 0, !.recall = TRUE, !.text = TRUE]

\* What is written belongs to the thread shown now.
prepareQueuedMessage(c, id) == [id |-> id, thread |-> c.shown]
persistPendingEdit(s) ==
    LET at == SelectInSeq(s.c.queue, LAMBDA m : m.id = s.c.editing)
        moved == at # 0 /\ s.c.text /\ s.c.queue[at].thread # s.c.shown
        noted == [s EXCEPT !.p.edited = @ \cup {s.c.editing}]
    IN  IF at = 0 THEN [s EXCEPT !.c.editing = 0]
        ELSE IF ~s.c.text THEN [s EXCEPT !.c.queue = RemoveAt(@, at), !.c.editing = 0]
        ELSE [(IF moved THEN Odd(noted, "rerouted") ELSE noted) EXCEPT
                 !.c.queue[at] = prepareQueuedMessage(s.c, @.id)]

commitPendingEdit(s) ==
    dispatchNextPending([persistPendingEdit(s) EXCEPT !.c = resetHistoryNavigation([@ EXCEPT !.text = FALSE])])

sendCurrent(s) ==
    IF s.c.editing # 0 THEN commitPendingEdit(s)
    ELSE IF s.c.switching \/ ~s.c.text THEN s
    ELSE IF s.c.shown \in s.c.clearing THEN [s EXCEPT !.c.deferred = s.c.shown]
    ELSE submitPreparedMessage(
            [s EXCEPT !.c = resetHistoryNavigation([@ EXCEPT !.text = FALSE, !.next = @ + 1])],
            prepareQueuedMessage(s.c, s.c.next))

\* The neighbour of the message under edit, one up or one down, or none.
Neighbour(c, by) ==
    LET here == PendingHere(c)
        at == SelectInSeq(here, LAMBDA m : m.id = c.editing)
    IN  IF at # 0 /\ at + by \in 1..Len(here) THEN here[at + by].id ELSE 0
EditOf(c, id) == loadPendingForEdit(c, prepareQueuedMessage(c, id))
restoreHistoryDraft(c) == [resetHistoryNavigation(c) EXCEPT !.text = c.draft]

historyUp(s) ==
    LET target == Neighbour(s.c, -1)
        kept == persistPendingEdit(s)
        draft == [s.c EXCEPT !.draft = s.c.text]
    IN  IF s.c.editing # 0
        THEN [kept EXCEPT !.c = IF target # 0 THEN EditOf(@, target)
                                ELSE IF @.past THEN loadHistoryEntry(@) ELSE @]
        ELSE IF s.c.recall THEN s
        ELSE [s EXCEPT !.c = IF PendingHere(s.c) # <<>> THEN loadPendingForEdit(draft, Last(PendingHere(s.c)))
                             ELSE IF s.c.past THEN loadHistoryEntry(draft) ELSE @]
historyDown(s) ==
    LET target == Neighbour(s.c, 1)
        kept == persistPendingEdit(s)
    IN  IF s.c.editing # 0
        THEN [kept EXCEPT !.c = IF target # 0 THEN EditOf(@, target) ELSE restoreHistoryDraft(@)]
        ELSE IF ~s.c.recall THEN s
        ELSE [s EXCEPT !.c = IF PendingHere(s.c) # <<>> THEN loadPendingForEdit(@, Head(PendingHere(s.c)))
                             ELSE restoreHistoryDraft(@)]

-----------------------------------------------------------------------------
\* What an event changes, by where its thread is: in another workspace, behind
\* the one shown, or shown.
phaseOf == [started |-> "thinking", busy |-> "responding", asked |-> "approval needed",
            decided |-> "thinking"]
markOrFinish(c, e) ==
    CASE e.type \in {"started", "busy"} -> MarkTurn(c, e.task, e.thread, phaseOf[e.type])
      [] e.type = "final" -> finishTurn(c, e.task)
      [] OTHER -> c
applyForeignWorkspaceEvent(c, e) == markOrFinish(c, e)
\* A plausible mistake: what happens behind the thread shown is ignored.
IgnoreBackground(c, e) == c
applyBackgroundEvent(c, e) ==
    IF c.turns[e.task] # NoTurn /\ c.turns[e.task].thread = e.thread THEN markOrFinish(c, e) ELSE c
recordApproval(c, e) == MarkTurn([c EXCEPT !.asks = @ \cup {e.task}], e.task, e.thread, phaseOf[e.type])
applyPartUpdated(c, e) == MarkTurn([c EXCEPT !.asks = @ \ {e.task}], e.task, e.thread, phaseOf[e.type])
applyFinalMessage(c, e) == finishTurn([c EXCEPT !.seen = @ \cup {e.task}], e.task)
applyShownEvent(c, e) ==
    LET told == CASE e.type = "asked" -> recordApproval(c, e)
                  [] e.type = "decided" -> applyPartUpdated(c, e)
                  [] e.type = "final" -> applyFinalMessage(c, e)
                  [] OTHER -> markOrFinish(c, e)
    IN  syncThinking(told, e.task)
applyEvent(s, e) ==
    LET c == s.c
        unseen == e.type = "asked" /\ (TuHome[e.thread] # c.ws \/ e.thread # c.shown)
    IN  [(IF unseen THEN Odd(s, "unseen") ELSE s) EXCEPT
            !.c = IF TuHome[e.thread] # c.ws THEN applyForeignWorkspaceEvent(c, e)
                  ELSE IF e.thread # c.shown THEN applyBackgroundEvent(c, e)
                  ELSE applyShownEvent(c, e)]

TuTakeEvent ==
    /\ tuEvents # <<>>
    /\ LET e == Head(tuEvents)
       IN  LET s == dispatchNextPending(retryPendingCancel(applyEvent(Now, e), e.task))
           IN  Becomes(s) /\ tuJobs' = s.j
    /\ tuEvents' = Tail(tuEvents)
    /\ UNCHANGED <<tuPlan, tuCount>>

-----------------------------------------------------------------------------
\* Keys and commands of the user.  Between the removal of the last thread and
\* the creation of its successor the user waits.
Key(op) ==
    /\ op \in tuPlan.ops /\ tuCount.keys < tuPlan.keys /\ tuClient.shown # NoPlace
    /\ tuCount' = [tuCount EXCEPT !.keys = @ + 1]
    /\ UNCHANGED <<tuPlan, tuEvents>>
Press(s) == Becomes(s) /\ tuJobs' = s.j

TuType ==
    /\ Key("type") /\ tuClient.next <= TuTasks /\ ~tuClient.text
    /\ Press([Now EXCEPT !.c.text = TRUE])
TuErase == Key("edit") /\ tuClient.editing # 0 /\ tuClient.text /\ Press([Now EXCEPT !.c.text = FALSE])
TuEnter ==
    /\ Key("enter") /\ (tuClient.editing = 0 => tuClient.next <= TuTasks)
    /\ Press(sendCurrent(Now))
TuUp ==
    /\ Key("edit") /\ (tuClient.editing # 0 \/ PendingHere(tuClient) # <<>> \/ tuClient.past)
    /\ Press(dispatchNextPending(historyUp(Now)))
TuDown ==
    /\ Key("edit") /\ (tuClient.editing # 0 \/ tuClient.recall)
    /\ Press(dispatchNextPending(historyDown(Now)))

\* The turn to cancel: the last one sent, or any of the thread shown.
TuCancel ==
    /\ Key("cancel")
    /\ \E t \in TuTask :
          /\ OnShown(tuClient, t)
          /\ tuClient.last # 0 /\ OnShown(tuClient, tuClient.last) => t = tuClient.last
          /\ Press(IF Cancellable(Now, t) THEN dispatchNextPending(tryCancelTask(Now, t))
                   ELSE [Now EXCEPT !.c.cancel = t])

\* The answer to an approval is given under the thread shown.
TuApprove ==
    /\ Key("approve")
    /\ \E t \in tuClient.asks :
          /\ tuHost.work[t].st = "asking"
          /\ Press([(IF tuHost.work[t].thread # tuClient.shown THEN Odd(Now, "approved") ELSE Now) EXCEPT
                       !.c = MarkTurn([@ EXCEPT !.asks = @ \ {t}], t, tuClient.shown, "thinking"),
                       !.w[t].st = "answered"])

Listed(ws) == {h \in tuHost.listed : TuHome[h] = ws}
TuSelect ==
    /\ Key("select")
    /\ \E h \in Listed(tuClient.ws) \ {tuClient.shown} :
          Press([Now EXCEPT !.c.shown = h, !.j = @ \cup {Job("load", h)}])
TuCreate == Key("create") /\ Press([Now EXCEPT !.j = @ \cup {Job("create", tuClient.shown)}])
TuClear ==
    /\ Key("clear")
    /\ Press([Now EXCEPT !.c.clearing = @ \cup {tuClient.shown},
                         !.j = @ \cup {Job("clear", tuClient.shown)}])
TuDelete ==
    /\ Key("delete")
    /\ \E h \in Listed(tuClient.ws) :
          LET others == Listed(tuClient.ws) \ {h}
          IN  \E n \in IF others = {} THEN {NoPlace} ELSE others :
                 Press([Now EXCEPT !.j = @ \cup {[Job("delete", h) EXCEPT !.next = n]}])

\* A directory of another workspace that lies outside the root is entered only
\* when no turn of the present one is active.
TuChangeDirectory ==
    /\ Key("cd") /\ ~tuClient.switching
    /\ \E h \in TuThread :
          /\ TuHome[h] # tuClient.ws
          /\ LET busy == \E t \in TuTask : tuClient.turns[t] # NoTurn /\ TuHome[tuClient.turns[t].thread] = tuClient.ws
             IN  Press([Now EXCEPT !.c.switching = TRUE,
                           !.j = @ \cup {[Job("cd", h) EXCEPT !.ok = ~(tuPlan.outside /\ busy)]}])

\* A shell command runs beside the turns; it is written like a message.
startShellCommand ==
    /\ Key("shell") /\ tuClient.editing = 0 /\ ~tuClient.switching /\ tuClient.text
    /\ tuClient.shown \notin tuClient.clearing
    /\ Press([Now EXCEPT !.c = [resetHistoryNavigation(@) EXCEPT !.text = FALSE, !.past = TRUE],
                         !.j = @ \cup {Job("shell", tuClient.shown)}])

-----------------------------------------------------------------------------
\* The commands, beside the loop: each does its work and then has an answer.
Fault == tuCount.faults < tuPlan.faults
Answer(j, back) == tuJobs' = (tuJobs \ {j}) \cup {[back EXCEPT !.back = TRUE]}
NewThreads == TuThread \ tuHost.made
Spent(ok) == tuCount' = [tuCount EXCEPT !.faults = @ + (IF ok THEN 0 ELSE 1)]
Beside == UNCHANGED <<tuPlan, tuClient, tuEvents>>

TuSend(j, ok) ==
    /\ j.op = "send"
    /\ IF ok THEN
          /\ tuHost' = [tuHost EXCEPT !.listed = @ \cup {j.thread}, !.inbox = Append(@, j.task),
                                      !.work[j.task].st = "inbox"]
          /\ tuPast' = [tuPast EXCEPT !.sent = Append(@, j.task)]
       ELSE tuHost' = [tuHost EXCEPT !.work[j.task].st = "refused"] /\ UNCHANGED tuPast
    /\ Answer(j, [j EXCEPT !.ok = ok])

TuSteer(j, ok) ==
    /\ j.op = "steer"
    /\ tuHost' = [tuHost EXCEPT !.listed = @ \cup {j.thread}]
    /\ Answer(j, [j EXCEPT !.ok = ok]) /\ UNCHANGED tuPast

TuLoad(j, ok) ==
    /\ j.op = "load"
    /\ Answer(j, [j EXCEPT !.ok = ok, !.got = tuHost.stored[j.thread]])
    /\ UNCHANGED <<tuHost, tuPast>>

\* The thread is taken from the list before its transcript is removed.
TuRemove(j, ok) ==
    /\ j.op \in {"clear", "delete"}
    /\ tuHost' = [tuHost EXCEPT !.listed = IF j.op = "delete" THEN @ \ {j.thread} ELSE @,
                                !.stored[j.thread] = IF ok THEN {} ELSE @]
    /\ tuPast' = IF \/ \E t \in TuTask : tuHost.work[t].thread = j.thread /\ tuHost.work[t].st # "over"
                    \/ \E i \in 1..Len(tuEvents) : tuEvents[i].thread = j.thread
                 THEN [tuPast EXCEPT !.odd = @ \cup {"removed"}] ELSE tuPast
    /\ Answer(j, [j EXCEPT !.ok = ok])

TuMake(j) ==
    /\ j.op = "create"
    /\ \E h \in NewThreads :
          /\ TuHome[h] = TuHome[j.thread]
          /\ tuHost' = [tuHost EXCEPT !.listed = @ \cup {h}, !.made = @ \cup {h}]
          /\ Answer(j, [j EXCEPT !.next = h])
    /\ UNCHANGED <<tuPast, tuCount>>

\* A workspace opens on a thread it has, or on a new one.
TuEnterWorkspace(j, ok) ==
    /\ j.op = "cd"
    /\ IF j.ok /\ ok
       THEN \E h \in IF Listed(TuHome[j.thread]) = {} THEN {j.thread} ELSE Listed(TuHome[j.thread]) :
               /\ tuHost' = [tuHost EXCEPT !.listed = @ \cup {h}, !.made = @ \cup {h}]
               /\ Answer(j, [j EXCEPT !.thread = h, !.got = tuHost.stored[h]])
       ELSE Answer(j, [j EXCEPT !.ok = FALSE]) /\ UNCHANGED tuHost
    /\ UNCHANGED tuPast

TuRuns ==
    /\ Beside
    /\ \E j \in {j \in tuJobs : ~j.back} :
          \/ \E ok \in {TRUE} \cup (IF Fault THEN {FALSE} ELSE {}) :
                /\ \/ TuSend(j, ok) \/ TuSteer(j, ok) \/ TuLoad(j, ok) \/ TuRemove(j, ok)
                   \/ TuEnterWorkspace(j, ok)
                /\ Spent(ok)
          \/ TuMake(j)

-----------------------------------------------------------------------------
\* The answers, taken by the loop.  What belongs to another workspace by now
\* is put aside.
Show(c, h, got) ==
    [resetHistoryNavigation(c) EXCEPT !.shown = h, !.seen = got, !.thinking = {}, !.past = got # {}]
Interrupts(s) == IF s.c.editing # 0 THEN Odd(s, "reset") ELSE s

applySendResult(s, j) ==
    LET settled == IF j.ok THEN s.c
                   ELSE IF TuHome[j.thread] # s.c.ws THEN [s.c EXCEPT !.turns[j.task] = NoTurn]
                   ELSE [finishTurn(s.c, j.task) EXCEPT !.thinking = @ \ {j.task}]
    IN  dispatchNextPending(retryPendingCancel([s EXCEPT !.c = settled], j.task))
applySteerResult(s, j) == dispatchNextPending(s)

applyHistoryLoaded(s, j) ==
    LET stale == ~j.ok \/ j.thread # s.c.shown \/ j.got # tuHost.stored[j.thread]
        noted == IF stale THEN Odd(s, "late") ELSE s
    IN  IF TuHome[j.thread] # s.c.ws THEN s
        ELSE IF ~j.ok THEN noted
        ELSE [Interrupts(noted) EXCEPT !.c = Show(@, j.thread, j.got)]

applyThreadCreated(s, j) ==
    LET noted == IF tuHost.stored[j.next] # {} THEN Odd(s, "late") ELSE s
    IN  IF TuHome[j.next] # s.c.ws THEN s ELSE [Interrupts(noted) EXCEPT !.c = Show(@, j.next, {})]

\* The removal of the thread shown goes on to its successor.
applyThreadDeleted(s, j) ==
    IF TuHome[j.thread] # s.c.ws \/ ~j.ok \/ j.thread # s.c.shown THEN s
    ELSE [s EXCEPT !.c.shown = j.next, !.c.seen = {}, !.c.thinking = {},
                   !.j = @ \cup {IF j.next # NoPlace THEN Job("load", j.next) ELSE Job("create", j.thread)}]

\* A message entered while its thread was being cleared goes out afterwards.
applyClearThread(s, j) ==
    LET here == j.thread = s.c.shown
        known == TuHome[j.thread] = s.c.ws
        again == tuHost.stored[j.thread] # {}
        freed == [(IF again THEN Odd(s, "removed") ELSE s) EXCEPT !.c.clearing = @ \ {j.thread},
                                          !.c.deferred = IF @ = j.thread THEN NoPlace ELSE @]
        shown == IF known /\ j.ok /\ here THEN [Interrupts(freed) EXCEPT !.c = Show(@, j.thread, {})] ELSE freed
    IN  IF j.ok /\ s.c.deferred = j.thread /\ here THEN sendCurrent(shown) ELSE shown

applyWorkspaceLoaded(s, j) ==
    LET entered == [Show(s.c, j.thread, j.got) EXCEPT !.switching = FALSE, !.ws = TuHome[j.thread],
                                                     !.asks = {}, !.last = 0]
        noted == IF s.c.asks # {} THEN Odd(s, "unseen") ELSE s
    IN  IF ~j.ok THEN [s EXCEPT !.c.switching = FALSE]
        ELSE [(IF j.got # tuHost.stored[j.thread] THEN Odd(Interrupts(noted), "late") ELSE Interrupts(noted))
                 EXCEPT !.c = entered]

\* A finished shell command is context of the running turn, or a message.
finishShellCommand(s, j) ==
    IF hasActiveTurnFor(s.c, j.thread) THEN [s EXCEPT !.j = @ \cup {Job("steer", j.thread)}]
    ELSE dispatchPreparedMessage([s EXCEPT !.c.next = @ + 1], [id |-> s.c.next, thread |-> j.thread])

TuTakeAnswer ==
    /\ \E j \in {j \in tuJobs : j.back \/ j.op = "shell"} :
          LET without == [Now EXCEPT !.j = @ \ {j}]
              took == CASE j.op = "send" -> applySendResult(without, j)
                        [] j.op = "steer" -> applySteerResult(without, j)
                        [] j.op = "load" -> applyHistoryLoaded(without, j)
                        [] j.op = "create" -> applyThreadCreated(without, j)
                        [] j.op = "delete" -> applyThreadDeleted(without, j)
                        [] j.op = "clear" -> applyClearThread(without, j)
                        [] j.op = "cd" -> applyWorkspaceLoaded(without, j)
                        [] j.op = "shell" -> finishShellCommand(without, j)
          IN  /\ j.op = "shell" => (tuClient.next <= TuTasks \/ hasActiveTurnFor(tuClient, j.thread))
              /\ j.op = "clear" /\ tuClient.deferred = j.thread => tuClient.next <= TuTasks
              /\ Press(took)
    /\ UNCHANGED <<tuPlan, tuEvents, tuCount>>

-----------------------------------------------------------------------------
\* The host: one turn of a thread at a time, in the order of the inbox; its
\* transcript is saved before the last event.
Tell(type, t) == tuEvents' = Append(tuEvents, [type |-> type, task |-> t, thread |-> tuHost.work[t].thread])
HostOnly == UNCHANGED <<tuPlan, tuClient, tuJobs, tuCount, tuPast>>
TuRunning(h) == \E t \in TuTask : tuHost.work[t].thread = h /\ tuHost.work[t].st \in {"running", "asking", "answered", "stopping"}

TuStartTurn ==
    /\ \E i \in 1..Len(tuHost.inbox) :
          LET t == tuHost.inbox[i]
              h == tuHost.work[t].thread
          IN  /\ ~TuRunning(h) /\ \A k \in 1..(i - 1) : tuHost.work[tuHost.inbox[k]].thread # h
              /\ tuHost' = [tuHost EXCEPT !.inbox = RemoveAt(@, i), !.work[t].st = "running",
                                          !.work[t].base = tuHost.stored[h]]
              /\ Tell("started", t)
    /\ HostOnly
TuProgress ==
    /\ "busy" \in tuPlan.ops
    /\ \E t \in TuTask :
          /\ tuHost.work[t].st = "running" /\ Tell("busy", t)
          /\ \A i \in 1..Len(tuEvents) : tuEvents[i].task # t \/ tuEvents[i].type # "busy"
    /\ UNCHANGED tuHost /\ HostOnly
TuAsk ==
    /\ "approve" \in tuPlan.ops
    /\ \E t \in TuTask :
          /\ tuHost.work[t].st = "running" /\ tuHost' = [tuHost EXCEPT !.work[t].st = "asking"]
          /\ Tell("asked", t)
    /\ HostOnly
TuGoOn ==
    /\ \E t \in TuTask :
          /\ tuHost.work[t].st = "answered" /\ tuHost' = [tuHost EXCEPT !.work[t].st = "running"]
          /\ Tell("decided", t)
    /\ HostOnly
TuEndTurn ==
    /\ \E t \in TuTask :
          /\ tuHost.work[t].st \in {"running", "stopping"}
          /\ tuHost' = [tuHost EXCEPT !.work[t].st = "over",
                                      !.stored[tuHost.work[t].thread] = tuHost.work[t].base \cup {t}]
          /\ Tell("final", t)
    /\ HostOnly

TuNext ==
    \/ TuTakeEvent \/ TuTakeAnswer \/ TuType \/ TuErase \/ TuEnter \/ TuUp \/ TuDown
    \/ TuCancel \/ TuApprove \/ TuSelect \/ TuCreate \/ TuClear \/ TuDelete \/ TuChangeDirectory
    \/ startShellCommand \/ TuRuns
    \/ TuStartTurn \/ TuProgress \/ TuAsk \/ TuGoOn \/ TuEndTurn

-----------------------------------------------------------------------------
TuTypeOK ==
    /\ tuClient.shown \in TuThread \cup {NoPlace}
    /\ \A t \in TuTask : tuClient.turns[t] # NoTurn => tuClient.turns[t].thread \in TuThread \cup {NoPlace}
    /\ tuClient.thinking \subseteq TuTask /\ tuClient.seen \subseteq TuTask /\ tuClient.asks \subseteq TuTask
    /\ \A i \in 1..Len(tuClient.queue) : tuClient.queue[i].thread \in TuThread \cup {NoPlace}
    /\ tuClient.clearing \subseteq TuThread /\ tuHost.listed \subseteq TuThread

Unsettled(t) == tuHost.work[t].st \in TuActive \cup {"answered"}
Quiet ==
    /\ tuJobs = {} /\ tuEvents = <<>>
    /\ \A t \in TuTask : ~Unsettled(t) /\ tuHost.work[t].st # "stopping"

\* A thread has one message of its user with the host at a time, unless the
\* turn was cancelled or its approval given under another thread.
TuOneAtATime ==
    "approved" \in tuPast.odd
    \/ \A t, u \in TuTask : t < u /\ Unsettled(t) /\ Unsettled(u) => tuHost.work[t].thread # tuHost.work[u].thread

\* The messages of a thread reach the host in the order they were written, but
\* for those recalled to be edited.
TuInOrder ==
    \A i, k \in 1..Len(tuPast.sent) :
        LET t == tuPast.sent[i]
            u == tuPast.sent[k]
        IN  i < k /\ t > u /\ tuHost.work[t].thread = tuHost.work[u].thread
            => {t, u} \cap tuPast.edited # {} \/ "reset" \in tuPast.odd

\* Once everything has come to rest, nothing waits but what is being edited, no
\* turn is taken for active and no thinking row is left.
TuComesToRest ==
    Quiet /\ "approved" \notin tuPast.odd =>
        /\ "reset" \in tuPast.odd \/ \A i \in 1..Len(tuClient.queue) : tuClient.queue[i].id = tuClient.editing
        /\ \A t \in TuTask : tuClient.turns[t] = NoTurn
        /\ "late" \in tuPast.odd \/ tuClient.thinking = {}

\* A cancellation that came too early is not forgotten while its turn may still
\* be cancelled and its events come.
TuCancelArrives ==
    \A t \in TuTask : tuClient.cancel = t /\ tuClient.turns[t] = NoTurn => ~Unsettled(t)

\* An approval asked before the user's eyes can be answered until it is.
TuAskStays ==
    \A t \in TuTask :
        /\ tuHost.work[t].st = "asking" /\ "unseen" \notin tuPast.odd
        /\ \A i \in 1..Len(tuEvents) : tuEvents[i] # [type |-> "asked", task |-> t, thread |-> tuHost.work[t].thread]
        => t \in tuClient.asks

\* The thread shown is shown as it is stored, when no load came late and
\* nothing was removed under a running turn.
TuShowsStored ==
    Quiet /\ tuPast.odd \cap {"late", "removed", "approved"} = {} /\ tuClient.shown # NoPlace
    => tuClient.seen = tuHost.stored[tuClient.shown]

TuSound ==
    TuOneAtATime /\ TuInOrder /\ TuComesToRest /\ TuCancelArrives /\ TuAskStays /\ TuShowsStored
===============================================================================
