------------------------------ MODULE PromptContext ------------------------------
(***************************************************************************)
(* The context of a provider call.  Every call of a turn is built from the *)
(* whole thread: large old parts are moved to files, messages are dropped  *)
(* until the rest fits the model's window, and the state of the work       *)
(* (skills, todos, children), which is carried by the assistant messages,  *)
(* is merged into the system prompt.  A provider may rank the skills.      *)
(*                                                                         *)
(* A message is its place in the thread, a size and what it carries; the   *)
(* text of the prompt's sections is left out.                              *)
(***************************************************************************)
LOCAL INSTANCE Integers
LOCAL INSTANCE Sequences
LOCAL INSTANCE FiniteSets
LOCAL INSTANCE SequencesExt
LOCAL INSTANCE FiniteSetsExt
LOCAL INSTANCE Functions

CONSTANTS
    PcPlans,           \* [compactor, window, maxMessages, rank, prereqs, tools]
    PcSkills,          \* the catalog of skills, in its order
    PcPrereqs,         \* skill -> the skills it needs
    PcBody,            \* skill -> the size of its body
    PcTodo, PcChild,   \* the other items a ledger holds
    PcTTL, PcStale,    \* turns an item is shown; turns a loaded skill is fresh
    PcRealizeCap,      \* size of the bodies loaded without a call
    PcKeepRecent,      \* messages nothing is moved out of
    PcEvictAbove, PcPreview,
    PcOverflowRetries,
    PcTurns, PcMessages, PcFaults, \* bounds
    NoFile

VARIABLES
    pcPlan, pcThread,
    pcTurn,            \* [pc, n, base, counted, sink, trim]
    pcFiles,           \* file -> the message whose content it holds
    pcPrompt,          \* what the provider was given last
    pcBad,
    pcKnown            \* item -> [status, turn] last persisted (history)

pcVars == <<pcPlan, pcThread, pcTurn, pcFiles, pcPrompt, pcBad, pcKnown>>

Skill == ToSet(PcSkills)
NoItems == [i \in {} |-> 0]
NoState == [turn |-> 0, comps |-> 0, items |-> NoItems]
NoPrompt == [of |-> <<>>, messages |-> <<>>, left |-> 0, trim |-> 0, items |-> NoItems, turn |-> 0,
             listed |-> <<>>, hidden |-> 0, loaded |-> <<>>]
PcNoTurn == [pc |-> "idle", n |-> 0, base |-> 0, counted |-> 0, sink |-> NoItems, trim |-> 0]

PcInit ==
    /\ pcPlan \in PcPlans
    /\ pcThread = <<>> /\ pcTurn = PcNoTurn
    /\ pcFiles = [f \in 1..PcMessages |-> NoFile]
    /\ pcPrompt = NoPrompt /\ pcBad = 0 /\ pcKnown = NoItems

Message(role, size, state) ==
    [id |-> Len(pcThread) + 1, role |-> role, size |-> size, file |-> NoFile, state |-> state]

-----------------------------------------------------------------------------
\* A plausible mistake: the first touch of a turn stays.
MergeItemsOnce(a, b) ==
    [i \in DOMAIN a \cup DOMAIN b |->
        IF i \notin DOMAIN a \/ (i \in DOMAIN b /\ b[i].turn > a[i].turn) THEN b[i] ELSE a[i]]

\* The state of the work: the newest touch of an item wins, the later one when
\* two are of one turn.
MergeItems(a, b) ==
    [i \in DOMAIN a \cup DOMAIN b |->
        IF i \notin DOMAIN a \/ (i \in DOMAIN b /\ b[i].turn >= a[i].turn) THEN b[i] ELSE a[i]]

MergeWorldState(a, b) ==
    [turn |-> Max({a.turn, b.turn}), comps |-> Max({a.comps, b.comps}),
     items |-> MergeItems(a.items, b.items)]

ExtractWorldState(history) ==
    FoldLeft(LAMBDA state, m : IF m.state = NoState THEN state ELSE MergeWorldState(state, m.state),
             NoState, history)

\* What a tool touches in this turn, and what the assistant's message carries.
Touched(sink, items, status) ==
    [i \in items |-> [status |-> status, turn |-> pcTurn.n]] @@ sink

worldState == [turn |-> pcTurn.n, comps |-> pcTurn.base + pcTurn.counted, items |-> pcTurn.sink]

Restrict2(f, S) == [i \in DOMAIN f \cap S |-> f[i]]

Active(state) == Restrict2(state.items, {i \in DOMAIN state.items :
                                            state.turn - state.items[i].turn <= PcTTL})

-----------------------------------------------------------------------------
\* Compaction: sizes are in tokens.
Size(messages) == FoldLeft(LAMBDA n, m : n + m.size, 0, messages)

\* A file is named for the call whose result it holds, or for the message.
Moves(messages) ==
    {i \in DOMAIN messages : i <= Len(messages) - PcKeepRecent /\ messages[i].size > PcEvictAbove}

Evicted(messages) ==
    [i \in DOMAIN messages |->
        IF i \in Moves(messages)
        THEN [messages[i] EXCEPT !.size = PcPreview, !.file = messages[i].id]
        ELSE messages[i]]

Summary(omitted) == [id |-> 0, role |-> "summary", size |-> 1, file |-> NoFile, state |-> NoState]

Tail2(messages, n) == SubSeq(messages, Len(messages) - n + 1, Len(messages))

\* The oldest go until the rest fits; the newest always stays.
trimToTokenBudget(messages, budget) ==
    LET fits == {n \in 1..Len(messages) : n = 1 \/ Size(Tail2(messages, n)) <= budget}
    IN  IF budget = 0 \/ messages = <<>> THEN messages ELSE Tail2(messages, Max(fits))

Reduced(messages, budget) ==
    LET over == pcPlan.maxMessages # 0 /\ Len(messages) > pcPlan.maxMessages
        n == Len(messages) - pcPlan.maxMessages
        few == IF over THEN <<Summary(n)>> \o Tail2(messages, pcPlan.maxMessages) ELSE messages
    IN  trimToTokenBudget(few, budget)

\* [messages, left]: what goes to the provider and how many messages were left
\* out.  The classic one is asked when the others leave too much.
Compact(history, budget) ==
    LET kept == CASE pcPlan.compactor = "classic" -> Reduced(history, budget)
                  [] pcPlan.compactor = "evict" ->
                        IF budget # 0 /\ Size(Evicted(history)) > budget
                        THEN Reduced(Evicted(history), budget)
                        ELSE Evicted(history)
    IN  [messages |-> kept,
         left |-> Len(history) - Len(SelectSeq(kept, LAMBDA m : m.role # "summary"))]

-----------------------------------------------------------------------------
\* The skills: [listed, mode, realize, suppressed] is what the ranking says.
rankedListing(rank) ==
    LET known == SelectSeq(rank.listed, LAMBDA s : s \in Skill)
        first == FoldLeft(LAMBDA out, s : IF Contains(out, s) THEN out ELSE Append(out, s), <<>>, known)
    IN  IF rank.listed = <<>> THEN PcSkills
        ELSE IF rank.mode = "replace" THEN first
        ELSE first \o SelectSeq(PcSkills, LAMBDA s : ~Contains(first, s))

\* A skill that is too large is passed over; a later one may still fit.
autoRealize(names, items) ==
    LET fresh == {s \in Skill \cap DOMAIN items : pcTurn.n - items[s].turn <= PcStale}
        loads(out, s) == /\ s \in Skill \ fresh /\ ~Contains(out, s)
                         /\ FoldLeft(LAMBDA n, t : n + PcBody[t], PcBody[s], out) <= PcRealizeCap
    IN  FoldLeft(LAMBDA out, s : IF loads(out, s) THEN Append(out, s) ELSE out, <<>>, names)

Hidden(listed, suppressed) == Max({0, Len(PcSkills) - Len(listed) - suppressed})

\* A skill is loaded after everything it needs that there is; a cycle is broken
\* where it closes.
RECURSIVE Visit(_, _, _)
Visit(s, done, stack) ==
    LET needs == SelectSeq(PcSkills, LAMBDA p : p \in PcPrereqs[s])
    IN  IF s \in ToSet(done) \cup stack THEN done
        ELSE Append(FoldLeft(LAMBDA out, p : Visit(p, out, stack \cup {s}), done, needs), s)

loadOrder(s) == IF pcPlan.prereqs THEN Visit(s, <<>>, {}) ELSE <<s>>

-----------------------------------------------------------------------------
\* An overflow drops the oldest part of the thread before anything is built.
trimOldest(history, attempt) ==
    IF attempt = 0 \/ Len(history) <= 1 THEN history
    ELSE LET drop == (Len(history) * attempt) \div (PcOverflowRetries + 1)
         IN  Tail2(history, Len(history) - drop)

PcStart(notice) ==
    LET m == Message("user", 1, NoState)
        prior == ExtractWorldState(pcThread)
    IN  /\ pcTurn.pc = "idle" /\ prior.turn < PcTurns /\ Len(pcThread) < PcMessages
        /\ notice => PcChild \in DOMAIN pcKnown /\ pcKnown[PcChild].status = "running"
        /\ pcThread' = Append(pcThread, m)
        /\ pcTurn' = [pc |-> "build", n |-> prior.turn + 1, base |-> prior.comps, counted |-> 0,
                      trim |-> 0,
                      sink |-> IF notice THEN [i \in {PcChild} |-> [status |-> "completed", turn |-> prior.turn + 1]]
                               ELSE NoItems]
        /\ UNCHANGED <<pcPlan, pcFiles, pcPrompt, pcBad, pcKnown>>

\* The whole context of one provider call.
Build ==
    LET history == trimOldest(pcThread, pcTurn.trim)
        state == MergeWorldState(ExtractWorldState(history), [NoState EXCEPT !.turn = pcTurn.n])
        items == Active(state)
        listed == rankedListing(pcPlan.rank)
        c == Compact(history, pcPlan.window)
    IN  [of |-> history, messages |-> c.messages, left |-> c.left, trim |-> pcTurn.trim,
         items |-> items, turn |-> state.turn, listed |-> listed,
         hidden |-> Hidden(listed, pcPlan.rank.suppressed),
         loaded |-> autoRealize(pcPlan.rank.realize, Restrict2(items, Skill))]

PcBuild ==
    LET p == Build
        moved == IF pcPlan.compactor = "classic" THEN {} ELSE {p.of[i].id : i \in Moves(p.of)}
    IN  /\ pcTurn.pc = "build"
        /\ pcPrompt' = p
        /\ pcFiles' = [f \in DOMAIN pcFiles |-> IF f \in moved THEN f ELSE pcFiles[f]]
        /\ pcTurn' = [pcTurn EXCEPT !.pc = "call", !.counted = IF p.left > 0 THEN @ + 1 ELSE @]
        /\ UNCHANGED <<pcPlan, pcThread, pcBad, pcKnown>>

\* The file cannot be written, the provider fails, or the user cancels: the
\* turn ends with what is in the thread.
PcFail ==
    /\ pcTurn.pc \in {"build", "call"} /\ pcBad < PcFaults /\ pcBad' = pcBad + 1
    /\ pcTurn' = PcNoTurn
    /\ UNCHANGED <<pcPlan, pcThread, pcFiles, pcPrompt, pcKnown>>

\* A plausible mistake: the retries are counted from one.
PcMayTrimOnceMore(n) == n <= PcOverflowRetries

PcMayTrim(n) == n < PcOverflowRetries

\* The provider finds it too long.
PcOverflow ==
    /\ pcTurn.pc = "call" /\ PcMayTrim(pcTurn.trim) /\ Len(pcThread) > 1
    /\ pcTurn' = [pcTurn EXCEPT !.pc = "build", !.trim = @ + 1]
    /\ UNCHANGED <<pcPlan, pcThread, pcFiles, pcPrompt, pcBad, pcKnown>>

\* The assistant's message carries what the turn has touched so far; with a
\* tool call the turn goes on.  The next call starts from the whole thread.
PcReply(call) ==
    /\ pcTurn.pc = "call" /\ Len(pcThread) < PcMessages
    /\ pcThread' = Append(pcThread, Message(IF call THEN "call" ELSE "answer", 1, worldState))
    /\ pcTurn' = IF call THEN [pcTurn EXCEPT !.pc = "tool", !.trim = 0] ELSE PcNoTurn
    /\ pcKnown' = pcTurn.sink @@ pcKnown
    /\ UNCHANGED <<pcPlan, pcFiles, pcPrompt, pcBad>>

\* A tool reports a size and may touch items: a skill and what it needs, the
\* todo board, a child that is started.
PcEffects ==
    {[tool |-> "read", items |-> {}, status |-> "none"]} \cup
    {[tool |-> "skill", items |-> ToSet(loadOrder(s)), status |-> "loaded"] : s \in Skill} \cup
    {[tool |-> "todo", items |-> {PcTodo}, status |-> x] : x \in {"pending", "completed"}} \cup
    {[tool |-> "spawn", items |-> {PcChild}, status |-> "running"]}

PcTool(effect, size) ==
    /\ pcTurn.pc = "tool" /\ Len(pcThread) < PcMessages /\ effect.tool \in pcPlan.tools
    /\ pcThread' = Append(pcThread, Message("result", size, NoState))
    /\ pcTurn' = [pcTurn EXCEPT !.pc = "build", !.sink = Touched(@, effect.items, effect.status)]
    /\ UNCHANGED <<pcPlan, pcFiles, pcPrompt, pcBad, pcKnown>>

\* The worker stops within the turn and takes it up again: the number of the
\* turn is the newest one in the thread.
PcRestart ==
    LET prior == ExtractWorldState(pcThread)
        n == IF prior.turn > 0 THEN prior.turn ELSE 1
    IN  /\ pcTurn.pc # "idle" /\ pcBad < PcFaults /\ pcBad' = pcBad + 1
        /\ pcTurn' = [pc |-> IF Last(pcThread).role = "call" THEN "tool" ELSE "build", n |-> n,
                      base |-> prior.comps, counted |-> 0, sink |-> NoItems, trim |-> 0]
        /\ UNCHANGED <<pcPlan, pcThread, pcFiles, pcPrompt, pcKnown>>

PcNext ==
    \/ \E notice \in BOOLEAN : PcStart(notice)
    \/ PcBuild \/ PcFail \/ PcOverflow \/ PcRestart
    \/ \E call \in BOOLEAN : PcReply(call)
    \/ \E effect \in PcEffects, size \in {1, PcEvictAbove + 1} : PcTool(effect, size)

-----------------------------------------------------------------------------
PcTypeOK ==
    /\ pcTurn.pc \in {"idle", "build", "call", "tool"}
    /\ pcTurn.trim \in 0..PcOverflowRetries
    /\ Len(pcThread) <= PcMessages
    /\ DOMAIN pcKnown \subseteq Skill \cup {PcTodo, PcChild}

\* What the provider is given is the newest part of the thread, in its order
\* and with its newest message, and fits the window unless that message alone
\* does not.
PromptIsSuffix ==
    LET real == SelectSeq(pcPrompt.messages, LAMBDA m : m.role # "summary") IN
    pcPrompt # NoPrompt =>
        /\ real # <<>>
        /\ [i \in DOMAIN real |-> real[i].id] = [i \in DOMAIN real |-> Tail2(pcPrompt.of, Len(real))[i].id]
        /\ pcPlan.window # 0 =>
              Size(pcPrompt.messages) <= pcPlan.window \/ Len(pcPrompt.messages) = 1
        /\ pcPrompt.left = Len(pcPrompt.of) - Len(real)

\* What was moved out of a message can be read where the message says.
MovedIsReadable ==
    \A i \in DOMAIN pcPrompt.messages :
        LET m == pcPrompt.messages[i] IN
        /\ m.file # NoFile => pcFiles[m.file] = m.id
        /\ m.role # "summary" /\ m.file = NoFile => m = pcThread[m.id]

\* The prompt shows the newest state of every item the thread has recorded, as
\* long as the item is not too old and no overflow has dropped its message,
\* whatever the compaction has left out.
LedgerIsNewest ==
    pcTurn.pc = "call" /\ pcPrompt.trim = 0 =>
        \A i \in DOMAIN pcKnown :
            IF pcTurn.n - pcKnown[i].turn <= PcTTL
            THEN i \in DOMAIN pcPrompt.items /\ pcPrompt.items[i] = pcKnown[i]
            ELSE i \notin DOMAIN pcPrompt.items

\* Along a thread the turns and the count of its compactions never go back,
\* over restarts and failed turns as well.
TurnsAdvance ==
    \A i, j \in DOMAIN pcThread :
        i < j /\ NoState \notin {pcThread[i].state, pcThread[j].state} =>
            /\ pcThread[i].state.turn <= pcThread[j].state.turn
            /\ pcThread[i].state.comps <= pcThread[j].state.comps

\* No skill is listed twice, none is injected while it is fresh or beyond the
\* cap, and none that is left out of the list goes without mention.
SkillsAreSound ==
    LET p == pcPrompt IN
    pcTurn.pc = "call" =>
        /\ IsInjective(p.listed) /\ IsInjective(p.loaded)
        /\ FoldLeft(LAMBDA n, s : n + PcBody[s], 0, p.loaded) <= PcRealizeCap
        /\ \A s \in ToSet(p.loaded) \cap DOMAIN p.items : pcTurn.n - p.items[s].turn > PcStale
        /\ Skill \subseteq ToSet(p.listed) \/ p.hidden + pcPlan.rank.suppressed > 0

\* A skill is on record with everything it needs.
SkillsComeTogether ==
    pcPlan.prereqs =>
        \A s \in Skill \cap DOMAIN pcKnown : \A q \in PcPrereqs[s] \cap Skill :
            q \in DOMAIN pcKnown /\ pcKnown[q].turn >= pcKnown[s].turn

PcSound == /\ PromptIsSuffix /\ MovedIsReadable /\ LedgerIsNewest /\ TurnsAdvance /\ SkillsAreSound
           /\ SkillsComeTogether
=============================================================================
