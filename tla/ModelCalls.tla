----------------------------- MODULE ModelCalls -----------------------------
(***************************************************************************)
(* The model side of one turn: the model is chosen, called, retried and    *)
(* replaced, its output streams into the parts of one message, and the     *)
(* message is finalized, also when the turn fails.                         *)
(*                                                                         *)
(* A text is a sequence of chunks [call, word]: the attempt that produced  *)
(* it is a history variable, only the word is compared.  What approves and *)
(* runs a tool, and the journal, are in ToolApproval and TurnRecovery.     *)
(***************************************************************************)
LOCAL INSTANCE Integers
LOCAL INSTANCE FiniteSets
LOCAL INSTANCE Sequences
LOCAL INSTANCE SequencesExt

CONSTANTS
    MdlModel,          \* the registry, in order of declaration
    MdlVision,         \* its models with vision
    MdlDefault, NoName,
    MdlTurn,           \* turns: their pinned model, image, and streaming
    MdlReply,          \* replies: reasoning, text and call ids
    MdlEffect,         \* what a tool may pin, inject and emit
    MdlFailure,        \* kinds of failure a call may meet
    MaxTransient,      \* retries of a transient failure
    MaxModelAttempts,  \* models that may fail in a row
    MdlCallBudget,     \* bound: provider calls of the turn
    MdlPublishFaults   \* bound: events the publisher refuses

maxOverflowRetries == 2

VARIABLES
    mdlTurn, mdlPc,
    mdlModel, mdlSticky,
    mdlRequired,       \* whether the turn needs vision
    mdlTry,            \* trims, transient retries and failed models of this call
    mdlOut,            \* the streamer: parts shown and text not yet flushed
    mdlReply,          \* the reply that is being produced
    mdlHistory,        \* the parts of the session's messages, this turn's
    mdlLog,            \* every provider call
    mdlFaults

mdlVars == <<mdlTurn, mdlPc, mdlModel, mdlSticky, mdlRequired, mdlTry, mdlOut, mdlReply,
             mdlHistory, mdlLog, mdlFaults>>

NoTry == [trim |-> 0, transient |-> 0, attempts |-> <<>>]
NoReply == [left |-> <<>>, at |-> <<>>, parts |-> <<>>, calls |-> <<>>]

MdlInit ==
    /\ mdlTurn \in MdlTurn
    /\ mdlPc = "start"
    /\ mdlModel = NoName
    /\ mdlSticky = mdlTurn.pinned
    /\ mdlRequired = FALSE
    /\ mdlTry = NoTry
    /\ mdlOut = [parts |-> <<>>, pending |-> <<>>, at |-> 0]
    /\ mdlReply = NoReply
    /\ mdlHistory = <<>>
    /\ mdlLog = <<>>
    /\ mdlFaults = MdlPublishFaults

-----------------------------------------------------------------------------
\* Choosing a model.
Satisfies(m, vision) == m \in ToSet(MdlModel) /\ (vision => m \in MdlVision)

Capable(vision) == SelectSeq(MdlModel, LAMBDA m : Satisfies(m, vision))

\* CapabilityDefault, which offers nothing after a failure.
SelectModel(vision) ==
    IF Satisfies(MdlDefault, vision) \/ Capable(vision) = <<>>
    THEN MdlDefault ELSE Head(Capable(vision))

resolveTurnModel(vision) ==
    IF mdlTurn.override # NoName THEN mdlTurn.override
    ELSE IF mdlSticky # NoName /\ Satisfies(mdlSticky, vision) THEN mdlSticky
    ELSE SelectModel(vision)

escalateModel(vision, current) ==
    IF Satisfies(current, vision) THEN current ELSE SelectModel(vision)

\* The loop adopts a model that was pinned meanwhile.
Adopted(model, vision) ==
    IF mdlSticky # NoName /\ Satisfies(mdlSticky, vision) THEN mdlSticky ELSE model

-----------------------------------------------------------------------------
\* The streamer.
Words(p) == [i \in DOMAIN p.text |-> p.text[i].word]
containsEquivalentPart(parts, p) ==
    \E i \in DOMAIN parts :
        IF p.id # NoName THEN parts[i].id = p.id
        ELSE parts[i].type = p.type /\ parts[i].id = NoName /\ Words(parts[i]) = Words(p)

flushPending(out) ==
    IF out.pending = <<>> THEN out
    ELSE [out EXCEPT !.parts[out.at].text = @ \o out.pending, !.pending = <<>>]

appendPart(out, p) == [flushPending(out) EXCEPT !.parts = Append(@, p)]

appendUnstreamed(out, p) ==
    IF containsEquivalentPart(flushPending(out).parts, p) THEN flushPending(out)
    ELSE appendPart(out, p)

\* A plausible mistake: text for another part joins what is still pending.
tokenDeltaJoins(out, at, chunk) ==
    LET held == [out EXCEPT !.at = at, !.pending = Append(@, chunk)]
    IN  {held, flushPending(held)}

\* The text waits until the flush interval is over, or is published at once.
tokenDelta(out, at, chunk) ==
    LET ready == IF out.pending # <<>> /\ out.at # at THEN flushPending(out) ELSE out
        held == [ready EXCEPT !.at = at, !.pending = Append(@, chunk)]
    IN  {held, flushPending(held)}

\* The streamer after an event its publisher refused: the text or the part is lost.
Refused(out) == {[out EXCEPT !.pending = <<>>], flushPending(out)}

\* A part with an id replaces the one that was shown under it.
UpsertPart(out, p) ==
    LET same == {i \in DOMAIN out.parts : out.parts[i].id = p.id}
    IN  IF p.id = NoName \/ same = {} THEN appendPart(out, p)
        ELSE [flushPending(out) EXCEPT !.parts[CHOOSE i \in same : TRUE].text = p.text]

\* What finalize shows of a message that has not been streamed.
Finalized(out, content) ==
    FoldLeft(LAMBDA o, p : appendUnstreamed(o, p), flushPending(out), content)

terminalHistoryMessage(parts, history) ==
    FoldLeft(LAMBDA novel, p : IF containsEquivalentPart(history \o novel, p) THEN novel
                               ELSE Append(novel, p), <<>>, parts)

Part(type, id, text) == [type |-> type, id |-> id, text |-> text]
RetryPart == Part("dynamic", "provider-retry", <<>>)

-----------------------------------------------------------------------------
MdlStart ==
    /\ mdlPc = "start"
    /\ mdlRequired' = mdlTurn.image
    /\ mdlModel' = resolveTurnModel(mdlTurn.image)
    /\ mdlPc' = "loop"
    /\ UNCHANGED <<mdlTurn, mdlSticky, mdlTry, mdlOut, mdlReply, mdlHistory, mdlLog, mdlFaults>>

\* The top of the provider loop; steering may bring an image.
MdlTop(image) ==
    LET vision == mdlRequired \/ image
        model == IF vision = mdlRequired THEN mdlModel ELSE escalateModel(vision, mdlModel)
    IN  /\ mdlPc = "loop"
        /\ mdlRequired' = vision
        /\ mdlModel' = Adopted(model, vision)
        /\ mdlTry' = NoTry
        /\ mdlPc' = "call"
        /\ UNCHANGED <<mdlTurn, mdlSticky, mdlOut, mdlReply, mdlHistory, mdlLog, mdlFaults>>

\* What the provider streams of a reply, reasoning and text in turns, and the
\* message it returns.
Reply(n, r) ==
    LET Text(type, word) ==
            IF word = NoName THEN <<>>
            ELSE <<Part(type, NoName, <<[call |-> n, word |-> word], [call |-> n, word |-> word]>>)>>
        parts == Text("reasoning", r.think) \o Text("text", r.say)
        Deltas(k) == [i \in DOMAIN parts |-> [type |-> parts[i].type, chunk |-> parts[i].text[k]]]
    IN  [left |-> IF mdlTurn.streaming THEN Deltas(1) \o Deltas(2) ELSE <<>>,
         at |-> <<>>, parts |-> parts, calls |-> r.calls]

\* invokeProvider.
MdlCall(r) ==
    /\ mdlPc = "call"
    /\ Len(mdlLog) < MdlCallBudget
    /\ mdlReply' = Reply(Len(mdlLog) + 1, r)
    /\ mdlLog' = Append(mdlLog, [model |-> mdlModel, vision |-> mdlRequired, try |-> mdlTry])
    /\ mdlPc' = "stream"
    /\ UNCHANGED <<mdlTurn, mdlModel, mdlSticky, mdlRequired, mdlTry, mdlOut, mdlHistory, mdlFaults>>

\* A delta goes to the part of its kind, which the first one opens.
MdlDelta ==
    LET d == Head(mdlReply.left)
        opened == {i \in ToSet(mdlReply.at) : mdlOut.parts[i].type = d.type}
        out == IF opened = {} THEN appendPart(mdlOut, Part(d.type, NoName, <<>>)) ELSE mdlOut
        at == IF opened = {} THEN Len(out.parts) ELSE CHOOSE i \in opened : TRUE
    IN  /\ mdlPc = "stream" /\ mdlReply.left # <<>>
        /\ \E next \in tokenDelta(out, at, d.chunk) : mdlOut' = next
        /\ mdlReply' = [mdlReply EXCEPT !.left = Tail(@),
                                        !.at = IF opened = {} THEN Append(@, at) ELSE @]
        /\ UNCHANGED <<mdlTurn, mdlPc, mdlModel, mdlSticky, mdlRequired, mdlTry, mdlHistory,
                       mdlLog, mdlFaults>>

Transient(kind) == kind = "server"
Surfaced(kind) == kind \in {"auth", "bad_request"}

MayTrim(kind) == kind = "context_overflow" /\ mdlTry.trim < maxOverflowRetries
                 /\ mdlHistory # <<>>
MayRetry(kind) == Transient(kind) /\ mdlTry.transient < MaxTransient

\* A plausible mistake: a fallback starts with the budgets of the failed model
\* and forgets which models have failed.
FallenBackAfresh(next) == NoTry

FallenBack(next) ==
    [NoTry EXCEPT !.attempts = Append(mdlTry.attempts, mdlModel)]

\* The call fails, possibly after part of its text was shown: the history is
\* trimmed, the call is made again, another model takes over, or the turn fails.
MdlFail(kind) ==
    /\ mdlPc = "stream"
    /\ \/ /\ MayTrim(kind)
          /\ mdlTry' = [mdlTry EXCEPT !.trim = @ + 1]
          /\ mdlModel' = mdlModel
          /\ mdlPc' = "call" /\ mdlOut' = UpsertPart(mdlOut, RetryPart)
       \/ /\ ~MayTrim(kind) /\ MayRetry(kind)
          /\ mdlTry' = [mdlTry EXCEPT !.transient = @ + 1]
          /\ mdlModel' = mdlModel
          /\ mdlPc' = "call" /\ mdlOut' = UpsertPart(mdlOut, RetryPart)
       \/ /\ ~MayTrim(kind) /\ ~MayRetry(kind) /\ ~Surfaced(kind)
          /\ Len(mdlTry.attempts) + 1 < MaxModelAttempts
          /\ \E next \in ToSet(MdlModel) \ (ToSet(mdlTry.attempts) \cup {mdlModel}) :
                mdlModel' = next /\ mdlTry' = FallenBack(next)
          /\ mdlPc' = "call" /\ mdlOut' = UpsertPart(mdlOut, RetryPart)
       \/ /\ ~MayTrim(kind) /\ ~MayRetry(kind)
          /\ mdlPc' = "failed"
          /\ UNCHANGED <<mdlTry, mdlModel, mdlOut>>
    /\ mdlReply' = NoReply
    /\ UNCHANGED <<mdlTurn, mdlSticky, mdlRequired, mdlHistory, mdlLog, mdlFaults>>

\* The reply is complete: it is appended to the session, and what was not
\* streamed of it is shown before its tools run.
MdlReplied ==
    LET Call(id) == Part("tool_call", id, <<>>)
        content == mdlReply.parts \o [i \in DOMAIN mdlReply.calls |-> Call(mdlReply.calls[i])]
    IN  /\ mdlPc = "stream" /\ mdlReply.left = <<>>
        /\ mdlHistory' = mdlHistory \o content
        /\ mdlReply' = [mdlReply EXCEPT !.parts = content, !.at = <<>>]
        /\ mdlPc' = IF mdlReply.calls = <<>> THEN "final" ELSE "tools"
        /\ mdlOut' = IF mdlReply.calls = <<>> THEN mdlOut
                     ELSE FoldLeft(LAMBDA o, p : appendUnstreamed(o, p), mdlOut, mdlReply.parts)
        /\ UNCHANGED <<mdlTurn, mdlModel, mdlSticky, mdlRequired, mdlTry, mdlLog, mdlFaults>>

\* The next call: shown, invoked, its result recorded and shown.  A tool may
\* emit a part of its own, pin a model, or bring an image into the context.
MdlTool(effect) ==
    LET id == Head(mdlReply.calls)
        shown == appendUnstreamed(mdlOut, Part("tool_call", id, <<>>))
        emitted == IF effect.emits = NoName THEN shown
                   ELSE UpsertPart(shown, Part("dynamic", effect.emits, <<>>))
        result == Part("tool_result", NoName, <<[call |-> Len(mdlLog), word |-> id]>>)
        vision == mdlRequired \/ effect.image
    IN  /\ mdlPc = "tools" /\ mdlReply.calls # <<>>
        /\ mdlOut' = appendPart(emitted, result)
        /\ mdlHistory' = Append(mdlHistory, result)
        /\ mdlSticky' = IF effect.pin = NoName THEN mdlSticky ELSE effect.pin
        /\ mdlRequired' = vision
        /\ mdlModel' = IF vision = mdlRequired THEN mdlModel ELSE escalateModel(vision, mdlModel)
        /\ mdlReply' = IF Len(mdlReply.calls) = 1 THEN NoReply
                       ELSE [mdlReply EXCEPT !.calls = Tail(@)]
        /\ mdlPc' = IF Len(mdlReply.calls) = 1 THEN "loop" ELSE "tools"
        /\ UNCHANGED <<mdlTurn, mdlTry, mdlLog, mdlFaults>>

\* The turn's context is cancelled, or a store or a tool fails it.
MdlAbort ==
    /\ mdlPc \in {"loop", "call", "stream", "tools"}
    /\ mdlPc' = "failed"
    /\ UNCHANGED <<mdlTurn, mdlModel, mdlSticky, mdlRequired, mdlTry, mdlOut, mdlReply,
                   mdlHistory, mdlLog, mdlFaults>>

\* The publisher refuses an event of the loop.
MdlRefuse ==
    /\ mdlPc \in {"stream", "tools"}
    /\ mdlFaults > 0 /\ mdlFaults' = mdlFaults - 1
    /\ \E next \in Refused(mdlOut) : mdlOut' = next
    /\ mdlPc' = "failed"
    /\ UNCHANGED <<mdlTurn, mdlModel, mdlSticky, mdlRequired, mdlTry, mdlReply, mdlHistory, mdlLog>>

Durable(out) == SelectSeq(out.parts, LAMBDA p : p.type = "dynamic")

\* The turn ends well: what its last message holds and has not been shown is.
MdlFinalize ==
    /\ mdlPc = "final"
    /\ mdlOut' = Finalized(mdlOut, mdlReply.parts \o Durable(mdlOut))
    /\ mdlPc' = "done"
    /\ UNCHANGED <<mdlTurn, mdlModel, mdlSticky, mdlRequired, mdlTry, mdlReply, mdlHistory,
                   mdlLog, mdlFaults>>

\* The turn fails: what was shown is finalized, and what of it the session
\* does not hold yet is appended as the terminal message.
finalizePartialTurn ==
    LET out == Finalized(mdlOut, Durable(mdlOut)) IN
    /\ mdlPc = "failed"
    /\ mdlOut' = out
    /\ mdlHistory' = mdlHistory \o terminalHistoryMessage(out.parts, mdlHistory)
    /\ mdlPc' = "partial"
    /\ UNCHANGED <<mdlTurn, mdlModel, mdlSticky, mdlRequired, mdlTry, mdlReply, mdlLog, mdlFaults>>

MdlNext ==
    \/ MdlStart \/ MdlDelta \/ MdlReplied \/ MdlAbort \/ MdlRefuse \/ MdlFinalize
    \/ finalizePartialTurn
    \/ \E image \in BOOLEAN : MdlTop(image)
    \/ \E r \in MdlReply : MdlCall(r)
    \/ \E kind \in MdlFailure : MdlFail(kind)
    \/ \E effect \in MdlEffect : MdlTool(effect)

-----------------------------------------------------------------------------
MdlTypeOK ==
    /\ mdlPc \in {"start", "loop", "call", "stream", "tools", "final", "done", "failed", "partial"}
    /\ mdlModel \in ToSet(MdlModel) \cup {NoName}
    /\ mdlTry.trim \in 0..maxOverflowRetries /\ mdlTry.transient \in 0..MaxTransient
    /\ mdlOut.at \in 0..Len(mdlOut.parts)

\* A part of text holds text of one attempt, in the order it was sent: the
\* coalescing of deltas never lets text reach the part of another kind or of
\* another call.
PartsAreUnmixed ==
    \A i \in DOMAIN mdlOut.parts : \A j, k \in DOMAIN mdlOut.parts[i].text :
        mdlOut.parts[i].text[j] = mdlOut.parts[i].text[k]

\* What the model said is what the user is left with: at the end of a turn
\* the final message shows every part of every message the turn appended, and
\* holds nothing back.  After a failure the transcript and the final message
\* have the same parts, each once.
MdlOutputWhole ==
    /\ PartsAreUnmixed
    /\ mdlPc \in {"done", "partial"} => mdlOut.pending = <<>>
    /\ mdlPc = "done" =>
          \A i \in DOMAIN mdlHistory : containsEquivalentPart(mdlOut.parts, mdlHistory[i])
    /\ mdlPc = "partial" =>
          \A i \in DOMAIN mdlOut.parts : containsEquivalentPart(mdlHistory, mdlOut.parts[i])

\* Recovery ends: no model is called again in a call after it was given up,
\* no model is called more often than its budgets allow, and no more models
\* are tried than the limit.
RecoveryIsBounded ==
    \A i \in DOMAIN mdlLog :
        LET t == mdlLog[i].try IN
        /\ \A j \in DOMAIN t.attempts : t.attempts[j] # mdlLog[i].model
        /\ IsInjective(t.attempts) /\ Len(t.attempts) < MaxModelAttempts
        /\ Cardinality({j \in 1..i : /\ mdlLog[j].model = mdlLog[i].model
                                      /\ mdlLog[j].try.attempts = t.attempts
                                      /\ \A k \in j..i : mdlLog[k].try # NoTry \/ k = j})
             <= 1 + MaxTransient + maxOverflowRetries

\* A model without vision is not called with an image in the context when
\* the registry has one with vision, unless this or an earlier call fell back
\* to it or the turn was started with that very model.
ImagesAreSeen ==
    \A i \in DOMAIN mdlLog :
        mdlLog[i].vision /\ (\A j \in 1..i : mdlLog[j].try.attempts = <<>>) =>
            \/ Satisfies(mdlLog[i].model, TRUE) \/ MdlVision = {}
            \/ mdlTurn.image /\ mdlTurn.override = mdlLog[i].model

MdlCallsSound == RecoveryIsBounded /\ ImagesAreSeen

-----------------------------------------------------------------------------
(***************************************************************************)
(* One request to a model over HTTP: the transcript is repaired and split  *)
(* into the messages a provider accepts, the answer is read as it streams, *)
(* and a failure is given the kind that decides whether it is retried.     *)
(* The calls above see only what comes of it.                              *)
(*                                                                         *)
(* The native wire format is read by the harness itself; for the other     *)
(* ones a library keeps the timers and assembles the answer, of which only *)
(* the deltas and the failures are modelled.                               *)
(***************************************************************************)
CONSTANTS
    PsHistories,       \* transcripts as compaction and cancellation leave them
    PsChunks,          \* what a line of the stream may carry
    PsLines,           \* bound: lines of a stream
    PsStatus,          \* HTTP statuses of a refusal
    NoText, NoId

VARIABLES
    psFormat,          \* native or shared
    psUsage,           \* the usage chunk at the end was asked for
    psHistory, psRequest,
    psPc,              \* prepare, open, reading, returned, failed
    psGot,             \* the lines received
    psDeltas,          \* the deltas handed to the turn
    psAnswer,          \* the message returned
    psFailure          \* what went wrong, and the error returned

psVars == <<psFormat, psUsage, psHistory, psRequest, psPc, psGot, psDeltas, psAnswer, psFailure>>

NoFailure == [what |-> "none", kind |-> "none"]
EmptyAnswer == [think |-> <<>>, say |-> <<>>, tools |-> <<>>, usage |-> FALSE]

PsInit ==
    /\ psFormat \in {"native", "shared"} /\ psUsage \in BOOLEAN
    /\ psHistory \in PsHistories
    /\ psRequest = <<>>
    /\ psPc = "prepare"
    /\ psGot = <<>> /\ psDeltas = <<>>
    /\ psAnswer = EmptyAnswer
    /\ psFailure = NoFailure

-----------------------------------------------------------------------------
\* The request.  A message is a sequence of parts: text, or a call or a
\* result with the id of its call.
IdsOf(history, kind) ==
    {p.id : p \in {p \in UNION {ToSet(m) : m \in ToSet(history)} : p.kind = kind}}

\* A plausible mistake: only results without a call are looked for.
KeepsAnyCall(history, p) == p.kind = "result" => p.id \in IdsOf(history, "call")

Keeps(history, p) ==
    /\ p.kind = "call" => p.id \in IdsOf(history, "result")
    /\ p.kind = "result" => p.id \in IdsOf(history, "call")

\* Calls without a result and results without a call are left out, and the
\* messages that are empty then.
sanitizeTranscript(history) ==
    LET Kept(m) == SelectSeq(m, LAMBDA p : Keeps(history, p))
    IN  SelectSeq([i \in DOMAIN history |-> Kept(history[i])], LAMBDA m : m # <<>>)

\* Where a segment ends: before and after every result.
Cuts(m, i) == i = Len(m) \/ m[i].kind = "result" \/ m[i + 1].kind = "result"

Segments(m) ==
    LET ends == SetToSortSeq({i \in DOMAIN m : Cuts(m, i)}, <)
    IN  [k \in DOMAIN ends |-> SubSeq(m, IF k = 1 THEN 1 ELSE ends[k - 1] + 1, ends[k])]

\* A result becomes a message of its own; a shared request only.
expandToolResultMessages(history) == FlattenSeq([i \in DOMAIN history |-> Segments(history[i])])

PsPrepare ==
    LET repaired == sanitizeTranscript(psHistory) IN
    /\ psPc = "prepare"
    /\ psRequest' = IF psFormat = "native" THEN repaired ELSE expandToolResultMessages(repaired)
    /\ psPc' = "open"
    /\ UNCHANGED <<psFormat, psUsage, psHistory, psGot, psDeltas, psAnswer, psFailure>>

-----------------------------------------------------------------------------
\* Failures.
classifyHTTP(status) ==
    CASE status \in {400, 422} -> "bad_request"
      [] status \in {401, 403} -> "auth"
      [] status = 408 -> "timeout"
      [] status = 413 -> "context_overflow"
      [] status = 429 -> "rate_limit"
      [] status \in {503, 529} -> "overloaded"
      [] status >= 500 /\ status \notin {503, 529} -> "server"
      [] OTHER -> "unknown"

\* The native client's own timers cancel its context: what comes of them is
\* told apart from the user's cancellation nowhere.
classifyTransport(what) ==
    CASE what \in {"cancel", "stall"} -> "canceled"
      [] what = "timeout" -> "timeout"
      [] OTHER -> "network"

classifySharedClientError(what) ==
    CASE what = "cancel" -> "canceled"
      [] what \in {"stall", "timeout"} -> "timeout"
      [] OTHER -> "network"

\* A failure while the answer is read is no provider failure in the native format.
KindOf(what) ==
    CASE psFormat = "shared" -> classifySharedClientError(what)
      [] psFormat = "native" /\ psPc = "open" -> classifyTransport(what)
      [] psFormat = "native" /\ psPc = "reading" -> "read"

Fails(what, kind) ==
    /\ psPc' = "failed" /\ psFailure' = [what |-> what, kind |-> kind]
    /\ UNCHANGED <<psFormat, psUsage, psHistory, psRequest, psGot, psDeltas, psAnswer>>

PsRefused(status) == psPc = "open" /\ Fails("status", classifyHTTP(status))

\* The user cancels, a timer runs out, the connection breaks or times out.
PsBreaks(what) ==
    /\ psPc \in {"open", "reading"}
    /\ what = "timeout" => psPc = "open"
    /\ Fails(what, KindOf(what))

\* The stream reports an error: the native reader does not know such a line.
PsErrorEvent ==
    /\ psPc = "reading" /\ psFormat = "shared"
    /\ Fails("event", "server")

\* The turn refuses a delta.
PsDeltaRefused == psPc = "reading" /\ Fails("refused", "refused")

-----------------------------------------------------------------------------
\* The stream.
PsOpen ==
    /\ psPc = "open" /\ psPc' = "reading"
    /\ UNCHANGED <<psFormat, psUsage, psHistory, psRequest, psGot, psDeltas, psAnswer, psFailure>>

DeltasOf(c) ==
    (IF c.think = NoText THEN <<>> ELSE <<[kind |-> "think", text |-> c.think]>>) \o
    (IF c.say = NoText THEN <<>> ELSE <<[kind |-> "say", text |-> c.say]>>)

\* The usage line has nothing else in it.
IsUsage(c) == c.usage

\* Whether the reader stops after a line: at the usage it asked for, else at
\* the model's finish signal, which may come with the last of the content.
Ends(c) == IF psUsage THEN IsUsage(c) ELSE c.finish

Texts(lines, kind) ==
    LET deltas == FlattenSeq([i \in DOMAIN lines |-> DeltasOf(lines[i])])
        own == SelectSeq(deltas, LAMBDA d : d.kind = kind)
    IN  [i \in DOMAIN own |-> own[i].text]

\* The fragments of a call are put together by its index; the id is the last
\* one sent, else it is made from the position.
CallsOf(lines) ==
    LET indexes == {lines[i].call.index : i \in {i \in DOMAIN lines : lines[i].call # NoId}}
        order == SetToSortSeq(indexes, <)
        Of(index) == SelectSeq(lines, LAMBDA c : c.call # NoId /\ c.call.index = index)
        Named(index) == SelectSeq(Of(index), LAMBDA c : c.call.id # NoId)
    IN  [k \in DOMAIN order |->
            [id |-> IF Named(order[k]) = <<>> THEN <<"call", k>>
                    ELSE <<"given", Last(Named(order[k])).call.id>>,
             args |-> [i \in DOMAIN Of(order[k]) |-> Of(order[k])[i].call.args]]]

\* A plausible mistake: the line with the finish signal is not drained.
AnswerOfAllButLast(lines) ==
    [think |-> Texts(Front(lines), "think"), say |-> Texts(Front(lines), "say"),
     tools |-> CallsOf(Front(lines)), usage |-> \E i \in DOMAIN lines : IsUsage(lines[i])]

AnswerOf(lines) ==
    [think |-> Texts(lines, "think"), say |-> Texts(lines, "say"), tools |-> CallsOf(lines),
     usage |-> \E i \in DOMAIN lines : IsUsage(lines[i])]

PsReceive(c) ==
    LET got == Append(psGot, c) IN
    /\ psPc = "reading" /\ Len(psGot) < PsLines
    /\ psGot' = got
    /\ psDeltas' = psDeltas \o DeltasOf(c)
    /\ IF psFormat = "native" /\ Ends(c)
       THEN psPc' = "returned" /\ psAnswer' = AnswerOf(got)
       ELSE UNCHANGED <<psPc, psAnswer>>
    /\ UNCHANGED <<psFormat, psUsage, psHistory, psRequest, psFailure>>

\* The last line of the protocol, or the end of the body.
PsEnd ==
    /\ psPc = "reading" /\ psGot # <<>>
    /\ psPc' = "returned"
    /\ psAnswer' = IF psFormat = "native" THEN AnswerOf(psGot) ELSE psAnswer
    /\ UNCHANGED <<psFormat, psUsage, psHistory, psRequest, psGot, psDeltas, psFailure>>

PsNext ==
    \/ PsPrepare \/ PsOpen \/ PsErrorEvent \/ PsDeltaRefused \/ PsEnd
    \/ \E status \in PsStatus : PsRefused(status)
    \/ \E what \in {"cancel", "stall", "broken", "timeout"} : PsBreaks(what)
    \/ \E c \in PsChunks : PsReceive(c)

-----------------------------------------------------------------------------
PsTypeOK ==
    /\ psPc \in {"prepare", "open", "reading", "returned", "failed"}
    /\ Len(psGot) <= PsLines
    /\ psPc = "failed" <=> psFailure # NoFailure

PartsOf(messages) == FlattenSeq(messages)

\* A provider takes the request: every result comes after its call and every
\* call has a result after it, whatever was trimmed from the front of the
\* transcript or lost from it, and nothing that was paired is missing.
RequestIsPaired ==
    psPc # "prepare" =>
        LET parts == PartsOf(psRequest)
            Pair(i, j) == parts[i].kind = "call" /\ parts[j].kind = "result"
                          /\ parts[i].id = parts[j].id
        IN  /\ \A i \in DOMAIN parts :
                  /\ parts[i].kind = "call" => \E j \in i + 1..Len(parts) : Pair(i, j)
                  /\ parts[i].kind = "result" => \E j \in 1..i - 1 : Pair(j, i)
            /\ parts = PartsOf(sanitizeTranscript(psHistory))
            /\ psFormat = "shared" => \A k \in DOMAIN psRequest :
                  Len(psRequest[k]) > 1 => \A i \in DOMAIN psRequest[k] :
                                               psRequest[k][i].kind # "result"

\* The message that goes into the history is what the user has seen, and its
\* calls can be told apart.
AnswerIsWhatStreamed ==
    psPc = "returned" /\ psFormat = "native" =>
        LET Seen(kind) == SelectSeq(psDeltas, LAMBDA d : d.kind = kind)
            Same(texts, seen) == texts = [i \in DOMAIN seen |-> seen[i].text]
        IN  /\ Same(psAnswer.think, Seen("think")) /\ Same(psAnswer.say, Seen("say"))
            /\ \A i, j \in DOMAIN psAnswer.tools :
                  i # j => psAnswer.tools[i].id # psAnswer.tools[j].id
            /\ {c.call.index : c \in {c \in ToSet(psGot) : c.call # NoId}} # {} =>
                  psAnswer.tools # <<>>

\* An answer the model has finished is not lost to what happens on the
\* connection afterwards.
FinishedIsReturned ==
    (\E c \in ToSet(psGot) : c.finish) /\ psFormat = "native" /\ ~psUsage => psPc = "returned"

PsRequestSound == RequestIsPaired /\ AnswerIsWhatStreamed /\ FinishedIsReturned
=============================================================================
