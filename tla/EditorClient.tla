----------------------------- MODULE EditorClient -----------------------------
(***************************************************************************)
(* pkg/channels/acp: an editor drives the worker over one pair of pipes.   *)
(* Its prompts become turns, and a prompt's response is written when a     *)
(* final message is published on the thread of its session.  In the other  *)
(* direction the worker asks the editor for permission, for its files and  *)
(* for its terminals; one loop reads both the editor's requests and its    *)
(* responses.                                                              *)
(*                                                                         *)
(* A turn is the sequence of what it asks the editor; which turn of a      *)
(* thread runs is the runtime's choice (module TurnRuntime).  The code     *)
(* keys the response of a prompt by its session only: ecPast records where *)
(* turns of one session overlapped, and where a request cannot be settled. *)
(***************************************************************************)
EXTENDS Integers, Sequences, FiniteSets, Functions

CONSTANTS
    EcPlans,      \* what one run does: prompts, work, capabilities, bounds
    EcSession,    \* the sessions of the connection
    EcNotice,     \* the turn that tells a thread of its background child
    NoEcPrompt, NoEcReply

VARIABLES
    ecPlan,       \* the plan of this run
    ecWire,       \* what the editor has written and the worker not read
    ecOpen,       \* the worker's requests the editor has not answered
    ecCaps,       \* Channel.caps
    ecSess,       \* Channel.byID
    ecTurn,       \* the turns, by task id
    ecPending,    \* conn.pending, with what each channel holds
    ecSeq,        \* conn.callSeq
    ecAnswers,    \* the responses written to each prompt
    ecTerminals,  \* the editor's terminals, by the task that created them
    ecDown,       \* Serve has returned
    ecPast        \* what the code itself has let happen

ecVars == <<ecPlan, ecWire, ecOpen, ecCaps, ecSess, ecTurn, ecPending, ecSeq, ecAnswers,
            ecTerminals, ecDown, ecPast>>

EcPrompt == DOMAIN ecPlan.prompts
EcTask == EcPrompt \cup {EcNotice}
SessionOf(t) == IF t = EcNotice THEN ecPlan.prompts[1] ELSE ecPlan.prompts[t]

EcKinds == {"permission", "read", "write", "create", "wait", "output", "release"}
EcActive == {"running", "asked", "awaiting", "calling", "next"}
Alive(t) == ecTurn[t].pc \in EcActive \cup {"queued"}
Busy(s) == {t \in EcTask : SessionOf(t) = s /\ ecTurn[t].pc \in EcActive}
Unanswered(s) == {p \in EcPrompt : SessionOf(p) = s /\ ecTurn[p].pc # "none" /\ ecAnswers[p] = <<>>}

EcIdle == [pc |-> "none", at |-> 1, doing |-> "none", call |-> 0, ctx |-> TRUE, grant |-> NoEcReply]
EcNewSession == [promptID |-> NoEcPrompt, resolved |-> FALSE, taskID |-> NoEcPrompt, prompted |-> {}]

EcInit ==
    /\ ecPlan \in EcPlans
    /\ ecWire = <<[op |-> "initialize"]>>
    /\ ecOpen = {}
    /\ ecCaps = {}
    /\ ecSess = [s \in EcSession |-> EcNewSession]
    /\ ecTurn = [t \in EcTask |-> EcIdle]
    /\ ecPending = {}
    /\ ecSeq = 0
    /\ ecAnswers = [p \in EcPrompt |-> <<>>]
    /\ ecTerminals = {}
    /\ ecDown = FALSE
    /\ ecPast = [sent |-> {}, mixed |-> {}, silent |-> {}, unasked |-> {}, early |-> {},
                 leaked |-> {}, cancelled |-> {}, said |-> {}]

-----------------------------------------------------------------------------
\* The editor.
EcSay(m) == ecWire' = Append(ecWire, m)

EcSendPrompt(p) ==
    /\ p \notin ecPast.sent /\ p = Cardinality(ecPast.sent) + 1 /\ Len(ecWire) < 2
    /\ ecPlan.overlap \/ Unanswered(SessionOf(p)) = {}
    /\ EcSay([op |-> "prompt", p |-> p])
    /\ ecPast' = [ecPast EXCEPT !.sent = @ \cup {p}]
    /\ UNCHANGED <<ecPlan, ecOpen, ecCaps, ecSess, ecTurn, ecPending, ecSeq, ecAnswers, ecTerminals, ecDown>>

EcSendCancel(s) ==
    /\ ecPlan.cancel /\ s \notin ecPast.cancelled /\ Unanswered(s) # {} /\ Len(ecWire) < 2
    /\ EcSay([op |-> "cancel", s |-> s])
    /\ ecPast' = [ecPast EXCEPT !.cancelled = @ \cup {s}]
    /\ UNCHANGED <<ecPlan, ecOpen, ecCaps, ecSess, ecTurn, ecPending, ecSeq, ecAnswers, ecTerminals, ecDown>>

\* The editor answers the worker's requests in any order, or with an error; a
\* terminal it creates lives until it is released.
EcReply(r) ==
    \E ok \in BOOLEAN :
        /\ Len(ecWire) < 2
        /\ ~ok => r.kind \in {"permission"} \cup ecPlan.errors
        /\ EcSay([op |-> "reply", id |-> r.id, of |-> r.of, kind |-> r.kind, ok |-> ok])
        /\ ecOpen' = ecOpen \ {r}
        /\ ecTerminals' = IF r.kind = "create" /\ ok THEN ecTerminals \cup {r.of}
                          ELSE IF r.kind = "release" THEN ecTerminals \ {r.of} ELSE ecTerminals
        /\ ecPast' = IF r.kind = "permission"
                     THEN [ecPast EXCEPT !.said = @ \cup {[of |-> r.of, at |-> r.at, ok |-> ok]}] ELSE ecPast
        /\ UNCHANGED <<ecPlan, ecCaps, ecSess, ecTurn, ecPending, ecSeq, ecAnswers, ecDown>>

-----------------------------------------------------------------------------
\* The prompt in flight of a session is answered, once.
resolvePrompt(s, reason) ==
    IF ecSess[s].resolved \/ ecSess[s].promptID = NoEcPrompt THEN UNCHANGED <<ecSess, ecAnswers>>
    ELSE /\ ecAnswers' = [ecAnswers EXCEPT ![ecSess[s].promptID] = Append(@, reason)]
         /\ ecSess' = [ecSess EXCEPT ![s].resolved = TRUE, ![s].promptID = NoEcPrompt]

\* Serve: what the editor wrote is read in order, a response is delivered to the
\* call that waits for its id, and anything else is dispatched.
Read(op) == ~ecDown /\ ecWire # <<>> /\ Head(ecWire).op = op /\ ecWire' = Tail(ecWire)

handleInitialize ==
    /\ Read("initialize")
    /\ ecCaps' = ecPlan.caps
    /\ UNCHANGED <<ecPlan, ecOpen, ecSess, ecTurn, ecPending, ecSeq, ecAnswers, ecTerminals, ecDown, ecPast>>

handlePrompt ==
    /\ Read("prompt")
    /\ LET p == Head(ecWire).p
           s == SessionOf(p)
           others == {t \in EcTask : SessionOf(t) = s /\ Alive(t)} IN
       /\ ecSess' = [ecSess EXCEPT ![s].promptID = p, ![s].resolved = FALSE, ![s].taskID = p]
       /\ ecTurn' = [ecTurn EXCEPT ![p].pc = "queued"]
       /\ ecPast' = IF others = {} THEN ecPast
                    ELSE [ecPast EXCEPT !.mixed = @ \cup {p} \cup Unanswered(s)]
    /\ UNCHANGED <<ecPlan, ecOpen, ecCaps, ecPending, ecSeq, ecAnswers, ecTerminals, ecDown>>

\* The canceller knows the turns that run; the prompt is answered at once.
handleCancel ==
    /\ Read("cancel")
    /\ LET s == Head(ecWire).s
           t == ecSess[s].taskID IN
       /\ ecTurn' = IF t # NoEcPrompt /\ ecTurn[t].pc \in EcActive
                    THEN [ecTurn EXCEPT ![t].ctx = FALSE] ELSE ecTurn
       /\ resolvePrompt(s, "cancelled")
    /\ UNCHANGED <<ecPlan, ecOpen, ecCaps, ecPending, ecSeq, ecTerminals, ecDown, ecPast>>

\* A response nobody waits for is answered with an error the editor drops.
deliver ==
    /\ Read("reply")
    /\ LET m == Head(ecWire)
           waiting == {c \in ecPending : c.id = m.id /\ c.got = NoEcReply} IN
       ecPending' = (ecPending \ waiting) \cup {[c EXCEPT !.got = m] : c \in waiting}
    /\ UNCHANGED <<ecPlan, ecOpen, ecCaps, ecSess, ecTurn, ecSeq, ecAnswers, ecTerminals, ecDown, ecPast>>

\* The editor closes its end: the loop returns and every turn's context ends.
EcClose ==
    /\ ecPlan.close /\ ~ecDown
    /\ ecDown' = TRUE
    /\ ecTurn' = [t \in EcTask |-> [ecTurn[t] EXCEPT !.ctx = FALSE]]
    /\ UNCHANGED <<ecPlan, ecWire, ecOpen, ecCaps, ecSess, ecPending, ecSeq, ecAnswers, ecTerminals, ecPast>>

-----------------------------------------------------------------------------
\* The turns.  A background child's notice is one more turn of its thread.
EcNotify ==
    /\ ecPlan.notice /\ ecTurn[EcNotice].pc = "none" /\ ~ecDown
    /\ ecTurn' = [ecTurn EXCEPT ![EcNotice].pc = "queued"]
    /\ ecPast' = [ecPast EXCEPT !.mixed = @ \cup Unanswered(SessionOf(EcNotice)) \cup
                                     {p \in EcPrompt : SessionOf(p) = SessionOf(EcNotice) /\ Alive(p)}]
    /\ UNCHANGED <<ecPlan, ecWire, ecOpen, ecCaps, ecSess, ecPending, ecSeq, ecAnswers, ecTerminals, ecDown>>

EcStart(t) ==
    /\ ecTurn[t].pc = "queued" /\ Busy(SessionOf(t)) = {} /\ ~ecDown
    /\ ecTurn' = [ecTurn EXCEPT ![t].pc = "running"]
    /\ UNCHANGED <<ecPlan, ecWire, ecOpen, ecCaps, ecSess, ecPending, ecSeq, ecAnswers, ecTerminals, ecDown, ecPast>>

\* A turn that runs takes the message of a later one: that one never runs.
EcSteered(t) ==
    /\ ecTurn[t].pc = "queued" /\ Busy(SessionOf(t)) # {}
    /\ ecTurn' = [ecTurn EXCEPT ![t].pc = "over"]
    /\ UNCHANGED <<ecPlan, ecWire, ecOpen, ecCaps, ecSess, ecPending, ecSeq, ecAnswers, ecTerminals, ecDown, ecPast>>

\* A turn that cannot load its history, or its goal, ends without a message.
EcFailsToStart(t) ==
    /\ ecPlan.fails /\ ecTurn[t].pc = "running" /\ ecTurn[t].at = 1 /\ ecTurn[t].doing = "none"
    /\ ecTurn' = [ecTurn EXCEPT ![t].pc = "over"]
    /\ ecPast' = [ecPast EXCEPT !.silent = @ \cup {t}]
    /\ UNCHANGED <<ecPlan, ecWire, ecOpen, ecCaps, ecSess, ecPending, ecSeq, ecAnswers, ecTerminals, ecDown>>

Work(t) == IF t = EcNotice \/ ecTurn[t].at > Len(ecPlan.work) THEN "none" ELSE ecPlan.work[ecTurn[t].at]
AtEase(t) == ecTurn[t].pc = "running" /\ ecTurn[t].doing = "none"

\* PublishEvent of the final message, also of a turn that was cancelled or failed.
EcFinish(t) ==
    /\ AtEase(t) /\ (Work(t) = "none" \/ ~ecTurn[t].ctx)
    /\ ecTurn' = [ecTurn EXCEPT ![t].pc = "over"]
    /\ resolvePrompt(SessionOf(t), "end_turn")
    /\ UNCHANGED <<ecPlan, ecWire, ecOpen, ecCaps, ecPending, ecSeq, ecTerminals, ecDown, ecPast>>

\* Without the editor's capability a tool runs here.
EcLocal(t) ==
    /\ AtEase(t) /\ ecTurn[t].ctx
    /\ \/ Work(t) = "edit" /\ "fs" \notin ecCaps
       \/ Work(t) = "command" /\ "terminal" \notin ecCaps
    /\ ecTurn' = [ecTurn EXCEPT ![t].at = @ + 1]
    /\ UNCHANGED <<ecPlan, ecWire, ecOpen, ecCaps, ecSess, ecPending, ecSeq, ecAnswers, ecTerminals, ecDown, ecPast>>

-----------------------------------------------------------------------------
\* Permission.  A request id the session was asked for is not asked again: the
\* goroutine of the call waits without a limit, the turn on the broker.
ReqID(t) == ecPlan.ids[t]

handleApprovalRequest(t) ==
    /\ AtEase(t) /\ ecTurn[t].ctx /\ Work(t) = "approve"
    /\ ecTurn' = [ecTurn EXCEPT ![t].pc = "asked", ![t].grant = NoEcReply]
    /\ LET s == SessionOf(t) IN
       IF ReqID(t) \in ecSess[s].prompted
       THEN /\ ecPast' = [ecPast EXCEPT !.unasked = @ \cup {t}]
            /\ UNCHANGED <<ecSess, ecPending, ecOpen, ecSeq>>
       ELSE /\ ecSess' = [ecSess EXCEPT ![s].prompted = @ \cup {ReqID(t)}]
            /\ ecSeq' = ecSeq + 1
            /\ ecPending' = ecPending \cup {[id |-> ecSeq + 1, of |-> t, kind |-> "permission", got |-> NoEcReply]}
            /\ ecOpen' = ecOpen \cup {[id |-> ecSeq + 1, of |-> t, kind |-> "permission", at |-> ecTurn[t].at]}
            /\ UNCHANGED ecPast
    /\ UNCHANGED <<ecPlan, ecWire, ecCaps, ecAnswers, ecTerminals, ecDown>>

EcAwait(t) ==
    /\ ecTurn[t].pc = "asked"
    /\ ecTurn' = [ecTurn EXCEPT ![t].pc = "awaiting"]
    /\ UNCHANGED <<ecPlan, ecWire, ecOpen, ecCaps, ecSess, ecPending, ecSeq, ecAnswers, ecTerminals, ecDown, ecPast>>

\* Only a selected option other than the rejection grants.
permissionDecision(c) == c.got.ok

\* Resolve: the decision reaches the turn that waits, or nobody.
requestPermission(c) ==
    /\ c.kind = "permission" /\ c.got # NoEcReply
    /\ ecPending' = ecPending \ {c}
    /\ IF ecTurn[c.of].pc = "awaiting"
       THEN ecTurn' = [ecTurn EXCEPT ![c.of].grant = permissionDecision(c)] /\ UNCHANGED ecPast
       ELSE /\ ecPast' = IF ecTurn[c.of].pc = "asked" THEN [ecPast EXCEPT !.early = @ \cup {c.of}] ELSE ecPast
            /\ UNCHANGED ecTurn
    /\ UNCHANGED <<ecPlan, ecWire, ecOpen, ecCaps, ecSess, ecSeq, ecAnswers, ecTerminals, ecDown>>

\* The turn goes on with the decision, or is given up with its context.
EcDecided(t) ==
    /\ ecTurn[t].pc = "awaiting" /\ (ecTurn[t].grant # NoEcReply \/ ~ecTurn[t].ctx)
    /\ ecTurn' = [ecTurn EXCEPT ![t].pc = "running", ![t].at = @ + 1]
    /\ UNCHANGED <<ecPlan, ecWire, ecOpen, ecCaps, ecSess, ecPending, ecSeq, ecAnswers, ecTerminals, ecDown, ecPast>>

-----------------------------------------------------------------------------
\* Files and terminals.
\* A request goes out under an id of its own and the turn waits for its answer.
connCall(t, kind) ==
    /\ ecPending' = ecPending \cup {[id |-> ecSeq + 1, of |-> t, kind |-> kind, got |-> NoEcReply]}
    /\ ecOpen' = ecOpen \cup {[id |-> ecSeq + 1, of |-> t, kind |-> kind, at |-> ecTurn[t].at]}
    /\ ecTurn' = [ecTurn EXCEPT ![t].pc = "calling", ![t].doing = kind, ![t].call = ecSeq + 1]
    /\ ecSeq' = ecSeq + 1

EcDelegate(t) ==
    /\ AtEase(t) /\ ecTurn[t].ctx
    /\ \/ Work(t) = "edit" /\ "fs" \in ecCaps /\ connCall(t, "read")
       \/ Work(t) = "command" /\ "terminal" \in ecCaps /\ connCall(t, "create")
    /\ UNCHANGED <<ecPlan, ecWire, ecCaps, ecSess, ecAnswers, ecTerminals, ecDown, ecPast>>

\* What EditFile and RunCommand call after a call: the text to replace may be
\* missing, and a terminal that was created is released whatever comes.
NextCalls(kind, ok) ==
    CASE kind = "read" -> IF ok THEN {"write", "none"} ELSE {"none"}
      [] kind = "create" -> IF ok THEN {"wait"} ELSE {"none"}
      [] kind = "wait" -> IF ok THEN {"output"} ELSE {"release"}
      [] kind = "output" -> {"release"}
      [] kind \in {"write", "release"} -> {"none"}

CallOf(t) == CHOOSE c \in ecPending : c.id = ecTurn[t].call /\ c.kind = ecTurn[t].doing

\* The call returns: with its answer, or with its context when that ends first.
EcReturn(t, ok) ==
    /\ ecPending' = ecPending \ {CallOf(t)}
    /\ ecTurn' = [ecTurn EXCEPT ![t].pc = "next", ![t].call = IF ok THEN 1 ELSE 0]

EcAnswered(t) ==
    /\ ecTurn[t].pc = "calling" /\ CallOf(t).got # NoEcReply
    /\ EcReturn(t, CallOf(t).got.ok)
    /\ UNCHANGED <<ecPlan, ecWire, ecOpen, ecCaps, ecSess, ecSeq, ecAnswers, ecTerminals, ecDown, ecPast>>

EcGivenUp(t) ==
    /\ ecTurn[t].pc = "calling" /\ ~ecTurn[t].ctx /\ ecTurn[t].doing # "release"
    /\ EcReturn(t, FALSE)
    /\ ecPast' = IF ecTurn[t].doing = "create" THEN [ecPast EXCEPT !.leaked = @ \cup {t}] ELSE ecPast
    /\ UNCHANGED <<ecPlan, ecWire, ecOpen, ecCaps, ecSess, ecSeq, ecAnswers, ecTerminals, ecDown>>

EcGoesOn(t) ==
    /\ ecTurn[t].pc = "next"
    /\ \E k \in NextCalls(ecTurn[t].doing, ecTurn[t].call = 1) :
          IF k = "none"
          THEN /\ ecTurn' = [ecTurn EXCEPT ![t].pc = "running", ![t].doing = "none", ![t].call = 0, ![t].at = @ + 1]
               /\ UNCHANGED <<ecPending, ecOpen, ecSeq>>
          ELSE connCall(t, k)
    /\ UNCHANGED <<ecPlan, ecWire, ecCaps, ecSess, ecAnswers, ecTerminals, ecDown, ecPast>>

EcNext ==
    \/ \E p \in EcPrompt : EcSendPrompt(p)
    \/ \E s \in EcSession : EcSendCancel(s)
    \/ \E r \in ecOpen : EcReply(r)
    \/ handleInitialize \/ handlePrompt \/ handleCancel \/ deliver \/ EcClose \/ EcNotify
    \/ \E c \in ecPending : requestPermission(c)
    \/ \E t \in EcTask :
          \/ EcStart(t) \/ EcSteered(t) \/ EcFailsToStart(t) \/ EcFinish(t) \/ EcLocal(t)
          \/ handleApprovalRequest(t) \/ EcAwait(t) \/ EcDecided(t)
          \/ EcDelegate(t) \/ EcAnswered(t) \/ EcGivenUp(t) \/ EcGoesOn(t)

EcSpec == EcInit /\ [][EcNext]_ecVars

-----------------------------------------------------------------------------
EcCall ==
    [id : Nat, of : EcTask, kind : EcKinds, got : {NoEcReply} \cup
       [op : {"reply"}, id : Nat, of : EcTask, kind : EcKinds, ok : BOOLEAN]]

EcTypeOK ==
    /\ ecCaps \subseteq {"fs", "terminal"}
    /\ ecSess \in [EcSession -> [promptID : EcPrompt \cup {NoEcPrompt}, resolved : BOOLEAN,
                                 taskID : EcPrompt \cup {NoEcPrompt}, prompted : SUBSET Range(ecPlan.ids)]]
    /\ ecPending \subseteq EcCall
    /\ ecTerminals \subseteq EcTask
    /\ \A t \in EcTask : ecTurn[t].pc \in EcActive \cup {"none", "queued", "over"}
    /\ \A p \in EcPrompt : Range(ecAnswers[p]) \subseteq {"end_turn", "cancelled"}

\* A prompt gets at most one response, and says "cancelled" only when the editor
\* cancelled; of prompts sent one after the other, each is ended by its own turn,
\* when that turn has nothing more to show.
EcAnswersOnce ==
    \A p \in EcPrompt :
        /\ Len(ecAnswers[p]) <= 1
        /\ ecAnswers[p] = <<"cancelled">> => SessionOf(p) \in ecPast.cancelled
        /\ ecAnswers[p] = <<"end_turn">> /\ p \notin ecPast.mixed => ecTurn[p].pc = "over"

\* A turn takes only answers to what it asked itself: the response of its own
\* request, and the editor's decision on this very step.
EcOwnAnswers ==
    /\ \A c \in ecPending : c.got # NoEcReply => c.got.of = c.of /\ c.got.kind = c.kind
    /\ \A t \in EcTask : ecTurn[t].pc = "awaiting" /\ ecTurn[t].grant # NoEcReply =>
          [of |-> t, at |-> ecTurn[t].at, ok |-> ecTurn[t].grant] \in ecPast.said

EcQuiet ==
    /\ ecWire = <<>> /\ ecOpen = {} /\ ~ecDown
    /\ \A c \in ecPending : c.got = NoEcReply
    /\ \A t \in EcTask : \/ ecTurn[t].pc \in {"none", "over"}
                         \/ ecTurn[t].pc = "awaiting" /\ ecTurn[t].grant = NoEcReply /\ ecTurn[t].ctx

\* When the editor has answered everything, nothing waits on it any more: no call,
\* no turn but one whose request was not shown or answered too early, no terminal
\* but one whose creation was given up; every prompt is answered, unless another
\* turn of its session took its answer or its own could not say anything.
EcComesToRest ==
    EcQuiet =>
        /\ ecPending = {}
        /\ \A t \in EcTask : ecTurn[t].pc = "awaiting" => t \in ecPast.unasked \cup ecPast.early
        /\ ecTerminals \subseteq ecPast.leaked
        /\ \A p \in EcPrompt : ecTurn[p].pc = "over" /\ ecAnswers[p] = <<>> =>
                                   p \in ecPast.mixed \cup ecPast.silent
        /\ \A s \in EcSession : ecSess[s].promptID # NoEcPrompt =>
               \E t \in EcTask : SessionOf(t) = s /\ (t \in ecPast.silent \/ ecTurn[t].pc = "awaiting")

EcSound == EcAnswersOnce /\ EcOwnAnswers /\ EcComesToRest
=============================================================================
