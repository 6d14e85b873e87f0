------------------------------ MODULE ChildSession ------------------------------
(***************************************************************************)
(* The thread of a subagent: a child is admitted with an input message on  *)
(* its own thread, runs its provider loop over a snapshot of the thread,   *)
(* may be asked once to correct a structured answer, and the thread may be *)
(* continued by a later child.  The parent takes the answer from the run   *)
(* or, when another worker has run it, finds it in the thread.             *)
(*                                                                         *)
(* Every append writes the snapshot of its session: the whole thread with  *)
(* a store that replaces, the unknown messages with one that appends.  The *)
(* steps of the task host are in SubagentTasks.                            *)
(***************************************************************************)
LOCAL INSTANCE Integers
LOCAL INSTANCE FiniteSets
LOCAL INSTANCE Sequences
LOCAL INSTANCE SequencesExt
LOCAL INSTANCE FiniteSetsExt

CONSTANTS
    CsExec,            \* executions, in the order of their admission
    CsPlans,           \* [store, external, overlap, children]: children[e] is
                       \* [turn, readOnly, background, schema, override]
    CsCalls,           \* bound: tool rounds of a child
    CsEdits,           \* bound: edits of the agent's definition
    CsFaults,          \* bound: crashes and failed model calls
    Unbound            \* no execution scope

VARIABLES
    csPlan, csThread,
    csRun,             \* execution -> [pc, scope, policy, session, calls, fixes, answer]
    csTask,            \* execution -> the state of its task
    csResult,          \* execution -> what the parent was given
    csRecord,          \* the lifecycle record of the thread
    csNotices,         \* completion notices that wait for their turn
    csTokens, csWoken, \* authorities handed off; turns that were woken
    csPolicy, csBad

csVars == <<csPlan, csThread, csRun, csTask, csResult, csRecord, csNotices, csTokens, csWoken,
            csPolicy, csBad>>

NoMessage == [kind |-> "none", of |-> 0, n |-> 0]
CsIdle == [pc |-> "idle", scope |-> Unbound, policy |-> 0, session |-> <<>>, calls |-> 0,
           fixes |-> 0, answer |-> NoMessage]

CsInit ==
    /\ csPlan \in CsPlans
    /\ csThread = <<>>
    /\ csRun = [e \in CsExec |-> CsIdle]
    /\ csTask = [e \in CsExec |-> "none"]
    /\ csResult = [e \in CsExec |-> [kind |-> "none"]]
    /\ csRecord = [status |-> "none", of |-> 0]
    /\ csNotices = <<>> /\ csTokens = {} /\ csWoken = {}
    /\ csPolicy = 1 /\ csBad = 0

Child(e) == csPlan.children[e]
Pc(e) == csRun[e].pc
Live(e) == Pc(e) \notin {"idle", "ended"}
Running(e) == Live(e) /\ Pc(e) # "await"

\* The agent's definition with what the caller has asked for on top.
PolicyOf(e) == [definition |-> csPolicy, override |-> Child(e).override]

-----------------------------------------------------------------------------
\* Scopes: [view, write].
ReadOnly(s) == IF s = Unbound THEN s ELSE [s EXCEPT !.write = FALSE]

IsMonotonicScopeNarrowing(parent, child) ==
    \/ parent = child
    \/ parent # Unbound /\ parent.write /\ child = ReadOnly(parent)

Requested(e) == IF Child(e).readOnly THEN ReadOnly(Child(e).turn) ELSE Child(e).turn

\* Nobody is configured to authorize more.
authorizeSubagentScopeTransition(from, to) == IsMonotonicScopeNarrowing(from, to)

Inputs(history) == SelectSeq(history, LAMBDA m : m.kind = "input")

-----------------------------------------------------------------------------
\* The session: a snapshot of the thread that grows with the thread.
Unknown(history, session) == SelectSeq(session, LAMBDA m : m \notin ToSet(history))

\* A step of e that appends a message and goes on.
Appends(e, m, run) ==
    LET session == Append(csRun[e].session, m) IN
    /\ csThread' = IF csPlan.store = "replace" THEN session
                   ELSE csThread \o Unknown(csThread, session)
    /\ csRun' = [csRun EXCEPT ![e] = [run EXCEPT !.session = session]]

\* The record is that of the thread: the one observed last.
Observe(e, status) == csRecord' = [status |-> status, of |-> e]

\* A background child tells its parent thread, with the authority of the turn
\* that has spawned it handed off; the others return.
Given(e, result) ==
    /\ csResult' = [csResult EXCEPT ![e] = result]
    /\ IF Child(e).background
       THEN csNotices' = Append(csNotices, [of |-> e, failed |-> result.kind = "error"])
            /\ csTokens' = csTokens \cup {e}
       ELSE UNCHANGED <<csNotices, csTokens>>

ChildFails(e, status) ==
    /\ csRun' = [csRun EXCEPT ![e].pc = "ended"]
    /\ csTask' = [csTask EXCEPT ![e] = IF csTask[e] = "none" THEN "none" ELSE "failed"]
    /\ Observe(e, status)

-----------------------------------------------------------------------------
\* Admission.  A later child may continue the thread once its id is known: a
\* turn gets it with the result, or at once when the child runs detached.
ThreadKnown(e) ==
    \E d \in CsExec : /\ d < e
                      /\ IF Child(d).background THEN csTask[d] # "none" ELSE Pc(d) = "ended"
                      /\ csThread # <<>>

CsSpawn(e) ==
    /\ Pc(e) = "idle" /\ \A d \in CsExec : d < e => Pc(d) # "idle"
    /\ e # Min(CsExec) => ThreadKnown(e) /\ (csPlan.overlap \/ \A d \in CsExec : ~Running(d))
    /\ csRun' = [csRun EXCEPT ![e].pc = "prepare", ![e].scope = Requested(e),
                     ![e].policy = PolicyOf(e), ![e].session = csThread]
    /\ UNCHANGED <<csPlan, csThread, csTask, csResult, csRecord, csNotices, csTokens, csWoken,
                   csPolicy, csBad>>

\* The scope is compared with the one the thread was last continued with; the
\* input is persisted before the task is admitted.
CsPrepare(e) ==
    LET run == csRun[e]
        last == Inputs(run.session)
        permitted == last # <<>> => authorizeSubagentScopeTransition(Last(last).scope, run.scope)
    IN  /\ run.pc = "prepare"
        /\ IF permitted
           THEN /\ Appends(e, [kind |-> "input", of |-> e, n |-> 0, scope |-> run.scope],
                           [run EXCEPT !.pc = "queued"])
                /\ csTask' = [csTask EXCEPT ![e] = "queued"]
                /\ Observe(e, "admitted")
                /\ UNCHANGED csResult
           ELSE /\ csRun' = [csRun EXCEPT ![e].pc = "ended"]
                /\ csResult' = [csResult EXCEPT ![e] = [kind |-> "error"]]
                /\ UNCHANGED <<csThread, csTask, csRecord>>
        /\ UNCHANGED <<csPlan, csNotices, csTokens, csWoken, csPolicy, csBad>>

\* The run has a session of its own.  An assignee puts the request together
\* from its own definition of the agent, without what the caller asked for.
ReconstructExecutionRequest(e) == [definition |-> csPolicy, override |-> FALSE]

VerifyPolicy(e) == ReconstructExecutionRequest(e) = csRun[e].policy

ResolveInput(e, history) == \E i \in DOMAIN history : history[i].kind = "input" /\ history[i].of = e

CsBegin(e) ==
    /\ Pc(e) = "queued"
    /\ IF ResolveInput(e, csThread)
          /\ (csPlan.external => VerifyPolicy(e))
       THEN /\ csRun' = [csRun EXCEPT ![e].pc = "model", ![e].session = csThread]
            /\ csTask' = [csTask EXCEPT ![e] = "running"]
            /\ Observe(e, "running")
            /\ UNCHANGED <<csResult, csNotices, csTokens>>
       ELSE ChildFails(e, "failed") /\ Given(e, [kind |-> "error"])
    /\ UNCHANGED <<csPlan, csThread, csWoken, csPolicy, csBad>>

-----------------------------------------------------------------------------
\* The provider loop.
Count(e) == Len(SelectSeq(csRun[e].session, LAMBDA m : m.of = e))

Said(e, kind, valid) == [kind |-> kind, of |-> e, n |-> Count(e), valid |-> valid]

CsCall(e) ==
    LET run == csRun[e] IN
    /\ run.pc = "model" /\ run.calls < CsCalls
    /\ Appends(e, Said(e, "call", TRUE), [run EXCEPT !.pc = "tool", !.calls = @ + 1])
    /\ UNCHANGED <<csPlan, csTask, csResult, csRecord, csNotices, csTokens, csWoken, csPolicy, csBad>>

CsTool(e) ==
    LET run == csRun[e] IN
    /\ run.pc = "tool"
    /\ Appends(e, Said(e, "tool result", TRUE), [run EXCEPT !.pc = "model"])
    /\ UNCHANGED <<csPlan, csTask, csResult, csRecord, csNotices, csTokens, csWoken, csPolicy, csBad>>

\* The answer is kept in the thread before it is validated: one that does not
\* fit the schema is followed by a correction.
CsAnswer(e, valid) ==
    LET run == csRun[e]
        m == Said(e, "answer", valid)
        next == CASE valid \/ ~Child(e).schema -> "answered"
                  [] ~valid /\ Child(e).schema /\ run.fixes = 0 -> "correct"
                  [] ~valid /\ Child(e).schema /\ run.fixes # 0 -> "invalid"
    IN  /\ run.pc = "model"
        /\ Appends(e, m, [run EXCEPT !.pc = next, !.answer = m])
        /\ UNCHANGED <<csPlan, csTask, csResult, csRecord, csNotices, csTokens, csWoken, csPolicy, csBad>>

CsCorrect(e) ==
    LET run == csRun[e] IN
    /\ run.pc = "correct"
    /\ Appends(e, Said(e, "correction", TRUE), [run EXCEPT !.pc = "model", !.fixes = 1, !.calls = 0])
    /\ UNCHANGED <<csPlan, csTask, csResult, csRecord, csNotices, csTokens, csWoken, csPolicy, csBad>>

-----------------------------------------------------------------------------
\* The end of a run.
CsReturn(e) ==
    /\ Pc(e) = "answered"
    /\ csTask' = [csTask EXCEPT ![e] = "completed"]
    /\ IF csPlan.external
       THEN csRun' = [csRun EXCEPT ![e].pc = "await"] /\ UNCHANGED <<csResult, csRecord, csNotices, csTokens>>
       ELSE /\ csRun' = [csRun EXCEPT ![e].pc = "ended"]
            /\ Observe(e, "completed")
            /\ Given(e, [kind |-> "result", message |-> csRun[e].answer])
    /\ UNCHANGED <<csPlan, csThread, csWoken, csPolicy, csBad>>

\* It stays invalid, the model fails or the tool rounds are used up.
CsFail(e) ==
    /\ \/ Pc(e) = "invalid" /\ UNCHANGED csBad
       \/ Pc(e) = "model" /\ csBad < CsFaults /\ csBad' = csBad + 1
    /\ ChildFails(e, "failed")
    /\ Given(e, [kind |-> "error"])
    /\ UNCHANGED <<csPlan, csThread, csWoken, csPolicy>>

\* A plausible mistake: the last answer of the thread.
ResolveLast(e, history) ==
    LET at == {i \in DOMAIN history : history[i].kind = "answer"}
    IN  IF at = {} THEN NoMessage ELSE history[Max(at)]

\* The first answer without a tool call after the input, and before the next
\* input.
ResolveResult(e, history) ==
    LET from == CHOOSE i \in DOMAIN history : history[i].kind = "input" /\ history[i].of = e
        stops == {i \in DOMAIN history : i > from /\ history[i].kind = "input"}
        at == {i \in DOMAIN history : /\ i > from /\ history[i].kind = "answer"
                                      /\ \A s \in stops : i < s}
    IN  IF ~ResolveInput(e, history) \/ at = {} THEN NoMessage ELSE history[Min(at)]

\* The parent finds the answer in the thread and validates it again.
CsResolve(e) ==
    LET m == ResolveResult(e, csThread)
        fits == m # NoMessage /\ (Child(e).schema => m.valid)
    IN  /\ Pc(e) = "await"
        /\ csRun' = [csRun EXCEPT ![e].pc = "ended"]
        /\ Observe(e, IF fits THEN "completed" ELSE "interrupted")
        /\ Given(e, IF fits THEN [kind |-> "result", message |-> m] ELSE [kind |-> "error"])
        /\ UNCHANGED <<csPlan, csThread, csTask, csWoken, csPolicy, csBad>>

\* The turn of a notice takes the authority that was handed off to it.
CsWake ==
    /\ csNotices # <<>>
    /\ csNotices' = Tail(csNotices)
    /\ csWoken' = csWoken \cup {[of |-> Head(csNotices).of, failed |-> Head(csNotices).failed,
                                 authority |-> Head(csNotices).of \in csTokens]}
    /\ csTokens' = csTokens \ {Head(csNotices).of}
    /\ UNCHANGED <<csPlan, csThread, csRun, csTask, csResult, csRecord, csPolicy, csBad>>

CsEditPolicy ==
    /\ csPolicy <= CsEdits /\ csPolicy' = csPolicy + 1
    /\ UNCHANGED <<csPlan, csThread, csRun, csTask, csResult, csRecord, csNotices, csTokens, csWoken, csBad>>

\* The worker stops and starts again: what it held in memory is gone, its open
\* records are interrupted.
RecoverInterrupted(r) == IF r.status \in {"admitted", "running"} THEN [r EXCEPT !.status = "interrupted"] ELSE r

CsCrash ==
    /\ csBad < CsFaults /\ csBad' = csBad + 1
    /\ csRun' = [e \in CsExec |-> IF Live(e) THEN [csRun[e] EXCEPT !.pc = "ended"] ELSE csRun[e]]
    /\ csTask' = [e \in CsExec |-> IF csTask[e] \in {"queued", "running"} THEN "failed" ELSE csTask[e]]
    /\ csRecord' = RecoverInterrupted(csRecord)
    /\ csNotices' = <<>> /\ csTokens' = {}
    /\ UNCHANGED <<csPlan, csThread, csResult, csWoken, csPolicy>>

CsNext ==
    \/ CsWake \/ CsEditPolicy \/ CsCrash
    \/ \E e \in CsExec :
          \/ CsSpawn(e) \/ CsPrepare(e) \/ CsBegin(e) \/ CsCall(e) \/ CsTool(e) \/ CsCorrect(e)
          \/ CsReturn(e) \/ CsFail(e) \/ CsResolve(e)
          \/ \E valid \in BOOLEAN : CsAnswer(e, valid)

-----------------------------------------------------------------------------
CsTypeOK ==
    /\ \A e \in CsExec :
          /\ Pc(e) \in {"idle", "prepare", "queued", "model", "tool", "correct", "answered", "invalid",
                        "await", "ended"}
          /\ csTask[e] \in {"none", "queued", "running", "completed", "failed"}
          /\ csResult[e].kind \in {"none", "result", "error"}
          /\ csRun[e].fixes <= 1
    /\ csTokens \subseteq CsExec

\* What the parent is given as the result of a child is what that child has
\* answered, also when it is looked up in a thread that others continue.
ResultIsOwn ==
    \A e \in CsExec : csResult[e].kind = "result" =>
        /\ csResult[e].message = csRun[e].answer
        /\ Child(e).schema => csResult[e].message.valid

\* The scopes a thread is continued with never widen, in whichever order the
\* inputs of children that run at the same time are written.
ScopesNarrow ==
    LET inputs == Inputs(csThread) IN
    \A i \in 1..Len(inputs) - 1 :
        \/ inputs[i].scope = inputs[i + 1].scope
        \/ /\ inputs[i].scope # Unbound /\ inputs[i + 1].scope # Unbound
           /\ inputs[i].scope.view = inputs[i + 1].scope.view /\ ~inputs[i + 1].scope.write

\* As long as a thread is continued only by one child at a time, nothing a
\* child has answered is lost from it, and it can be given to the parent.
AnswersStay ==
    ~csPlan.overlap => \A e \in CsExec :
        /\ csTask[e] = "completed" => csRun[e].answer \in ToSet(csThread)
        /\ csTask[e] = "completed" /\ csRun[e].fixes = 0 => csResult[e].kind # "error"

\* A detached child wakes its parent once, with its outcome and with the
\* authority of the turn that has spawned it.
NoticesAreTrue ==
    /\ \A w \in csWoken : w.authority /\ (w.failed <=> csResult[w.of].kind = "error")
    /\ \A e \in CsExec : Cardinality({w \in csWoken : w.of = e})
                         + Len(SelectSeq(csNotices, LAMBDA n : n.of = e)) <= 1

\* The thread's record is open only while a child runs in it.
RecordIsLive ==
    csRecord.status \in {"admitted", "running"} => Live(csRecord.of)

CsSound == ResultIsOwn /\ ScopesNarrow /\ AnswersStay /\ NoticesAreTrue /\ RecordIsLive
=============================================================================
