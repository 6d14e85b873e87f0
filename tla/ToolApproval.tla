---------------------------- MODULE ToolApproval ----------------------------
(***************************************************************************)
(* Authorization and execution of the tool calls of one assistant message, *)
(* in several turns of one workspace at a time: pkg/turn (tool_loop.go,    *)
(* parallel_tools.go, tool_approval.go, authz.go), the policy and the      *)
(* grants of pkg/tools, and the broker of pkg/approval that parks a call   *)
(* until the user answers.                                                 *)
(*                                                                         *)
(* A batch whose tools are all parallel safe is authorized call by call,   *)
(* then run at once, then recorded call by call; any other batch takes one *)
(* call through all three before the next.  What the hooks, the policy and *)
(* the safety authorizer say of a tool is part of its kind, chosen in the  *)
(* initial state.                                                          *)
(***************************************************************************)
EXTENDS Integers, FiniteSets

CONSTANTS
    ApprCall,         \* the tool calls, numbered in source order
    ApprTurn,         \* the turns
    TurnOfCall,       \* [ApprCall -> ApprTurn]
    ToolOfCall,       \* [ApprCall -> tool names]
    TaskOfTurn,       \* [ApprTurn -> task ids]: addr.TaskID
    IdOfCall,         \* [ApprCall -> call ids of the provider]
    ApprTool,         \* the tools
    ToolKinds,        \* the assignments of kinds to tools that are explored
    ApprScopes,       \* approvalScopes: subset of "once", "session", "always"
    ApprTimeout,      \* ApprovalTimeout > 0
    MaxAnswers,       \* bound: answers of the user to one request
    NoDecision

ToolKind == [local : BOOLEAN, trust : {"default", "approval", "pre", "fresh"},
             policy : {"allow", "ask", "deny"}, safety : {"allow", "ask", "deny"},
             hook : BOOLEAN]

ASSUME ApprAssumption ==
    /\ ApprCall \subseteq Int
    /\ TurnOfCall \in [ApprCall -> ApprTurn] /\ ToolOfCall \in [ApprCall -> ApprTool]
    /\ ToolKinds \subseteq [ApprTool -> ToolKind]

VARIABLES
    toolKind,        \* [ApprTool -> kind of the tool]
    parallel,        \* [ApprTurn -> BOOLEAN]: toolBatchParallelSafe
    call,            \* [ApprCall -> stage of the call]
    part,            \* [ApprCall -> status of its approval_request part]
    waiters,         \* Broker.waiters: [key -> the call that waits, or NoDecision]
    channel,         \* [ApprCall -> the decision in its channel]
    sessionGrants,   \* DynamicPolicy.granted
    durableGrants,   \* the GrantStore
    cancelled,       \* turns whose context is done
    aborted,         \* turns that returned the context's error
    answers,         \* [ApprCall -> number of answers the user gave]
    approved         \* ghost: [call, tool, scope] of the decisions acted upon

apprVars == <<toolKind, parallel, call, part, waiters, channel, sessionGrants,
              durableGrants, cancelled, aborted, answers, approved>>

Denied == "deny"

KeyOfIdOnly(c) == IdOfCall[c]   \* mutant: the task is not part of the key

KeyOf(c) == <<TaskOfTurn[TurnOfCall[c]], IdOfCall[c]>>
BrokerKeys == {KeyOf(c) : c \in ApprCall}
KindOfCall(c) == toolKind[ToolOfCall[c]]
CallsOf(t) == {c \in ApprCall : TurnOfCall[c] = t}
Before(c) == {d \in CallsOf(TurnOfCall[c]) : d < c}

ApprInit ==
    /\ toolKind \in ToolKinds
    /\ parallel \in [ApprTurn -> BOOLEAN]
    /\ \A t \in ApprTurn : parallel[t] => Cardinality(CallsOf(t)) >= 2
    /\ call = [c \in ApprCall |-> "queued"]
    /\ part = [c \in ApprCall |-> "none"]
    /\ waiters = [k \in BrokerKeys |-> NoDecision]
    /\ channel = [c \in ApprCall |-> NoDecision]
    /\ sessionGrants = {}
    /\ durableGrants = {}
    /\ cancelled = {}
    /\ aborted = {}
    /\ answers = [c \in ApprCall |-> 0]
    /\ approved = {}

-----------------------------------------------------------------------------
(* The verdict on a call before the user is asked.                         *)

\* trustBase.
TrustBase(k) == IF k.trust \in {"approval", "fresh"} THEN "ask" ELSE "allow"

\* grantAuthorizer: a failed read of the store counts as no grant.
GrantAllows(c, readable) ==
    LET k == KindOfCall(c)
    IN  /\ k.trust # "fresh"
        /\ k.trust = "pre" \/ (readable /\ ToolOfCall[c] \in durableGrants)

\* authorizeToolProvider: a grant skips the policy, nothing skips safety, and
\* a prompt outranks an allow.
ProviderVerdict(c, granted) ==
    LET k == KindOfCall(c)
    IN  IF ~granted /\ k.policy = "deny" THEN "deny"
        ELSE IF k.safety # "allow" THEN k.safety
        ELSE IF granted THEN "allow"
        ELSE IF k.policy = "ask" THEN "ask" ELSE TrustBase(k)

\* invokeWithApproval: safety, then the policy of the registry with the
\* session grants, then the grants for a call the policy holds back.
LocalVerdict(c, granted) ==
    LET k == KindOfCall(c)
    IN  IF k.safety # "allow" THEN k.safety
        ELSE IF k.policy = "allow" \/ ToolOfCall[c] \in sessionGrants \/ granted
             THEN "allow" ELSE "ask"

Verdict(c, granted) ==
    IF ~KindOfCall(c).hook THEN "deny"
    ELSE IF KindOfCall(c).local THEN LocalVerdict(c, granted)
    ELSE ProviderVerdict(c, granted)

\* The grant authorizer turns a durable grant into a session grant.  It runs
\* for a provider call, and for a local one the policy holds back.
ConsultsGrants(c) ==
    /\ KindOfCall(c).hook
    /\ KindOfCall(c).local => LocalVerdict(c, FALSE) = "ask" /\ KindOfCall(c).safety = "allow"

-----------------------------------------------------------------------------
Settled == {"admitted", "denied", "running", "ran", "recorded"}

\* The calls before this one are through authorization, or through all of it.
MayConsider(c) ==
    \A d \in Before(c) :
        IF parallel[TurnOfCall[c]] THEN call[d] \in Settled ELSE call[d] = "recorded"

\* Hooks, policy, grants and safety.  A call that needs the user gets its
\* approval_request part first and registers with the broker afterwards.
ApprConsider(c) ==
    /\ TurnOfCall[c] \notin cancelled \cup aborted
    /\ call[c] = "queued" /\ MayConsider(c)
    /\ \E readable \in BOOLEAN :
          LET granted == ConsultsGrants(c) /\ GrantAllows(c, readable)
              verdict == Verdict(c, granted)
          IN  /\ call' = [call EXCEPT ![c] = CASE verdict = "allow" -> "admitted"
                                               [] verdict = "deny"  -> "denied"
                                               [] OTHER             -> "prompted"]
              /\ part' = [part EXCEPT ![c] = IF verdict = "ask" THEN "pending" ELSE @]
              /\ sessionGrants' = IF granted /\ KindOfCall(c).trust # "pre"
                                  THEN sessionGrants \cup {ToolOfCall[c]} ELSE sessionGrants
    /\ UNCHANGED <<toolKind, parallel, waiters, channel, durableGrants, cancelled,
                   aborted, answers, approved>>

\* Broker.Await puts its channel under the key, over whatever is there.
ApprRegister(c) ==
    /\ call[c] = "prompted"
    /\ call' = [call EXCEPT ![c] = "asking"]
    /\ waiters' = [waiters EXCEPT ![KeyOf(c)] = c]
    /\ UNCHANGED <<toolKind, parallel, part, channel, sessionGrants, durableGrants,
                   cancelled, aborted, answers, approved>>

\* The scopes the prompt offers.
Offered(c) == IF KindOfCall(c).trust = "fresh" THEN {"once"} ELSE ApprScopes

\* Broker.Resolve, called for the answer of the user to a pending prompt.  It
\* reports whether the channel took the decision.
ApprAnswer(c, scope) ==
    LET w == waiters[KeyOf(c)]
        taken == IF w = NoDecision THEN FALSE ELSE channel[w] = NoDecision
    IN  /\ part[c] = "pending" /\ scope \in Offered(c) \cup {Denied}
        /\ answers[c] < MaxAnswers
        /\ channel' = IF taken THEN [channel EXCEPT ![w] = [scope |-> scope, for |-> c]]
                      ELSE channel
        /\ answers' = [answers EXCEPT ![c] = @ + 1]
        /\ UNCHANGED <<toolKind, parallel, call, part, waiters, sessionGrants,
                       durableGrants, cancelled, aborted, approved>>

\* Await returns: the waiter under the key goes, whosever it is, and with it
\* the only reference to its channel.
Unregister(c) ==
    /\ waiters' = [waiters EXCEPT ![KeyOf(c)] = NoDecision]
    /\ channel' = [channel EXCEPT ![c] = NoDecision]
    /\ answers' = [answers EXCEPT ![c] = 0]

\* The decision arrives.  A session or always grant is recorded unless the
\* tool wants a fresh approval each time; the durable write may fail.
ApprReceive(c) ==
    /\ call[c] = "asking" /\ channel[c] # NoDecision
    /\ TurnOfCall[c] \notin cancelled
    /\ Unregister(c)
    /\ LET d == channel[c]
           fresh == KindOfCall(c).trust = "fresh"
           tool == {ToolOfCall[c]}
       IN  IF d.scope = Denied
           THEN /\ call' = [call EXCEPT ![c] = "denied"]
                /\ part' = [part EXCEPT ![c] = "denied"]
                /\ UNCHANGED <<sessionGrants, durableGrants, approved>>
           ELSE /\ call' = [call EXCEPT ![c] = "admitted"]
                /\ part' = [part EXCEPT ![c] = "approved"]
                /\ approved' = approved \cup
                     {[call |-> d.for, tool |-> ToolOfCall[d.for], scope |-> d.scope]}
                /\ sessionGrants' =
                     IF ~fresh /\ d.scope # "once" THEN sessionGrants \cup tool ELSE sessionGrants
                /\ durableGrants' \in
                     IF ~fresh /\ d.scope = "always"
                     THEN {durableGrants, durableGrants \cup tool} ELSE {durableGrants}
    /\ UNCHANGED <<toolKind, parallel, cancelled, aborted>>

\* The approval timeout.  The decision may be in the channel by then.
Expire(c) ==
    /\ ApprTimeout /\ call[c] = "asking" /\ TurnOfCall[c] \notin cancelled
    /\ Unregister(c)
    /\ call' = [call EXCEPT ![c] = "denied"]
    /\ part' = [part EXCEPT ![c] = "expired"]
    /\ UNCHANGED <<toolKind, parallel, sessionGrants, durableGrants, cancelled,
                   aborted, approved>>

\* Mutant: any answer stops the timer, also one that nobody took.
ExpireUnlessAnswered(c) == answers[c] = 0 /\ Expire(c)

ApprExpire(c) == Expire(c)

ApprCancel(t) ==
    /\ t \notin cancelled
    /\ \E c \in CallsOf(t) : call[c] # "recorded"
    /\ cancelled' = cancelled \cup {t}
    /\ UNCHANGED <<toolKind, parallel, call, part, waiters, channel, sessionGrants,
                   durableGrants, aborted, answers, approved>>

\* The turn is cancelled while a call waits: no resolved part, the turn ends.
ApprAbandon(c) ==
    /\ call[c] = "asking" /\ TurnOfCall[c] \in cancelled
    /\ Unregister(c)
    /\ call' = [call EXCEPT ![c] = "denied"]
    /\ aborted' = aborted \cup {TurnOfCall[c]}
    /\ UNCHANGED <<toolKind, parallel, part, sessionGrants, durableGrants,
                   cancelled, approved>>

\* A cancelled turn notices between two calls, before or after a body.
ApprAbort(t) ==
    /\ t \in cancelled \ aborted
    /\ \A c \in CallsOf(t) : call[c] \notin {"prompted", "asking", "running"}
    /\ aborted' = aborted \cup {t}
    /\ UNCHANGED <<toolKind, parallel, call, part, waiters, channel, sessionGrants,
                   durableGrants, cancelled, answers, approved>>

-----------------------------------------------------------------------------
\* The body of an admitted call starts; in a parallel batch after every call
\* of the batch is settled.
ApprRun(c) ==
    /\ TurnOfCall[c] \notin aborted
    /\ call[c] = "admitted"
    /\ parallel[TurnOfCall[c]] => \A d \in CallsOf(TurnOfCall[c]) : call[d] \in Settled
    /\ call' = [call EXCEPT ![c] = "running"]
    /\ UNCHANGED <<toolKind, parallel, part, waiters, channel, sessionGrants,
                   durableGrants, cancelled, aborted, answers, approved>>

ApprReturn(c) ==
    /\ call[c] = "running"
    /\ call' = [call EXCEPT ![c] = "ran"]
    /\ UNCHANGED <<toolKind, parallel, part, waiters, channel, sessionGrants,
                   durableGrants, cancelled, aborted, answers, approved>>

\* The result, or the error of a denied call, goes to the history in source
\* order; in a parallel batch after the last body returned.
ApprRecord(c) ==
    /\ TurnOfCall[c] \notin aborted
    /\ call[c] \in {"ran", "denied"}
    /\ \A d \in Before(c) : call[d] = "recorded"
    /\ parallel[TurnOfCall[c]] =>
          \A d \in CallsOf(TurnOfCall[c]) : call[d] \in {"ran", "denied", "recorded"}
    /\ call' = [call EXCEPT ![c] = "recorded"]
    /\ UNCHANGED <<toolKind, parallel, part, waiters, channel, sessionGrants,
                   durableGrants, cancelled, aborted, answers, approved>>

ApprStep(c) ==
    \/ ApprConsider(c) \/ ApprRegister(c) \/ ApprReceive(c) \/ ApprExpire(c)
    \/ ApprAbandon(c) \/ ApprRun(c) \/ ApprReturn(c) \/ ApprRecord(c)

ApprNext ==
    \/ \E c \in ApprCall : ApprStep(c)
    \/ \E c \in ApprCall, scope \in ApprScopes \cup {Denied} : ApprAnswer(c, scope)
    \/ \E t \in ApprTurn : ApprCancel(t) \/ ApprAbort(t)

\* The loop of a turn is a goroutine that goes on while it can, and a timer
\* fires; the user need not answer.
ApprFairness ==
    /\ \A c \in ApprCall : WF_apprVars(ApprStep(c))
    /\ \A t \in ApprTurn : WF_apprVars(ApprAbort(t))

ApprSpec == ApprInit /\ [][ApprNext]_apprVars /\ ApprFairness

-----------------------------------------------------------------------------
ApprTypeOK ==
    /\ \A c \in ApprCall :
          /\ call[c] \in Settled \cup {"queued", "prompted", "asking"}
          /\ part[c] \in {"none", "pending", "approved", "denied", "expired"}
    /\ sessionGrants \cup durableGrants \subseteq ApprTool
    /\ aborted \subseteq cancelled /\ cancelled \subseteq ApprTurn

\* A body runs only on a right of its own: the tool needed no approval, or
\* the user approved this very call, or the tool for the session or for
\* good.  A tool that wants fresh approval has no right but the second
\* (descriptor.go:28), whatever was granted, timed out, answered twice or
\* answered for another turn in the meantime.
ApprovalCovers(c) ==
    LET k == KindOfCall(c)
        own == \E a \in approved : a.call = c
        standing == \E a \in approved : a.tool = ToolOfCall[c] /\ a.scope # "once"
        free == k.trust # "fresh" /\ k.safety = "allow" /\
                (k.trust = "pre" \/ k.policy = "allow")
    IN  own \/ free \/ (k.trust # "fresh" /\ k.safety = "allow" /\ standing)

ApprBodyAuthorized ==
    \A c \in ApprCall : call[c] \in {"running", "ran"} => ApprovalCovers(c)

\* "No approval prompt can race a call body" (parallel_tools.go:122), and the
\* results of a batch are recorded in source order.
ApprBatchOrder ==
    \A c, d \in ApprCall :
        TurnOfCall[c] = TurnOfCall[d] =>
            /\ call[c] = "running" => call[d] \notin {"prompted", "asking"}
            /\ (call[d] = "recorded" /\ c < d) => call[c] = "recorded"

\* A call that waits for the user does not wait for ever: the answer, the
\* timeout or the cancellation ends it.
ApprSettles ==
    \A c \in ApprCall : call[c] \in {"prompted", "asking"} ~> call[c] \notin {"prompted", "asking"}

\* Bodies run by right, and one after the other where they were asked for.
ApprSound == ApprBodyAuthorized /\ ApprBatchOrder
=============================================================================
