----------------------------- MODULE RemoteTools -----------------------------
(***************************************************************************)
(* Tool calls that run in another process: on the client that opened the   *)
(* turn, which the worker reaches through its channel, and on a provider   *)
(* of the tool catalog.  A call is an attempt of a turn to run a tool: two *)
(* attempts of one call, as a recovered turn makes them, have one task and *)
(* one call id.  Messages are delayed, reordered, delivered again or lost. *)
(***************************************************************************)
LOCAL INSTANCE Integers
LOCAL INSTANCE FiniteSets
LOCAL INSTANCE Sequences
LOCAL INSTANCE SequencesExt

CONSTANTS
    RtCall, RtSites,   \* attempts; the possible tasks and hosts of each
    RtId,              \* the call id of an attempt
    NoRtAnswer,
    RtRuns,            \* bound: runs the hosts begin
    RtFaults           \* bound: messages repeated or lost, stops of the host

VARIABLES
    rtSite,            \* of an attempt, its task and host: client, checked or catalog
    rtCaller,          \* state and answer of every attempt
    rtPending,         \* the attempts whose waiter is registered
    rtSlot,            \* the reply channels, which hold one reply
    rtNet,             \* messages under way
    rtRun,             \* the runs of the hosts
    rtFaults

rtVars == <<rtSite, rtCaller, rtPending, rtSlot, rtNet, rtRun, rtFaults>>

RtInit ==
    /\ rtSite \in RtSites
    /\ rtCaller = [c \in RtCall |-> [state |-> "idle", got |-> NoRtAnswer]]
    /\ rtPending = {}
    /\ rtSlot = [c \in RtCall |-> NoRtAnswer]
    /\ rtNet = {}
    /\ rtRun = <<>>
    /\ rtFaults = RtFaults

RtTask(c) == rtSite[c].task
RtCatalog(c) == rtSite[c].host = "catalog"

\* A plausible mistake: the waiter is found by the call id alone.
toolCallKeyIdOnly(c) == <<RtCatalog(c), RtId[c]>>

\* A call of the channel is found by task and call id, one of the catalog
\* client by its request id, the call id.
toolCallKey(c) ==
    IF RtCatalog(c) THEN <<TRUE, RtId[c]>> ELSE <<FALSE, RtTask(c), RtId[c]>>

\* The hosts key the calls they run alike, under the agent that sent them.
HostKey(c) ==
    IF RtCatalog(c) THEN <<TRUE, RtId[c]>> ELSE <<FALSE, RtTask(c), RtId[c]>>

SameAddress(c, d) == RtTask(c) = RtTask(d)

\* A receipt may have expired where the host checks one: a call of a bound
\* workspace, and every invocation of a catalog host.
ReceiptExpires(c) == rtSite[c].host = "checked"
InvocationExpires(c) == RtCatalog(c)

\* A cancellation is admitted under the same receipt.
CancelExpires(c) == ReceiptExpires(c) \/ InvocationExpires(c)

RtRunning(r) == rtRun[r].state \in {"running", "replied"}
RtActive(c) == {r \in DOMAIN rtRun : RtRunning(r) /\ HostKey(rtRun[r].call) = HostKey(c)}

RtMessage(type, c) == [type |-> type, call |-> c]
RtReplyTo(c, r, body) == [type |-> "reply", call |-> c, run |-> r, body |-> body]

RtAnswered(c, state, body) ==
    rtCaller' = [rtCaller EXCEPT ![c] = [state |-> state, got |-> [run |-> 0, body |-> body]]]

-----------------------------------------------------------------------------
\* The worker.

\* The waiter is registered, the envelope authorized and sent.
RtInvoke(c) ==
    /\ rtCaller[c].state = "idle"
    /\ \A d \in rtPending : toolCallKey(d) # toolCallKey(c)
    /\ rtCaller' = [rtCaller EXCEPT ![c].state = "waiting"]
    /\ rtPending' = rtPending \cup {c}
    /\ rtNet' = rtNet \cup {RtMessage("invoke", c)}
    /\ UNCHANGED <<rtSite, rtSlot, rtRun, rtFaults>>

\* A call that waits already, no authority for the host, or a failed send.
RtInvokeFails(c) ==
    /\ rtCaller[c].state = "idle"
    /\ \/ \E d \in rtPending : toolCallKey(d) = toolCallKey(c)
       \/ rtFaults > 0
    /\ RtAnswered(c, "answered", "not_sent")
    /\ UNCHANGED <<rtSite, rtPending, rtSlot, rtNet, rtRun, rtFaults>>

\* The turn is cancelled or the invocation times out: the host is told.
RtGiveUp(c) ==
    /\ rtCaller[c].state = "waiting"
    /\ RtAnswered(c, "gone", "cancelled")
    /\ rtPending' = rtPending \ {c}
    /\ rtNet' = rtNet \cup {RtMessage("cancel", c)}
    /\ UNCHANGED <<rtSite, rtSlot, rtRun, rtFaults>>

\* The waiter that a reply belongs to; the catalog client forgets it at once.
RtReply(m, again) ==
    LET owner == {c \in rtPending : toolCallKey(c) = toolCallKey(m.call)
                                    /\ RtCatalog(c) = RtCatalog(m.call)}
    IN  /\ m.type = "reply"
        /\ rtSlot' = [c \in RtCall |-> IF c \in owner /\ rtSlot[c] = NoRtAnswer
                                       THEN [run |-> m.run, body |-> m.body] ELSE rtSlot[c]]
        /\ rtPending' = rtPending \ {c \in owner : RtCatalog(c)}
        /\ rtNet' = IF again THEN rtNet ELSE rtNet \ {m}
        /\ rtFaults' = IF again THEN rtFaults - 1 ELSE rtFaults
        /\ UNCHANGED <<rtSite, rtCaller, rtRun>>

RtTake(c) ==
    /\ rtCaller[c].state = "waiting" /\ rtSlot[c] # NoRtAnswer
    /\ rtCaller' = [rtCaller EXCEPT ![c] = [state |-> "answered", got |-> rtSlot[c]]]
    /\ rtPending' = rtPending \ {c}
    /\ UNCHANGED <<rtSite, rtSlot, rtNet, rtRun, rtFaults>>

\* The worker stops: its waiters and channels are gone, the hosts go on.
RtCrash ==
    /\ \E c \in RtCall : rtCaller[c].state = "waiting"
    /\ rtCaller' = [c \in RtCall |-> IF rtCaller[c].state = "waiting"
                                     THEN [rtCaller[c] EXCEPT !.state = "crashed"]
                                     ELSE rtCaller[c]]
    /\ rtPending' = {}
    /\ UNCHANGED <<rtSite, rtSlot, rtNet, rtRun, rtFaults>>

-----------------------------------------------------------------------------
\* The hosts.
RtBegin(c, denied) ==
    rtRun' = Append(rtRun, [call |-> c, state |-> "running", denied |-> denied, stop |-> "no",
                            body |-> "none"])

\* A client host runs a call unless it is running it: it answers one without a
\* valid receipt with the error.
RtHandleToolCall(m, again, expired) ==
    /\ m.type = "invoke" /\ ~RtCatalog(m.call)
    /\ expired => ReceiptExpires(m.call)
    /\ IF RtActive(m.call) # {} THEN UNCHANGED rtRun
       ELSE Len(rtRun) < RtRuns /\ RtBegin(m.call, expired)
    /\ rtNet' = IF again THEN rtNet ELSE rtNet \ {m}
    /\ rtFaults' = IF again THEN rtFaults - 1 ELSE rtFaults
    /\ UNCHANGED <<rtSite, rtCaller, rtPending, rtSlot>>

\* A catalog host answers a call that it refuses, or that it is running, with
\* an error of its own.
RtExecuteInvocation(m, again, expired) ==
    LET rest == IF again THEN rtNet ELSE rtNet \ {m} IN
    /\ m.type = "invoke" /\ InvocationExpires(m.call)
    /\ IF expired \/ RtActive(m.call) # {}
       THEN /\ rtNet' = rest \cup {RtReplyTo(m.call, 0, IF expired THEN "denied" ELSE "duplicate")}
            /\ UNCHANGED rtRun
       ELSE /\ Len(rtRun) < RtRuns /\ RtBegin(m.call, FALSE)
            /\ rtNet' = rest
    /\ rtFaults' = IF again THEN rtFaults - 1 ELSE rtFaults
    /\ UNCHANGED <<rtSite, rtCaller, rtPending, rtSlot>>

\* A cancellation stops the run of its call, when that is under way, has the
\* same address, and the receipt still stands.
RtCancelInvocation(m, again, expired) ==
    /\ m.type = "cancel"
    /\ expired => CancelExpires(m.call)
    /\ rtRun' = [r \in DOMAIN rtRun |->
                    IF r \in RtActive(m.call) /\ SameAddress(rtRun[r].call, m.call) /\ ~expired
                    THEN [rtRun[r] EXCEPT !.stop = "caller"] ELSE rtRun[r]]
    /\ rtNet' = IF again THEN rtNet ELSE rtNet \ {m}
    /\ rtFaults' = IF again THEN rtFaults - 1 ELSE rtFaults
    /\ UNCHANGED <<rtSite, rtCaller, rtPending, rtSlot>>

\* The client closes, or its tool host is replaced.
RtCancelAll ==
    /\ rtFaults > 0 /\ rtFaults' = rtFaults - 1
    /\ \E r \in DOMAIN rtRun : RtRunning(r) /\ ~RtCatalog(rtRun[r].call)
    /\ rtRun' = [r \in DOMAIN rtRun |->
                    IF RtRunning(r) /\ ~RtCatalog(rtRun[r].call) /\ rtRun[r].stop = "no"
                    THEN [rtRun[r] EXCEPT !.stop = "host"] ELSE rtRun[r]]
    /\ UNCHANGED <<rtSite, rtCaller, rtPending, rtSlot, rtNet>>

RtBody(run) ==
    CASE run.stop # "no" -> "cancelled"
      [] run.stop = "no" /\ run.denied -> "denied"
      [] OTHER -> "ran"

\* The tool returns.  A client host replies and then forgets the call, a
\* catalog host forgets it and then replies.
RtReturn(r) ==
    LET run == rtRun[r] IN
    /\ run.state = "running"
    /\ rtRun' = [rtRun EXCEPT ![r].state = IF RtCatalog(run.call) THEN "forgotten" ELSE "replied",
                              ![r].body = RtBody(run)]
    /\ rtNet' = IF RtCatalog(run.call) THEN rtNet
                ELSE rtNet \cup {RtReplyTo(run.call, r, RtBody(run))}
    /\ UNCHANGED <<rtSite, rtCaller, rtPending, rtSlot, rtFaults>>

RtEnd(r) ==
    LET run == rtRun[r] IN
    /\ run.state \in {"replied", "forgotten"}
    /\ rtRun' = [rtRun EXCEPT ![r].state = "over"]
    /\ rtNet' = IF run.state = "replied" THEN rtNet
                ELSE rtNet \cup {RtReplyTo(run.call, r, run.body)}
    /\ UNCHANGED <<rtSite, rtCaller, rtPending, rtSlot, rtFaults>>

RtLose(m) ==
    /\ rtFaults > 0 /\ rtFaults' = rtFaults - 1
    /\ rtNet' = rtNet \ {m}
    /\ UNCHANGED <<rtSite, rtCaller, rtPending, rtSlot, rtRun>>

\* A delivered message may be delivered again.
RtAgain == IF rtFaults > 0 THEN BOOLEAN ELSE {FALSE}

RtNext ==
    \/ \E c \in RtCall : RtInvoke(c) \/ RtInvokeFails(c) \/ RtGiveUp(c) \/ RtTake(c)
    \/ \E m \in rtNet, again \in RtAgain :
          \/ RtReply(m, again)
          \/ \E expired \in BOOLEAN :
                \/ RtHandleToolCall(m, again, expired)
                \/ RtExecuteInvocation(m, again, expired)
                \/ RtCancelInvocation(m, again, expired)
    \/ \E m \in rtNet : RtLose(m)
    \/ RtCrash \/ RtCancelAll
    \/ \E r \in DOMAIN rtRun : RtReturn(r) \/ RtEnd(r)

-----------------------------------------------------------------------------
RtTypeOK ==
    /\ \A c \in RtCall :
          rtCaller[c].state \in {"idle", "waiting", "answered", "gone", "crashed"}
    /\ rtPending \subseteq RtCall
    /\ Len(rtRun) \in 0..RtRuns /\ rtFaults \in 0..RtFaults

\* What a turn takes for the result of its call came from that call: the
\* host that answered ran it, or refused it, for the same task and call id,
\* and a run that went to its end was admitted.
AnswersAreOwn ==
    \A c \in RtCall :
        LET got == rtCaller[c].got IN
        got # NoRtAnswer /\ got.run # 0 =>
            LET run == rtRun[got.run] IN
            /\ RtTask(run.call) = RtTask(c) /\ RtId[run.call] = RtId[c]
            /\ rtSite[run.call].host = rtSite[c].host
            /\ got.body = "ran" => ~run.denied

\* A turn that waits can be answered: it is registered, or its reply is in
\* its channel; and nobody else is registered.
WaitersAreReachable ==
    /\ \A c \in RtCall : rtCaller[c].state = "waiting" =>
          c \in rtPending \/ rtSlot[c] # NoRtAnswer
    /\ \A c \in rtPending : rtCaller[c].state = "waiting"

\* A host runs a call once at a time, also when it is delivered again or a
\* recovered turn repeats it.
OneRunPerCall ==
    \A r, s \in DOMAIN rtRun :
        r # s /\ RtRunning(r) /\ RtRunning(s) => HostKey(rtRun[r].call) # HostKey(rtRun[s].call)

\* A run is stopped on behalf of an attempt of that call that gave up, or
\* because its host stops.
StopsAreAsked ==
    \A r \in DOMAIN rtRun : rtRun[r].stop = "caller" =>
        \E c \in RtCall : /\ rtCaller[c].state = "gone"
                          /\ RtTask(c) = RtTask(rtRun[r].call) /\ RtId[c] = RtId[rtRun[r].call]

RtCallsSound == AnswersAreOwn /\ WaitersAreReachable /\ OneRunPerCall /\ StopsAreAsked
=============================================================================
