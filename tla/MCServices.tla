----------------------------- MODULE MCServices -----------------------------
(***************************************************************************)
(* One TLC run over the services that stand around the turn runtime and do *)
(* not share state with each other.  The initial state picks the service   *)
(* that moves, so the explored space is the sum of theirs, not the         *)
(* product.                                                                *)
(***************************************************************************)
EXTENDS ExecutionLedger, ToolApproval, GoalContinuation, SessionLog, SubagentTasks,
        ScheduledTurns, LiveCatalog

CONSTANTS Services, bA, bB, m1, uA, uB, ra, rb

VARIABLE service

ledgerRest == <<apprVars, goalVars, sessVars, subVars, schedVars, catVars, plVars>>
apprRest == <<ledgerVars, goalVars, sessVars, subVars, schedVars, catVars, plVars>>
goalRest == <<ledgerVars, apprVars, sessVars, subVars, schedVars, catVars, plVars>>
sessRest == <<ledgerVars, apprVars, goalVars, subVars, schedVars, catVars, plVars>>
subRest == <<ledgerVars, apprVars, goalVars, sessVars, schedVars, catVars, plVars>>
schedRest == <<ledgerVars, apprVars, goalVars, sessVars, subVars, catVars, plVars>>
catRest == <<ledgerVars, apprVars, goalVars, sessVars, subVars, schedVars, plVars>>
leaseRest == <<ledgerVars, apprVars, goalVars, sessVars, subVars, schedVars, catVars>>
servicesVars == <<service, ledgerVars, ledgerRest>>

\* The turn bA is a /model command.
MCPins == [t \in LedgerTurn |-> IF t = bA THEN m1 ELSE NoModel]

\* Two calls in the first turn and one in the second, whose call id the
\* provider of the first turn used as well.
MCTurnOfCall == [c \in ApprCall |-> IF c = 3 THEN 2 ELSE 1]
MCToolOfCall == [c \in ApprCall |-> IF c = 2 THEN uB ELSE uA]
MCTaskOfTurn == [t \in ApprTurn |-> t]
MCIdOfCall == [c \in ApprCall |-> IF c = 2 THEN 2 ELSE 1]

Tool(local, trust, policy, safety) ==
    [local |-> local, trust |-> trust, policy |-> policy, safety |-> safety, hook |-> TRUE]

MCToolKinds ==
    LET Pair(a, b) == [t \in ApprTool |-> IF t = uA THEN a ELSE b]
    IN  {Pair(Tool(TRUE, "default", "ask", "allow"), Tool(FALSE, "pre", "deny", "ask")),
         Pair(Tool(TRUE, "fresh", "ask", "allow"), Tool(TRUE, "default", "allow", "deny")),
         Pair(Tool(FALSE, "default", "ask", "allow"), Tool(FALSE, "fresh", "allow", "allow"))}

\* Each of two workers has one turn of the user.
MCGoalHome == [t \in 1..UserTurns |-> IF t = 1 THEN "w1" ELSE "w2"]

\* Both publishers in the client's process, or one of them in another.
MCPlacements ==
    {[p \in SessPublisher |-> "r1"], [p \in SessPublisher |-> IF p = "b" THEN "r2" ELSE "r1"]}

\* The second execution resumes the thread of the first.
MCThreadOf == [e \in SubExec |-> 1]

MCSchedBefore == [s \in Sched |-> "v1"]

\* The first provider renews, revokes and replaces its registration, another
\* one wants to take it over and has one of its own.
CatQ(op, reg, gen, seq, lease, route, replace) ==
    [op |-> op, reg |-> reg, gen |-> gen, seq |-> seq, lease |-> lease, route |-> route,
     replace |-> replace]
MCCatRequests ==
    {CatQ("publish", 1, "g1", 1, 2, ra, FALSE), CatQ("renew", 1, "g1", 2, 3, ra, FALSE),
     CatQ("revoke", 1, "g1", 3, 0, ra, FALSE), CatQ("publish", 1, "g2", 1, 4, ra, TRUE),
     CatQ("publish", 1, "g3", 1, 5, rb, FALSE), CatQ("publish", 2, "g1", 1, 4, rb, FALSE)}

\* Three racing requests, or two around the pages of a client.
MCCatBudgets == {[sends |-> 3, queries |-> 0], [sends |-> 2, queries |-> 1]}

Ledger(A) == service = "ledger" /\ A /\ UNCHANGED <<service, ledgerRest>>
Approval(A) == service = "approval" /\ A /\ UNCHANGED <<service, apprRest>>
Goal(A) == service = "goal" /\ A /\ UNCHANGED <<service, goalRest>>
Session(A) == service = "session" /\ A /\ UNCHANGED <<service, sessRest>>
Subagents(A) == service = "subagents" /\ A /\ UNCHANGED <<service, subRest>>
Scheduled(A) == service = "scheduled" /\ A /\ UNCHANGED <<service, schedRest>>
Catalog(A) == service = "catalog" /\ A /\ UNCHANGED <<service, catRest>>
Lease(A) == service = "lease" /\ A /\ UNCHANGED <<service, leaseRest>>

\* The choices of a service that does not move are made for it.
Init ==
    /\ service \in Services
    /\ LedgerInit /\ ApprInit /\ GoalInit /\ SessInit /\ SubInit /\ SchedInit /\ CatInit /\ PlInit
    /\ service # "approval" => toolKind = CHOOSE k \in ToolKinds : TRUE
    /\ service # "approval" => parallel = [t \in ApprTurn |-> FALSE]
    /\ service # "session" => replicaOf = CHOOSE r \in SessPlacements : TRUE
    /\ service # "catalog" => [sends |-> catSends, queries |-> catQueries] = CHOOSE b \in CatBudgets : TRUE
    /\ service # "subagents" => subMode = CHOOSE m \in SubModes : TRUE

Next ==
    \/ \E r \in LedgerReplica, t \in LedgerTurn : Ledger(LedgerDeliver(r, t))
    \/ \E r \in LedgerReplica :
          \/ Ledger(LedgerRead(r)) \/ Ledger(LedgerReplay(r)) \/ Ledger(LedgerRefuse(r))
          \/ Ledger(LedgerSwap(r)) \/ Ledger(LedgerLose(r)) \/ Ledger(LedgerFault(r))
          \/ Ledger(LedgerCrash(r))
    \/ Ledger(LedgerPage) \/ Ledger(LedgerPageLost)
    \/ \E c \in ApprCall :
          \/ Approval(ApprConsider(c)) \/ Approval(ApprRegister(c)) \/ Approval(ApprReceive(c))
          \/ Approval(ApprExpire(c)) \/ Approval(ApprAbandon(c)) \/ Approval(ApprRun(c))
          \/ Approval(ApprReturn(c)) \/ Approval(ApprRecord(c))
    \/ \E c \in ApprCall, scope \in ApprScopes \cup {Denied} : Approval(ApprAnswer(c, scope))
    \/ \E t \in ApprTurn : Approval(ApprCancel(t)) \/ Approval(ApprAbort(t))
    \/ \E t \in GoalTurns :
          \/ \E w \in GoalWorker : Goal(GoalBegin(t, w))
          \/ \E verdict \in GoalVerdicts : Goal(GoalDecide(t, verdict))
          \/ \E status \in GoalToolStatuses : Goal(GoalTool(t, status))
          \/ Goal(GoalFinish(t)) \/ Goal(GoalList(t)) \/ Goal(GoalUpdate(t))
          \/ Goal(GoalAppendFirst(t)) \/ Goal(GoalAdmit(t)) \/ Goal(GoalConfirm(t))
    \/ \E w \in GoalWorker :
          \/ \E c \in GoalTurns :
                Goal(GoalAssigned(w, c)) \/ Goal(GoalReassigned(w, c)) \/ Goal(GoalHandle(w, c))
          \/ Goal(GoalCrash(w)) \/ Goal(GoalRestart(w))
    \/ \E p \in SessPublisher :
          \/ Session(SessBegin(p)) \/ Session(SessRead(p)) \/ Session(SessSwap(p))
          \/ Session(SessFault(p)) \/ Session(SessNotify(p)) \/ Session(SessSave(p))
    \/ Session(SessSubscribe) \/ Session(SessLoad) \/ Session(SessCapture)
    \/ Session(SessActivate) \/ Session(SessClear) \/ Session(SessReset) \/ Session(SessDelete)
    \/ \E e \in SubExec :
          \/ Subagents(SubAdmit(e)) \/ Subagents(SubAdmitFails(e)) \/ Subagents(SubStart(e))
          \/ Subagents(SubRun(e)) \/ Subagents(SubReturn(e)) \/ Subagents(SubOperate(e))
          \/ Subagents(SubConfirm(e)) \/ Subagents(SubAwait(e)) \/ Subagents(SubIndex(e))
          \/ Subagents(SubNote(e)) \/ Subagents(SubNoteLost(e)) \/ Subagents(Redeliver(e))
    \/ Subagents(SubRecover) \/ Subagents(SubRecoverFails)
    \/ Subagents(SubParentCrash) \/ Subagents(SubExecutorCrash)
    \/ \E h \in SubHandler :
          \/ Subagents(SubSlot(h)) \/ Subagents(SubInspect(h)) \/ Subagents(SubExecutorOperate(h))
          \/ Subagents(SubExecutorConfirm(h)) \/ Subagents(SubExecute(h))
          \/ Subagents(SubExecuted(h)) \/ Subagents(SubDisconnect(h))
    \/ Scheduled(SchedEdit) \/ Scheduled(SchedStart) \/ Scheduled(SchedReload)
    \/ Scheduled(SchedList) \/ Scheduled(SchedWrite) \/ Scheduled(SchedUpdated)
    \/ Scheduled(SchedUpdateFails) \/ Scheduled(SchedServe) \/ Scheduled(SchedFetch)
    \/ Scheduled(SchedCrash)
    \/ \E t \in SchedTask :
          \/ \E s \in Sched : Scheduled(SchedFire(s, t))
          \/ \E h \in SchedHandler : Scheduled(SchedDeliver(h, t))
          \/ Scheduled(SchedRecover(t)) \/ Scheduled(SchedFinal(t))
          \/ Scheduled(SchedComplete(t)) \/ Scheduled(SchedResume(t))
    \/ \E h \in SchedHandler :
          \/ Scheduled(SchedInspect(h)) \/ Scheduled(SchedInspectFails(h))
          \/ Scheduled(SchedCheck(h)) \/ Scheduled(SchedBind(h)) \/ Scheduled(SchedSend(h))
          \/ Scheduled(SchedReject(h))
    \/ Catalog(CatNext) \/ Lease(PlNext)

Spec == Init /\ [][Next]_servicesVars

\* The type invariants of the services.
ServicesTypeOK ==
    CASE service = "ledger" -> LedgerTypeOK
      [] service = "approval" -> ApprTypeOK
      [] service = "goal" -> GoalTypeOK
      [] service = "session" -> SessTypeOK
      [] service = "subagents" -> SubTypeOK
      [] service = "scheduled" -> SchedTypeOK
      [] service = "catalog" -> CatTypeOK
      [] service = "lease" -> PlTypeOK

\* The catalog accepts, renews and answers as its leases and cursors promise, and
\* the provider's side of a lease knows what it holds.
CatalogSound ==
    /\ service = "catalog" => CatLeasesSound /\ CatAnswersSound
    /\ service = "lease" => PlLeaseSound
=============================================================================
