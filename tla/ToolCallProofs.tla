---------------------------- MODULE ToolCallProofs ----------------------------
(***************************************************************************)
(* What a tool call may start: a child execution (SubagentTasks) and a     *)
(* tool body (ToolApproval), for any number of calls, tools, turns,        *)
(* threads, deliveries, faults and crashes.                                *)
(*                                                                         *)
(* Children: one runs at most once, and its record in the registry is      *)
(* true.  What a frame may still do is bounded by what the host says of    *)
(* its task.  A local child is claimed and run by the one goroutine of its *)
(* parent, which never goes back (ParentInv).  An external one is claimed  *)
(* by a delivery, and only one delivery of a task is in flight in a        *)
(* process (HandlerInv): between the inspection that found the task queued *)
(* and the claim nobody else can claim it, so a status of running that     *)
(* confirms a claim was caused by that claim.                              *)
(*                                                                         *)
(* Bodies: none runs without a right of its own, and none beside a prompt  *)
(* of its batch.  An answer reaches the call it was given for because a    *)
(* waiter sits under its own key; a standing grant is always somebody's    *)
(* approval of more than one call of a tool that may have standing grants. *)
(***************************************************************************)
EXTENDS SubagentTasks, ToolApproval, TLAPS

HostStatus == SubTerminal \cup {"none", "queued", "running"}
Outcome == SubTerminal \cup {"interrupted"}
Frame == [pc : {"idle", "note", "start", "op", "confirm", "run", "body", "await",
                "slot", "inspect", "done", "lost"},
          exec : SubExec \cup {0},
          op : {"none", "admitted", "running", "interrupted"} \cup SubTerminal,
          next : {"none", "start", "run", "await", "again", "done"}]

TypeInv ==
    /\ subMode \in {"local", "external"} /\ indexed \in BOOLEAN /\ recovering \in BOOLEAN
    /\ hostTask \in [SubExec -> HostStatus]
    /\ record \in [SubThread -> [status : SubTerminal \cup SubOpen \cup {"none", "interrupted"},
                                 of : SubExec \cup {0}]]
    /\ parent \in [SubExec -> Frame] /\ handler \in [SubHandler -> Frame]
    /\ bodies \in [SubExec -> Nat] /\ unseen \subseteq SubExec

\* A goroutine that has not come to the body of its child.
BeforeBody(f) ==
    \/ f.pc \in {"idle", "start", "run"}
    \/ f.pc = "note" /\ f.next # "done"
    \/ f.pc \in {"op", "confirm"} /\ f.op = "running"

ParentOk(e, f) ==
    /\ f.exec = e
    /\ f.pc \in IF subMode = "local"
                THEN {"idle", "note", "start", "op", "confirm", "run", "body", "done", "lost"}
                ELSE {"idle", "note", "await", "done", "lost"}
    /\ f.pc = "idle" => hostTask[e] = "none" /\ bodies[e] = 0
    /\ subMode = "local" /\ BeforeBody(f) => bodies[e] = 0
    /\ f.pc = "note" =>
          /\ f.next = IF f.op \in Outcome THEN "done" ELSE IF subMode = "external" THEN "await"
                      ELSE IF f.op = "admitted" THEN "start" ELSE "run"
          /\ f.op \in Outcome \cup SubOpen
          /\ f.op \in SubTerminal => hostTask[e] = f.op
    /\ f.pc \in {"op", "confirm"} => f.op \in SubTerminal \cup {"running"}

HandlerOk(f) ==
    f.pc # "idle" =>
        /\ subMode = "external" /\ f.exec \in SubExec /\ hostTask[f.exec] # "none"
        /\ f.pc \in {"slot", "inspect", "op", "confirm", "run", "body"}
        /\ f.pc \in {"op", "confirm"} => f.op \in SubTerminal \cup {"running"}
        /\ f.pc = "op" /\ f.op = "running" => hostTask[f.exec] = "queued"
        /\ f.pc = "confirm" /\ f.op = "running" =>
              hostTask[f.exec] \in {"queued", "running"} /\ bodies[f.exec] = 0
        /\ f.pc = "run" => hostTask[f.exec] = "running" /\ bodies[f.exec] = 0

ParentInv == \A e \in SubExec : ParentOk(e, parent[e])

HandlerInv ==
    /\ \A h \in SubHandler : HandlerOk(handler[h])
    /\ \A h, g \in SubHandler :
          h # g /\ handler[h].pc # "idle" /\ handler[g].pc # "idle" =>
              handler[h].exec # handler[g].exec

BodyInv ==
    \A e \in SubExec :
        /\ bodies[e] <= 1
        /\ subMode = "external" /\ hostTask[e] \in {"none", "queued"} => bodies[e] = 0

\* A record is of an execution of its thread that was admitted.
RecordInv ==
    \A c \in SubThread :
        record[c].status # "none" =>
            /\ indexed /\ record[c].of \in SubExec /\ ThreadOf[record[c].of] = c
            /\ parent[record[c].of].pc # "idle"

SubInv ==
    /\ TypeInv /\ ParentInv /\ HandlerInv /\ BodyInv /\ RecordInv
    /\ SubRecordTruthful /\ SubNoGhost

-----------------------------------------------------------------------------
\* An outcome at the host is final, and so is the creation of a task.
HostSettles ==
    \A e \in SubExec :
        /\ hostTask[e] \in SubTerminal => hostTask'[e] = hostTask[e]
        /\ hostTask[e] # "none" => hostTask'[e] # "none"

LEMMA RecordsStay ==
  ASSUME SubInv, HostSettles, record' = record
  PROVE  SubRecordTruthful'
<1>1. \A c \in SubThread : record[c].status \in SubTerminal => record[c].of \in SubExec
  BY DEF SubInv, RecordInv, SubTerminal
<1> QED BY <1>1 DEF SubInv, SubRecordTruthful, HostSettles

\* A step of the goroutine of execution e, which leaves the others alone.
ParentMoves(e, f) ==
    /\ parent' = [parent EXCEPT ![e] = f] /\ f \in Frame
    /\ UNCHANGED <<subMode, recovering, handler>>

\* The host's view of other executions does not change.
HostOnly(e) ==
    /\ hostTask' \in [SubExec -> HostStatus]
    /\ \A d \in SubExec \ {e} : hostTask'[d] = hostTask[d]

LEMMA ParentKeeps ==
  ASSUME SubInv, NEW e \in SubExec, NEW f, ParentMoves(e, f), ParentOk(e, f)',
         HostSettles, HostOnly(e), bodies' \in [SubExec -> Nat], bodies'[e] <= 1,
         \A d \in SubExec \ {e} : bodies'[d] = bodies[d],
         subMode = "external" => bodies' = bodies /\ (hostTask' = hostTask \/ hostTask[e] = "none")
  PROVE  ParentInv' /\ HandlerInv' /\ BodyInv'
<1>1. ParentInv'
  <2> SUFFICES ASSUME NEW d \in SubExec PROVE ParentOk(d, parent[d])'
    BY DEF ParentInv
  <2>1. CASE d = e
    <3>1. parent'[d] = f
      BY <2>1 DEF ParentMoves, SubInv, TypeInv
    <3> QED BY <2>1, <3>1 DEF ParentOk
  <2>2. CASE d # e
    <3>1. ParentOk(d, parent[d]) /\ parent'[d] = parent[d] /\ hostTask'[d] = hostTask[d]
          /\ bodies'[d] = bodies[d] /\ subMode' = subMode
      BY <2>2 DEF ParentMoves, SubInv, TypeInv, ParentInv, HostOnly
    <3> QED BY <3>1 DEF ParentOk, BeforeBody
  <2> QED BY <2>1, <2>2
<1>2. HandlerInv'
  <2>1. handler' = handler /\ subMode' = subMode /\ HandlerInv
    BY DEF ParentMoves, SubInv
  <2>2. ASSUME NEW h \in SubHandler PROVE HandlerOk(handler[h])'
    <3>1. HandlerOk(handler[h])
      BY <2>1 DEF HandlerInv
    <3>2. CASE handler[h].pc = "idle"
      BY <2>1, <3>2 DEF HandlerOk
    <3>3. CASE handler[h].pc # "idle"
      <4>1. subMode = "external" /\ handler[h].exec \in SubExec /\ hostTask[handler[h].exec] # "none"
        BY <3>1, <3>3 DEF HandlerOk
      <4>2. hostTask'[handler[h].exec] = hostTask[handler[h].exec] /\ bodies' = bodies
        BY <4>1 DEF HostOnly
      <4> QED BY <2>1, <3>1, <4>1, <4>2 DEF HandlerOk
    <3> QED BY <3>2, <3>3
  <2> QED BY <2>1, <2>2 DEF HandlerInv
<1>3. BodyInv'
  <2> SUFFICES ASSUME NEW d \in SubExec
               PROVE  /\ bodies'[d] <= 1
                      /\ subMode' = "external" /\ hostTask'[d] \in {"none", "queued"} => bodies'[d] = 0
    BY DEF BodyInv
  <2>1. /\ bodies[d] <= 1
        /\ subMode = "external" /\ hostTask[d] \in {"none", "queued"} => bodies[d] = 0
    BY DEF SubInv, BodyInv
  <2> QED BY <2>1 DEF ParentMoves, HostOnly
<1> QED BY <1>1, <1>2, <1>3

LEMMA RecordsKeep ==
  ASSUME SubInv, NEW e \in SubExec, NEW f, ParentMoves(e, f), HostSettles, record' = record,
         unseen \subseteq unseen', indexed => indexed',
         f.pc # "idle", f.pc \in {"done", "lost"} => parent[e].pc = "idle" \/ e \in unseen'
  PROVE  RecordInv' /\ SubNoGhost' /\ SubRecordTruthful'
<1>1. RecordInv /\ SubNoGhost /\ \A d \in SubExec : parent'[d] = IF d = e THEN f ELSE parent[d]
  BY DEF SubInv, TypeInv, ParentMoves
<1>2. RecordInv'
  BY <1>1 DEF RecordInv
<1>3. SubNoGhost'
  <2> SUFFICES ASSUME subMode' = "local", ~recovering', NEW c \in SubThread,
                      record[c].status \in SubOpen
               PROVE  parent'[record[c].of].pc \notin {"done", "lost"} \/ record[c].of \in unseen'
    BY DEF SubNoGhost, OpenRecords
  <2>1. /\ record[c].of \in SubExec /\ parent[record[c].of].pc # "idle"
        /\ parent[record[c].of].pc \notin {"done", "lost"} \/ record[c].of \in unseen
    BY <1>1 DEF RecordInv, SubNoGhost, OpenRecords, SubOpen, ParentMoves
  <2> QED BY <1>1, <2>1
<1> QED BY <1>2, <1>3, RecordsStay

\* A step of a parent that writes no record.
LEMMA ParentStep ==
  ASSUME SubInv, NEW e \in SubExec, NEW f, ParentMoves(e, f), ParentOk(e, f)',
         HostSettles, HostOnly(e), bodies' \in [SubExec -> Nat], bodies'[e] <= 1,
         \A d \in SubExec \ {e} : bodies'[d] = bodies[d],
         subMode = "external" => bodies' = bodies /\ (hostTask' = hostTask \/ hostTask[e] = "none"),
         record' = record, unseen \subseteq unseen', unseen' \subseteq SubExec,
         indexed => indexed', indexed' \in BOOLEAN,
         f.pc # "idle", f.pc \in {"done", "lost"} => parent[e].pc = "idle" \/ e \in unseen'
  PROVE  SubInv'
<1>1. TypeInv'
  BY DEF SubInv, TypeInv, ParentMoves, HostOnly
<1> QED BY <1>1, ParentKeeps, RecordsKeep DEF SubInv

\* What the host does for a frame.
LEMMA HostDoes ==
  ASSUME SubInv, NEW e \in SubExec, NEW f, f.exec = e, f.op \in SubTerminal \cup {"running"},
         Acknowledged(f) \/ Refused(f) \/ Unanswered(f)
  PROVE  /\ HostOnly(e) /\ HostSettles /\ hostTask'[e] \in {hostTask[e], f.op}
         /\ Acknowledged(f) => hostTask'[e] = f.op
<1>1. hostTask \in [SubExec -> HostStatus]
  BY DEF SubInv, TypeInv
<1>2. CASE hostTask' = hostTask
  BY <1>1, <1>2 DEF HostOnly, HostSettles, Acknowledged, HostAllows, HostApplies
<1>3. CASE HostAllows(e, f.op) /\ hostTask' = [hostTask EXCEPT ![e] = f.op]
  BY <1>1, <1>3 DEF HostOnly, HostSettles, HostAllows, HostStatus, SubTerminal
<1> QED BY <1>2, <1>3 DEF Acknowledged, Refused, Unanswered, HostApplies

LEMMA FrameOf ==
  ASSUME SubInv, NEW e \in SubExec
  PROVE  /\ parent[e] \in Frame /\ parent[e].exec = e /\ ParentOk(e, parent[e])
         /\ bodies[e] \in Nat /\ bodies[e] <= 1 /\ hostTask[e] \in HostStatus
         /\ subMode \in {"local", "external"}
<1> QED BY DEF SubInv, TypeInv, ParentInv, ParentOk, BodyInv

\* The frames of the steps.
LEMMA NotingFrame ==
  ASSUME NEW f \in Frame, NEW status \in Outcome \cup SubOpen,
         NEW next \in {"start", "run", "await", "done"}
  PROVE  /\ Noting(f, status, next) \in Frame /\ Noting(f, status, next).exec = f.exec
         /\ Noting(f, status, next).pc = "note" /\ Noting(f, status, next).op = status
         /\ Noting(f, status, next).next = next
<1> QED BY DEF Noting, Frame, Outcome, SubTerminal, SubOpen

LEMMA OperatingFrame ==
  ASSUME NEW f \in Frame, NEW op \in SubTerminal \cup {"running"}, NEW next \in {"none", "done"}
  PROVE  /\ Operating(f, op, next) \in Frame /\ Operating(f, op, next).exec = f.exec
         /\ Operating(f, op, next).pc = "op" /\ Operating(f, op, next).op = op
<1> QED BY DEF Operating, Frame, SubTerminal

LEMMA AdmitKeeps ==
  ASSUME SubInv, NEW e \in SubExec, SubAdmit(e)
  PROVE  SubInv'
<1>0. PICK f : f = Noting(parent[e], "admitted", IF subMode = "local" THEN "start" ELSE "await")
  OBVIOUS
<1>1. /\ parent[e].pc = "idle" /\ hostTask' = [hostTask EXCEPT ![e] = "queued"]
      /\ parent' = [parent EXCEPT ![e] = f]
      /\ UNCHANGED <<subMode, registryVars, recovering, handler, bodies, subFaults, subCrashes>>
  BY <1>0 DEF SubAdmit, HostApplies, SetParent
<1>2. /\ f \in Frame /\ f.exec = e /\ f.pc = "note" /\ f.op = "admitted"
      /\ f.next = IF subMode = "local" THEN "start" ELSE "await"
  BY <1>0, FrameOf, NotingFrame DEF SubOpen
<1>3. hostTask[e] = "none" /\ bodies[e] = 0 /\ subMode \in {"local", "external"}
  BY <1>1, FrameOf DEF ParentOk
<1>4. TypeInv
  BY DEF SubInv
<1>5. HostSettles /\ HostOnly(e)
  BY <1>1, <1>3, <1>4 DEF HostSettles, HostOnly, TypeInv, HostStatus, SubTerminal
<1>6. ParentOk(e, f)'
  BY <1>1, <1>2, <1>3 DEF ParentOk, Outcome, SubOpen, SubTerminal, BeforeBody
<1>7. ParentMoves(e, f)
  BY <1>1, <1>2 DEF ParentMoves
<1> QED BY <1>1, <1>2, <1>3, <1>4, <1>5, <1>6, <1>7, ParentStep DEF registryVars, TypeInv

LEMMA AdmitFailsKeeps ==
  ASSUME SubInv, NEW e \in SubExec, SubAdmitFails(e)
  PROVE  SubInv'
<1>0. PICK f : f = [parent[e] EXCEPT !.pc = "done"]
  OBVIOUS
<1>1. /\ parent[e].pc = "idle" /\ parent' = [parent EXCEPT ![e] = f]
      /\ hostTask' = hostTask \/ hostTask' = [hostTask EXCEPT ![e] = "queued"]
      /\ UNCHANGED <<subMode, registryVars, recovering, handler, bodies, subCrashes>>
  BY <1>0 DEF SubAdmitFails, HostApplies, SetParent
<1>2. f \in Frame /\ f.exec = e /\ f.pc = "done"
  BY <1>0, FrameOf DEF Frame
<1>3. hostTask[e] = "none" /\ bodies[e] = 0 /\ subMode \in {"local", "external"}
  BY <1>1, FrameOf DEF ParentOk
<1>4. TypeInv
  BY DEF SubInv
<1>5. HostSettles /\ HostOnly(e)
  BY <1>1, <1>3, <1>4 DEF HostSettles, HostOnly, TypeInv, HostStatus, SubTerminal
<1>6. ParentOk(e, f)'
  BY <1>1, <1>2, <1>3 DEF ParentOk, BeforeBody
<1>7. ParentMoves(e, f)
  BY <1>1, <1>2 DEF ParentMoves
<1> QED BY <1>1, <1>2, <1>3, <1>4, <1>5, <1>6, <1>7, ParentStep DEF registryVars, TypeInv

\* The steps of a goroutine at which the host does nothing.
LEMMA QuietStep ==
  ASSUME SubInv, NEW e \in SubExec, NEW f, ParentMoves(e, f), ParentOk(e, f)',
         hostTask' = hostTask, bodies' = bodies, record' = record, unseen \subseteq unseen',
         unseen' \subseteq SubExec, indexed' = indexed, parent[e].pc # "idle",
         f.pc # "idle", f.pc \in {"done", "lost"} => e \in unseen'
  PROVE  SubInv'
<1>1. TypeInv /\ BodyInv
  BY DEF SubInv
<1>2. HostSettles /\ HostOnly(e) /\ bodies'[e] <= 1
  BY <1>1 DEF HostSettles, HostOnly, TypeInv, BodyInv
<1> QED BY <1>1, <1>2, ParentStep DEF TypeInv

LEMMA StartKeeps ==
  ASSUME SubInv, NEW e \in SubExec, SubStart(e)
  PROVE  SubInv'
<1>0. PICK f : f = Operating(parent[e], "running", "none")
  OBVIOUS
<1>1. /\ parent[e].pc = "start" /\ parent' = [parent EXCEPT ![e] = f]
      /\ UNCHANGED <<subMode, hostVars, registryVars, recovering, handler>>
  BY <1>0 DEF SubStart, SetParent
<1>2. f \in Frame /\ f.exec = e /\ f.pc = "op" /\ f.op = "running"
  BY <1>0, FrameOf, OperatingFrame
<1>3. ParentOk(e, parent[e]) /\ TypeInv
  BY FrameOf DEF SubInv
<1>4. ParentOk(e, f)'
  BY <1>1, <1>2, <1>3 DEF ParentOk, BeforeBody, hostVars
<1>5. ParentMoves(e, f)
  BY <1>1, <1>2 DEF ParentMoves
<1> QED BY <1>1, <1>2, <1>3, <1>4, <1>5, QuietStep DEF registryVars, hostVars, TypeInv

LEMMA RunKeeps ==
  ASSUME SubInv, NEW e \in SubExec, SubRun(e)
  PROVE  SubInv'
<1>0. PICK f : f = [parent[e] EXCEPT !.pc = "body"]
  OBVIOUS
<1>1. /\ parent[e].pc = "run" /\ parent' = [parent EXCEPT ![e] = f]
      /\ bodies' = [bodies EXCEPT ![e] = bodies[e] + 1]
      /\ UNCHANGED <<subMode, hostTask, registryVars, recovering, handler>>
  BY <1>0 DEF SubRun, SetParent
<1>2. f \in Frame /\ f.exec = e /\ f.pc = "body"
  BY <1>0, FrameOf DEF Frame
<1>3. ParentOk(e, parent[e]) /\ TypeInv /\ subMode \in {"local", "external"}
  BY FrameOf DEF SubInv
<1>4. subMode = "local" /\ bodies[e] = 0
  BY <1>1, <1>3 DEF ParentOk, BeforeBody
<1>5. ParentOk(e, f)'
  BY <1>1, <1>2, <1>4 DEF ParentOk, BeforeBody
<1>6. HostSettles /\ HostOnly(e)
  BY <1>1, <1>3 DEF HostSettles, HostOnly, TypeInv
<1>7. bodies' \in [SubExec -> Nat] /\ bodies'[e] <= 1 /\ \A d \in SubExec \ {e} : bodies'[d] = bodies[d]
  BY <1>1, <1>3, <1>4 DEF TypeInv
<1>8. ParentMoves(e, f)
  BY <1>1, <1>2 DEF ParentMoves
<1> QED BY <1>1, <1>2, <1>3, <1>4, <1>5, <1>6, <1>7, <1>8, ParentStep DEF registryVars, TypeInv

LEMMA ReturnKeeps ==
  ASSUME SubInv, NEW e \in SubExec, SubReturn(e)
  PROVE  SubInv'
<1>1. PICK outcome \in SubTerminal : parent' = [parent EXCEPT ![e] = Operating(parent[e], outcome, "done")]
  BY DEF SubReturn, SetParent
<1>0. PICK f : f = Operating(parent[e], outcome, "done")
  OBVIOUS
<1>2. /\ parent[e].pc = "body" /\ UNCHANGED <<subMode, hostVars, registryVars, recovering, handler>>
  BY DEF SubReturn
<1>3. f \in Frame /\ f.exec = e /\ f.pc = "op" /\ f.op = outcome
  BY <1>0, FrameOf, OperatingFrame
<1>4. ParentOk(e, parent[e]) /\ TypeInv
  BY FrameOf DEF SubInv
<1>5. ParentMoves(e, f)
  BY <1>0, <1>1, <1>2, <1>3 DEF ParentMoves
<1>6. ParentOk(e, f)'
  BY <1>2, <1>3, <1>4 DEF ParentOk, BeforeBody, hostVars, SubTerminal
<1> QED BY <1>2, <1>3, <1>4, <1>5, <1>6, QuietStep DEF registryVars, hostVars, TypeInv

\* What an operation of the parent leads to.
LEMMA AfterFrame ==
  ASSUME NEW f, f \in Frame, f.op \in SubTerminal \cup {"running"}, NEW ok, ok \in BOOLEAN
  PROVE  /\ ParentAfter(f, ok) \in Frame /\ ParentAfter(f, ok).exec = f.exec
         /\ \/ /\ f.op = "running" /\ ok /\ ParentAfter(f, ok).pc = "note"
               /\ ParentAfter(f, ok).op = "running" /\ ParentAfter(f, ok).next = "run"
            \/ /\ f.op = "running" /\ ~ok /\ ParentAfter(f, ok).pc = "op"
               /\ ParentAfter(f, ok).op = "cancelled"
            \/ /\ f.op # "running" /\ ParentAfter(f, ok).pc = "note"
               /\ ok => ParentAfter(f, ok).op = f.op
               /\ ~ok => ParentAfter(f, ok).op = "interrupted"
               /\ ParentAfter(f, ok).next = "done"
<1>1. CASE f.op = "running" /\ ok
  BY <1>1, NotingFrame DEF ParentAfter, SubOpen
<1>2. CASE f.op = "running" /\ ~ok
  BY <1>2, OperatingFrame DEF ParentAfter, SubTerminal
<1>3. CASE f.op # "running"
  <2>1. CASE ok
    <3>1. f.op \in Outcome \cup SubOpen /\ ParentAfter(f, ok) = Noting(f, f.op, "done")
      BY <1>3, <2>1 DEF ParentAfter, Outcome
    <3>2. f \in Frame /\ "done" \in {"start", "run", "await", "done"}
      OBVIOUS
    <3>3. /\ Noting(f, f.op, "done") \in Frame /\ Noting(f, f.op, "done").exec = f.exec
          /\ Noting(f, f.op, "done").pc = "note" /\ Noting(f, f.op, "done").op = f.op
          /\ Noting(f, f.op, "done").next = "done"
      BY <3>1, <3>2, NotingFrame, ZenonT(40)
    <3> QED BY <1>3, <2>1, <3>1, <3>3
  <2>2. CASE ~ok
    <3>1. ParentAfter(f, ok) = Noting(f, "interrupted", "done")
      BY <1>3, <2>2 DEF ParentAfter
    <3>2. "interrupted" \in Outcome \cup SubOpen /\ f \in Frame
          /\ "done" \in {"start", "run", "await", "done"}
      BY DEF Outcome
    <3>3. /\ Noting(f, "interrupted", "done") \in Frame
          /\ Noting(f, "interrupted", "done").exec = f.exec
          /\ Noting(f, "interrupted", "done").pc = "note"
          /\ Noting(f, "interrupted", "done").op = "interrupted"
          /\ Noting(f, "interrupted", "done").next = "done"
      BY <3>2, NotingFrame
    <3> QED BY <1>3, <2>2, <3>1, <3>3
  <2> QED BY <2>1, <2>2
<1> QED BY <1>1, <1>2, <1>3

LEMMA OperateKeeps ==
  ASSUME SubInv, NEW e \in SubExec, SubOperate(e)
  PROVE  SubInv'
<1>0. PICK g : g = parent[e]
  OBVIOUS
<1>1. /\ g \in Frame /\ g.exec = e /\ ParentOk(e, g) /\ TypeInv /\ bodies[e] <= 1
      /\ subMode \in {"local", "external"}
  BY <1>0, FrameOf DEF SubInv
<1>2. /\ g.pc = "op"
      /\ Acknowledged(g) \/ Refused(g) \/ Unanswered(g)
      /\ UNCHANGED <<subMode, registryVars, recovering, handler, bodies>>
  BY <1>0 DEF SubOperate, Acknowledged, Refused, Unanswered
<1>3. g.op \in SubTerminal \cup {"running"} /\ subMode = "local"
      /\ (g.op = "running" => bodies[e] = 0)
  BY <1>1, <1>2 DEF ParentOk, BeforeBody
<1>4. HostOnly(e) /\ HostSettles /\ (Acknowledged(g) => hostTask'[e] = g.op)
  BY <1>1, <1>2, <1>3, HostDoes
<1>5. PICK f : /\ parent' = [parent EXCEPT ![e] = f]
               /\ (Acknowledged(g) /\ f = ParentAfter(g, TRUE)) \/ f = [g EXCEPT !.pc = "confirm"]
  BY <1>0 DEF SubOperate, SetParent
<1>6. ASSUME f \in Frame, ParentOk(e, f)', f.pc \in {"note", "op", "confirm"}
      PROVE  SubInv'
  BY <1>1, <1>2, <1>3, <1>4, <1>5, <1>6, ParentStep DEF ParentMoves, registryVars, TypeInv
<1>7. CASE f = [g EXCEPT !.pc = "confirm"]
  <2>1. f \in Frame /\ f.exec = e /\ f.pc = "confirm" /\ f.op = g.op
    BY <1>1, <1>7 DEF Frame
  <2>2. ParentOk(e, f)'
    BY <1>2, <1>3, <2>1 DEF ParentOk, BeforeBody
  <2> QED BY <1>6, <2>1, <2>2
<1>8. CASE Acknowledged(g) /\ f = ParentAfter(g, TRUE)
  <2>1. /\ f \in Frame /\ f.exec = e /\ f.pc = "note"
        /\ \/ g.op = "running" /\ f.op = "running" /\ f.next = "run"
           \/ g.op # "running" /\ f.op = g.op /\ f.next = "done"
    BY <1>1, <1>3, <1>8, AfterFrame
  <2>2. ParentOk(e, f)'
    BY <1>2, <1>3, <1>4, <1>8, <2>1 DEF ParentOk, BeforeBody, Outcome, SubOpen, SubTerminal
  <2> QED BY <1>6, <2>1, <2>2
<1> QED BY <1>5, <1>7, <1>8

LEMMA ConfirmKeeps ==
  ASSUME SubInv, NEW e \in SubExec, SubConfirm(e)
  PROVE  SubInv'
<1>0. PICK g : g = parent[e]
  OBVIOUS
<1>1. g \in Frame /\ g.exec = e /\ ParentOk(e, g) /\ TypeInv /\ subMode \in {"local", "external"}
  BY <1>0, FrameOf DEF SubInv
<1>2. /\ g.pc = "confirm" /\ UNCHANGED <<subMode, hostVars, registryVars, recovering, handler>>
  BY <1>0 DEF SubConfirm
<1>3. g.op \in SubTerminal \cup {"running"} /\ subMode = "local"
      /\ (g.op = "running" => bodies[e] = 0)
  BY <1>1, <1>2 DEF ParentOk, BeforeBody
<1>4. PICK ok, f : /\ ok \in BOOLEAN /\ (ok => hostTask[e] = g.op)
                  /\ parent' = [parent EXCEPT ![e] = f] /\ f = ParentAfter(g, ok)
  BY <1>0, <1>1 DEF SubConfirm, SetParent, Confirmed
<1>5. /\ f \in Frame /\ f.exec = e /\ f.pc \in {"note", "op"}
      /\ \/ g.op = "running" /\ ok /\ f.pc = "note" /\ f.op = "running" /\ f.next = "run"
         \/ g.op = "running" /\ f.pc = "op" /\ f.op = "cancelled"
         \/ /\ g.op # "running" /\ f.pc = "note" /\ f.next = "done"
            /\ f.op = "interrupted" \/ (ok /\ f.op = g.op)
  BY <1>1, <1>3, <1>4, AfterFrame
<1>6. ParentOk(e, f)'
  BY <1>2, <1>3, <1>4, <1>5 DEF ParentOk, BeforeBody, Outcome, SubOpen, SubTerminal, hostVars
<1> QED BY <1>0, <1>1, <1>2, <1>4, <1>5, <1>6, QuietStep
        DEF ParentMoves, registryVars, hostVars, TypeInv

LEMMA AwaitKeeps ==
  ASSUME SubInv, NEW e \in SubExec, SubAwait(e)
  PROVE  SubInv'
<1>0. PICK g : g = parent[e]
  OBVIOUS
<1>1. g \in Frame /\ g.exec = e /\ ParentOk(e, g) /\ TypeInv /\ subMode \in {"local", "external"}
  BY <1>0, FrameOf DEF SubInv
<1>2. /\ g.pc = "await" /\ UNCHANGED <<subMode, hostVars, registryVars, recovering, handler>>
  BY <1>0 DEF SubAwait
<1>3. subMode = "external"
  BY <1>1, <1>2 DEF ParentOk
<1>4. PICK f, op, next :
        /\ parent' = [parent EXCEPT ![e] = f] /\ f = Noting(g, op, next)
        /\ \/ op = "running" /\ next = "await"
           \/ op \in SubTerminal /\ hostTask[e] = op /\ next = "done"
           \/ op = "interrupted" /\ next = "done"
  BY <1>0 DEF SubAwait, SetParent
<1>5. f \in Frame /\ f.exec = e /\ f.pc = "note" /\ f.op = op /\ f.next = next
  <2>1. op \in Outcome \cup SubOpen /\ next \in {"start", "run", "await", "done"}
    BY <1>4 DEF Outcome, SubOpen
  <2>2. /\ Noting(g, op, next) \in Frame /\ Noting(g, op, next).exec = g.exec
        /\ Noting(g, op, next).pc = "note" /\ Noting(g, op, next).op = op
        /\ Noting(g, op, next).next = next
    BY <1>1, <2>1, NotingFrame, ZenonT(40)
  <2> QED BY <1>1, <1>4, <2>2
<1>6. ParentOk(e, f)'
  BY <1>2, <1>3, <1>4, <1>5 DEF ParentOk, BeforeBody, Outcome, SubOpen, SubTerminal, hostVars
<1> QED BY <1>0, <1>1, <1>2, <1>4, <1>5, <1>6, QuietStep
        DEF ParentMoves, registryVars, hostVars, TypeInv

\* The frame after an observation.
LEMMA NotedFrame ==
  ASSUME SubInv, NEW e \in SubExec, parent[e].pc = "note"
  PROVE  /\ Noted(parent[e]) \in Frame /\ Noted(parent[e]).exec = e
         /\ Noted(parent[e]).pc = parent[e].next
         /\ parent[e].next \in {"start", "run", "await", "done"}
         /\ parent[e].next = "done" <=> parent[e].op \in Outcome
         /\ parent[e].op \in Outcome \cup SubOpen
         /\ \A f : f = Noted(parent[e]) => ParentOk(e, f)
<1>0. PICK g : g = parent[e]
  OBVIOUS
<1>1. g \in Frame /\ g.exec = e /\ ParentOk(e, g) /\ subMode \in {"local", "external"} /\ g.pc = "note"
  BY <1>0, FrameOf
<1>2. /\ g.next \in {"start", "run", "await", "done"} /\ (g.next = "done" <=> g.op \in Outcome)
      /\ g.op \in Outcome \cup SubOpen
      /\ subMode = "local" => g.next # "await" /\ (g.next # "done" => bodies[e] = 0)
      /\ subMode = "external" => g.next \in {"await", "done"}
  BY <1>1 DEF ParentOk, BeforeBody
<1>3. Noted(g) \in Frame /\ Noted(g).exec = e /\ Noted(g).pc = g.next
  BY <1>1, <1>2 DEF Noted, Frame
<1>4. ASSUME NEW f, f = Noted(g)
      PROVE  ParentOk(e, f)
  BY <1>1, <1>2, <1>3, <1>4 DEF ParentOk, BeforeBody
<1> QED BY <1>0, <1>2, <1>3, <1>4

LEMMA IndexKeeps ==
  ASSUME SubInv, NEW e \in SubExec, SubIndex(e)
  PROVE  SubInv'
<1>1. /\ indexed' = TRUE
      /\ UNCHANGED <<subMode, hostVars, record, unseen, recovering, parent, handler>>
  BY DEF SubIndex
<1>2. TypeInv' /\ HandlerInv'
  BY <1>1 DEF SubInv, TypeInv, HandlerInv, HandlerOk, hostVars
<1>3. ParentInv' /\ BodyInv'
  BY <1>1 DEF SubInv, ParentInv, ParentOk, BeforeBody, BodyInv, hostVars
<1>4. RecordInv' /\ SubRecordTruthful' /\ SubNoGhost'
  BY <1>1 DEF SubInv, RecordInv, SubRecordTruthful, SubNoGhost, OpenRecords, hostVars
<1> QED BY <1>2, <1>3, <1>4 DEF SubInv

LEMMA NoteKeeps ==
  ASSUME SubInv, NEW e \in SubExec, SubNote(e)
  PROVE  SubInv'
<1>0. PICK f, op, c : f = Noted(parent[e]) /\ op = parent[e].op /\ c = ThreadOf[e]
  OBVIOUS
<1>1. /\ parent[e].pc = "note" /\ indexed /\ parent' = [parent EXCEPT ![e] = f]
      /\ record' = [record EXCEPT ![c] = [status |-> op, of |-> e]]
      /\ UNCHANGED <<subMode, hostVars, indexed, unseen, recovering, handler>>
  BY <1>0 DEF SubNote, SetParent
<1>2. /\ f \in Frame /\ f.exec = e /\ f.pc \in {"start", "run", "await", "done"}
      /\ f.pc = "done" <=> op \in Outcome
      /\ op \in Outcome \cup SubOpen /\ ParentOk(e, f)
  BY <1>0, <1>1, NotedFrame
<1>3. op \in SubTerminal => hostTask[e] = op
  BY <1>0, <1>1, FrameOf DEF ParentOk
<1>4. TypeInv /\ RecordInv /\ SubRecordTruthful /\ SubNoGhost /\ BodyInv /\ c \in SubThread
  BY <1>0, SubagentAssumption DEF SubInv
<1>5. /\ record' \in [SubThread -> [status : SubTerminal \cup SubOpen \cup {"none", "interrupted"},
                                   of : SubExec \cup {0}]]
      /\ record'[c].status = op /\ record'[c].of = e
      /\ \A d \in SubThread \ {c} : record'[d] = record[d]
  BY <1>1, <1>2, <1>4 DEF TypeInv, Outcome
<1>6. ParentOk(e, f)'
  BY <1>1, <1>2 DEF ParentOk, BeforeBody, hostVars
<1>7. ParentMoves(e, f)
  BY <1>1, <1>2 DEF ParentMoves
<1>8. ParentInv' /\ HandlerInv' /\ BodyInv'
  <2>1. HostSettles /\ HostOnly(e) /\ hostTask' = hostTask /\ bodies' = bodies
    BY <1>1, <1>4 DEF HostSettles, HostOnly, hostVars, TypeInv
  <2> QED BY <1>4, <1>6, <1>7, <2>1, ParentKeeps DEF TypeInv, BodyInv
<1>9. TypeInv'
  BY <1>1, <1>2, <1>4, <1>5 DEF TypeInv, hostVars
<1>10. \A d \in SubExec : parent'[d] = IF d = e THEN f ELSE parent[d]
  BY <1>1, <1>4 DEF TypeInv
<1>11. ASSUME NEW d \in SubThread \ {c}, record[d].status # "none"
       PROVE  record[d].of \in SubExec /\ record[d].of # e
  BY <1>0, <1>4, <1>11 DEF RecordInv
<1>12. RecordInv'
  <2>1. ASSUME NEW d \in SubThread, record'[d].status # "none"
        PROVE  /\ indexed' /\ record'[d].of \in SubExec /\ ThreadOf[record'[d].of] = d
               /\ parent'[record'[d].of].pc # "idle"
    BY <1>0, <1>1, <1>2, <1>4, <1>5, <1>10, <2>1 DEF RecordInv
  <2> QED BY <2>1 DEF RecordInv
<1>13. SubRecordTruthful'
  <2>1. ASSUME NEW d \in SubThread, record'[d].status \in SubTerminal
        PROVE  hostTask'[record'[d].of] = record'[d].status
    BY <1>1, <1>3, <1>4, <1>5, <2>1 DEF SubRecordTruthful, hostVars
  <2> QED BY <2>1 DEF SubRecordTruthful
<1>14. SubNoGhost'
  <2> SUFFICES ASSUME subMode' = "local", ~recovering', NEW d \in SubThread,
                      record'[d].status \in SubOpen
               PROVE  parent'[record'[d].of].pc \notin {"done", "lost"} \/ record'[d].of \in unseen'
    BY DEF SubNoGhost, OpenRecords
  <2>1. CASE d = c
    BY <1>2, <1>5, <1>10, <2>1 DEF Outcome, SubTerminal, SubOpen
  <2>2. CASE d # c
    <3>1. record'[d] = record[d] /\ record[d].of \in SubExec /\ record[d].of # e
      BY <1>5, <1>11, <2>2 DEF SubOpen
    <3> QED BY <1>1, <1>4, <1>10, <3>1 DEF SubNoGhost, OpenRecords
  <2> QED BY <2>1, <2>2
<1> QED BY <1>8, <1>9, <1>12, <1>13, <1>14 DEF SubInv

LEMMA NoteLostKeeps ==
  ASSUME SubInv, NEW e \in SubExec, SubNoteLost(e)
  PROVE  SubInv'
<1>0. PICK f : f = Noted(parent[e])
  OBVIOUS
<1>1. /\ parent[e].pc = "note" /\ parent' = [parent EXCEPT ![e] = f] /\ unseen' = unseen \cup {e}
      /\ UNCHANGED <<subMode, hostVars, record, indexed, recovering, handler>>
  BY <1>0 DEF SubNoteLost, SetParent
<1>2. f \in Frame /\ f.exec = e /\ f.pc \in {"start", "run", "await", "done"} /\ ParentOk(e, f)
  BY <1>0, <1>1, NotedFrame
<1>3. ParentOk(e, f)'
  BY <1>1, <1>2 DEF ParentOk, BeforeBody, hostVars
<1>4. ParentMoves(e, f) /\ unseen' \subseteq SubExec
  BY <1>1, <1>2 DEF ParentMoves, SubInv, TypeInv
<1> QED BY <1>1, <1>2, <1>3, <1>4, QuietStep DEF hostVars

-----------------------------------------------------------------------------
\* What a delivery that is being handled may rely on.
LEMMA HandlerOf ==
  ASSUME SubInv, NEW h \in SubHandler, handler[h].pc # "idle"
  PROVE  /\ handler[h] \in Frame /\ HandlerOk(handler[h]) /\ handler[h].exec \in SubExec
         /\ subMode = "external" /\ hostTask[handler[h].exec] # "none"
         /\ \A g \in SubHandler \ {h} : handler[g].pc # "idle" => handler[g].exec # handler[h].exec
<1>1. HandlerOk(handler[h])
  BY DEF SubInv, HandlerInv
<1>2. handler[h] \in Frame
  BY DEF SubInv, TypeInv
<1>3. \A g \in SubHandler \ {h} : handler[g].pc # "idle" => handler[g].exec # handler[h].exec
  BY DEF SubInv, HandlerInv
<1> QED BY <1>1, <1>2, <1>3 DEF HandlerOk

\* A step of the delivery h of execution e, which no other one handles.
HandlerMoves(h, e, f) ==
    /\ handler' = [handler EXCEPT ![h] = f] /\ f \in Frame
    /\ f.pc # "idle" => f.exec = e
    /\ \A g \in SubHandler \ {h} : handler[g].pc # "idle" => handler[g].exec # e
    /\ subMode = "external" /\ hostTask[e] # "none"
    /\ UNCHANGED <<subMode, record, indexed, unseen, recovering, parent>>

LEMMA HandlerStep ==
  ASSUME SubInv, NEW h \in SubHandler, NEW e \in SubExec, NEW f, HandlerMoves(h, e, f),
         HandlerOk(f)', HostSettles, HostOnly(e), bodies' \in [SubExec -> Nat], bodies'[e] <= 1,
         \A d \in SubExec \ {e} : bodies'[d] = bodies[d],
         hostTask'[e] = "queued" => bodies'[e] = 0
  PROVE  SubInv'
<1>1. TypeInv /\ ParentInv /\ HandlerInv /\ BodyInv /\ RecordInv
  BY DEF SubInv
<1>2. TypeInv'
  BY <1>1 DEF TypeInv, HandlerMoves, HostOnly
<1>3. ParentInv'
  <2> SUFFICES ASSUME NEW d \in SubExec PROVE ParentOk(d, parent[d])'
    BY DEF ParentInv
  <2>1. ParentOk(d, parent[d]) /\ parent' = parent /\ subMode' = "external" /\ subMode = "external"
    BY <1>1 DEF ParentInv, HandlerMoves
  <2>2. parent[d].pc = "idle" => hostTask'[d] = "none" /\ bodies'[d] = 0
    BY <2>1 DEF ParentOk, HandlerMoves, HostOnly
  <2>3. hostTask[d] \in SubTerminal => hostTask'[d] = hostTask[d]
    BY DEF HostSettles
  <2> QED BY <2>1, <2>2, <2>3 DEF ParentOk
<1>4. \A g \in SubHandler : handler'[g] = IF g = h THEN f ELSE handler[g]
  BY <1>1 DEF TypeInv, HandlerMoves
<1>5. ASSUME NEW g \in SubHandler PROVE HandlerOk(handler[g])'
  <2>1. CASE g = h
    BY <1>4, <2>1 DEF HandlerOk
  <2>2. CASE g # h
    <3>1. handler'[g] = handler[g] /\ HandlerOk(handler[g]) /\ subMode' = subMode
          /\ (handler[g].pc # "idle" => handler[g].exec # e)
      BY <1>1, <1>4, <2>2 DEF HandlerInv, HandlerMoves
    <3>2. CASE handler[g].pc = "idle"
      BY <3>1, <3>2 DEF HandlerOk
    <3>3. CASE handler[g].pc # "idle"
      <4>1. handler[g].exec \in SubExec \ {e}
        BY <3>1, <3>3 DEF HandlerOk
      <4>2. hostTask'[handler[g].exec] = hostTask[handler[g].exec]
            /\ bodies'[handler[g].exec] = bodies[handler[g].exec]
        BY <4>1 DEF HostOnly
      <4> QED BY <3>1, <4>2 DEF HandlerOk
    <3> QED BY <3>2, <3>3
  <2> QED BY <2>1, <2>2
<1>6. ASSUME NEW g \in SubHandler, NEW k \in SubHandler, g # k,
             handler'[g].pc # "idle", handler'[k].pc # "idle"
      PROVE  handler'[g].exec # handler'[k].exec
  BY <1>1, <1>4, <1>6 DEF HandlerInv, HandlerMoves
<1>7. HandlerInv'
  BY <1>5, <1>6 DEF HandlerInv
<1>8. BodyInv'
  <2>1. ASSUME NEW d \in SubExec
        PROVE  /\ bodies'[d] <= 1
               /\ subMode' = "external" /\ hostTask'[d] \in {"none", "queued"} => bodies'[d] = 0
    BY <1>1 DEF BodyInv, HostOnly, HostSettles, HandlerMoves
  <2> QED BY <2>1 DEF BodyInv
<1>9. RecordInv' /\ SubNoGhost'
  BY <1>1 DEF RecordInv, SubNoGhost, HandlerMoves
<1>10. SubRecordTruthful'
  BY RecordsStay DEF HandlerMoves
<1> QED BY <1>2, <1>3, <1>7, <1>8, <1>9, <1>10 DEF SubInv

\* The steps of a delivery at which the host does nothing.
LEMMA QuietHandlerStep ==
  ASSUME SubInv, NEW h \in SubHandler, NEW e \in SubExec, NEW f, HandlerMoves(h, e, f),
         HandlerOk(f), UNCHANGED <<hostTask, bodies>>
  PROVE  SubInv'
<1>1. HandlerOk(f)'
  BY DEF HandlerOk, HandlerMoves
<1>2. TypeInv /\ BodyInv
  BY DEF SubInv
<1>3. HostSettles /\ HostOnly(e) /\ bodies' \in [SubExec -> Nat] /\ bodies'[e] <= 1
      /\ (hostTask'[e] = "queued" => bodies'[e] = 0)
  BY <1>2 DEF HostSettles, HostOnly, TypeInv, BodyInv, HandlerMoves
<1> QED BY <1>1, <1>3, HandlerStep

LEMMA NoFrameIsFrame == NoFrame \in Frame /\ NoFrame.pc = "idle"
<1> QED BY DEF NoFrame, Frame

LEMMA DeliverKeeps ==
  ASSUME SubInv, NEW h \in SubHandler, NEW e \in SubExec, SubDeliver(h, e)
  PROVE  SubInv'
<1>0. PICK f : f = [NoFrame EXCEPT !.pc = "slot", !.exec = e]
  OBVIOUS
<1>1. /\ subMode = "external" /\ hostTask[e] \in {"queued", "running"}
      /\ handler[h].pc = "idle" /\ ~Inflight(e) /\ handler' = [handler EXCEPT ![h] = f]
      /\ UNCHANGED <<subMode, hostVars, registryVars, recovering, parent>>
  BY <1>0 DEF SubDeliver, SetHandler
<1>2. f \in Frame /\ f.pc = "slot" /\ f.exec = e
  BY <1>0 DEF NoFrame, Frame
<1>3. HandlerOk(f)
  BY <1>1, <1>2 DEF HandlerOk
<1>4. HandlerMoves(h, e, f)
  BY <1>1, <1>2 DEF HandlerMoves, Inflight, registryVars, hostVars
<1> QED BY <1>1, <1>3, <1>4, QuietHandlerStep DEF hostVars

LEMMA SlotKeeps ==
  ASSUME SubInv, NEW h \in SubHandler, SubSlot(h)
  PROVE  SubInv'
<1>0. PICK g, f : g = handler[h] /\ f = [g EXCEPT !.pc = "inspect"]
  OBVIOUS
<1>1. /\ g.pc = "slot" /\ handler' = [handler EXCEPT ![h] = f]
      /\ UNCHANGED <<subMode, hostVars, registryVars, recovering, parent>>
  BY <1>0 DEF SubSlot, SetHandler
<1>2. /\ g \in Frame /\ g.exec \in SubExec /\ subMode = "external" /\ hostTask[g.exec] # "none"
      /\ \A k \in SubHandler \ {h} : handler[k].pc # "idle" => handler[k].exec # g.exec
  BY <1>0, <1>1, HandlerOf
<1>3. f \in Frame /\ f.pc = "inspect" /\ f.exec = g.exec
  BY <1>0, <1>2 DEF Frame
<1>4. HandlerOk(f)
  BY <1>2, <1>3 DEF HandlerOk
<1>5. HandlerMoves(h, g.exec, f)
  BY <1>1, <1>2, <1>3 DEF HandlerMoves, registryVars, hostVars
<1> QED BY <1>1, <1>2, <1>4, <1>5, QuietHandlerStep DEF hostVars

LEMMA DisconnectKeeps ==
  ASSUME SubInv, NEW h \in SubHandler, SubDisconnect(h)
  PROVE  SubInv'
<1>0. PICK g, f : g = handler[h] /\ f = Operating(g, "cancelled", "done")
  OBVIOUS
<1>1. /\ g.pc = "slot" /\ handler' = [handler EXCEPT ![h] = f]
      /\ UNCHANGED <<subMode, hostVars, registryVars, recovering, parent>>
  BY <1>0 DEF SubDisconnect, SetHandler
<1>2. /\ g \in Frame /\ g.exec \in SubExec /\ subMode = "external" /\ hostTask[g.exec] # "none"
      /\ \A k \in SubHandler \ {h} : handler[k].pc # "idle" => handler[k].exec # g.exec
  BY <1>0, <1>1, HandlerOf
<1>3. f \in Frame /\ f.pc = "op" /\ f.op = "cancelled" /\ f.exec = g.exec
  BY <1>0, <1>2, OperatingFrame DEF SubTerminal
<1>4. HandlerOk(f)
  BY <1>2, <1>3 DEF HandlerOk, SubTerminal
<1>5. HandlerMoves(h, g.exec, f)
  BY <1>1, <1>2, <1>3 DEF HandlerMoves, registryVars, hostVars
<1> QED BY <1>1, <1>2, <1>4, <1>5, QuietHandlerStep DEF hostVars

LEMMA InspectKeeps ==
  ASSUME SubInv, NEW h \in SubHandler, SubInspect(h)
  PROVE  SubInv'
<1>0. PICK g : g = handler[h]
  OBVIOUS
<1>1. PICK f : /\ handler' = [handler EXCEPT ![h] = f]
               /\ f = Inspected(g, hostTask[g.exec]) \/ f = NoFrame
  BY <1>0 DEF SubInspect, SetHandler
<1>2. g.pc = "inspect" /\ UNCHANGED <<subMode, hostVars, registryVars, recovering, parent>>
  BY <1>0 DEF SubInspect
<1>3. /\ g \in Frame /\ g.exec \in SubExec /\ subMode = "external" /\ hostTask[g.exec] # "none"
      /\ \A k \in SubHandler \ {h} : handler[k].pc # "idle" => handler[k].exec # g.exec
  BY <1>0, <1>2, HandlerOf
<1>4. hostTask[g.exec] \in SubTerminal \cup {"queued", "running"}
  BY <1>3 DEF SubInv, TypeInv, HostStatus
<1>5. \/ f = NoFrame
      \/ f = Operating(g, "failed", "done")
      \/ f = Operating(g, "running", "none") /\ hostTask[g.exec] = "queued"
  BY <1>1, <1>4 DEF Inspected
<1>6. \/ f \in Frame /\ f.pc = "idle"
      \/ /\ f \in Frame /\ f.pc = "op" /\ f.exec = g.exec
         /\ f.op = "failed" \/ (f.op = "running" /\ hostTask[g.exec] = "queued")
  <2>1. CASE f = NoFrame
    BY <2>1, NoFrameIsFrame
  <2>2. CASE f = Operating(g, "failed", "done")
    <3>1. "failed" \in SubTerminal \cup {"running"} /\ "done" \in {"none", "done"}
      BY DEF SubTerminal
    <3> QED BY <1>3, <2>2, <3>1, OperatingFrame
  <2>3. CASE f = Operating(g, "running", "none") /\ hostTask[g.exec] = "queued"
    BY <1>3, <2>3, OperatingFrame
  <2> QED BY <1>5, <2>1, <2>2, <2>3
<1>7. HandlerOk(f)
  BY <1>3, <1>6 DEF HandlerOk, SubTerminal
<1>8. HandlerMoves(h, g.exec, f)
  BY <1>1, <1>2, <1>3, <1>6 DEF HandlerMoves, registryVars, hostVars
<1> QED BY <1>2, <1>3, <1>7, <1>8, QuietHandlerStep DEF hostVars

\* What an operation of a delivery leads to.
LEMMA HandlerAfterFrame ==
  ASSUME NEW f, f \in Frame, NEW ok, ok \in BOOLEAN
  PROVE  \/ HandlerAfter(f, ok) = NoFrame
         \/ /\ f.op = "running" /\ ok /\ HandlerAfter(f, ok) \in Frame
            /\ HandlerAfter(f, ok).pc = "run" /\ HandlerAfter(f, ok).exec = f.exec
<1>1. CASE f.op = "running" /\ ok
  <2>1. HandlerAfter(f, ok) = [f EXCEPT !.pc = "run"]
    BY <1>1 DEF HandlerAfter
  <2>2. [f EXCEPT !.pc = "run"] \in Frame /\ [f EXCEPT !.pc = "run"].pc = "run"
        /\ [f EXCEPT !.pc = "run"].exec = f.exec
    BY DEF Frame
  <2> QED BY <1>1, <2>1, <2>2
<1>2. CASE ~(f.op = "running" /\ ok)
  BY <1>2 DEF HandlerAfter
<1> QED BY <1>1, <1>2

LEMMA ExecutorOperateKeeps ==
  ASSUME SubInv, NEW h \in SubHandler, SubExecutorOperate(h)
  PROVE  SubInv'
<1>0. PICK g, e : g = handler[h] /\ e = g.exec
  OBVIOUS
<1>1. /\ g.pc = "op"
      /\ Acknowledged(g) \/ Refused(g) \/ Unanswered(g)
      /\ UNCHANGED <<subMode, registryVars, recovering, parent, bodies>>
  BY <1>0 DEF SubExecutorOperate, Acknowledged, Refused, Unanswered
<1>2. /\ g \in Frame /\ HandlerOk(g) /\ e \in SubExec /\ subMode = "external" /\ hostTask[e] # "none"
      /\ \A k \in SubHandler \ {h} : handler[k].pc # "idle" => handler[k].exec # e
  BY <1>0, <1>1, HandlerOf
<1>3. /\ g.op \in SubTerminal \cup {"running"}
      /\ g.op = "running" => hostTask[e] = "queued"
  BY <1>0, <1>1, <1>2 DEF HandlerOk
<1>4. /\ HostOnly(e) /\ HostSettles /\ hostTask'[e] \in {hostTask[e], g.op}
      /\ Acknowledged(g) => hostTask'[e] = g.op
  BY <1>0, <1>1, <1>2, <1>3, HostDoes
<1>5. TypeInv /\ bodies[e] <= 1 /\ (hostTask[e] = "queued" => bodies[e] = 0) /\ bodies' = bodies
  BY <1>1, <1>2 DEF SubInv, BodyInv
<1>6. PICK f : /\ handler' = [handler EXCEPT ![h] = f]
               /\ \/ Acknowledged(g) /\ f = HandlerAfter(g, TRUE)
                  \/ f = [g EXCEPT !.pc = "confirm"]
  BY <1>0 DEF SubExecutorOperate, SetHandler
<1>7. \/ f \in Frame /\ f.pc = "idle"
      \/ f \in Frame /\ f.pc = "run" /\ f.exec = e /\ g.op = "running" /\ hostTask'[e] = "running"
      \/ f \in Frame /\ f.pc = "confirm" /\ f.exec = e /\ f.op = g.op
  <2>1. CASE Acknowledged(g) /\ f = HandlerAfter(g, TRUE)
    BY <1>0, <1>2, <1>4, <2>1, HandlerAfterFrame, NoFrameIsFrame
  <2>2. CASE f = [g EXCEPT !.pc = "confirm"]
    BY <1>0, <1>2, <2>2 DEF Frame
  <2> QED BY <1>6, <2>1, <2>2
<1>8. HandlerOk(f)'
  <2>1. CASE f.pc = "idle"
    BY <2>1 DEF HandlerOk
  <2>2. CASE f.pc = "run"
    <3>1. f.exec = e /\ g.op = "running" /\ hostTask'[e] = "running"
      BY <1>7, <2>2
    <3>2. bodies'[e] = 0 /\ subMode' = "external"
      BY <1>1, <1>2, <1>3, <1>5, <3>1
    <3> QED BY <1>2, <2>2, <3>1, <3>2 DEF HandlerOk
  <2>3. CASE f.pc = "confirm"
    <3>1. f.exec = e /\ f.op = g.op /\ hostTask'[e] # "none" /\ subMode' = "external"
      BY <1>1, <1>2, <1>4, <1>7, <2>3 DEF HostSettles
    <3>2. f.op = "running" => hostTask'[e] \in {"queued", "running"} /\ bodies'[e] = 0
      BY <1>3, <1>4, <1>5, <3>1
    <3> QED BY <1>2, <1>3, <2>3, <3>1, <3>2 DEF HandlerOk
  <2> QED BY <1>7, <2>1, <2>2, <2>3
<1>9. HandlerMoves(h, e, f)
  BY <1>1, <1>2, <1>6, <1>7 DEF HandlerMoves, registryVars
<1>10. hostTask'[e] = "queued" => bodies'[e] = 0
  BY <1>3, <1>4, <1>5 DEF SubTerminal
<1> QED BY <1>2, <1>4, <1>5, <1>8, <1>9, <1>10, HandlerStep DEF TypeInv

LEMMA ExecutorConfirmKeeps ==
  ASSUME SubInv, NEW h \in SubHandler, SubExecutorConfirm(h)
  PROVE  SubInv'
<1>0. PICK g, e : g = handler[h] /\ e = g.exec
  OBVIOUS
<1>1. g.pc = "confirm" /\ UNCHANGED <<subMode, hostVars, registryVars, recovering, parent>>
  BY <1>0 DEF SubExecutorConfirm
<1>2. /\ g \in Frame /\ HandlerOk(g) /\ e \in SubExec /\ subMode = "external" /\ hostTask[e] # "none"
      /\ \A k \in SubHandler \ {h} : handler[k].pc # "idle" => handler[k].exec # e
  BY <1>0, <1>1, HandlerOf
<1>3. PICK ok, f : /\ ok \in BOOLEAN /\ (ok => hostTask[e] = g.op)
                  /\ handler' = [handler EXCEPT ![h] = f] /\ f = HandlerAfter(g, ok)
  BY <1>0 DEF SubExecutorConfirm, SetHandler, Confirmed
<1>4. \/ f \in Frame /\ f.pc = "idle"
      \/ f \in Frame /\ f.pc = "run" /\ f.exec = e /\ g.op = "running" /\ hostTask[e] = "running"
  BY <1>0, <1>2, <1>3, HandlerAfterFrame, NoFrameIsFrame
<1>5. g.op = "running" => bodies[e] = 0
  BY <1>0, <1>1, <1>2 DEF HandlerOk
<1>6. HandlerOk(f)
  BY <1>2, <1>4, <1>5 DEF HandlerOk
<1>7. HandlerMoves(h, e, f)
  BY <1>1, <1>2, <1>3, <1>4 DEF HandlerMoves, registryVars, hostVars
<1> QED BY <1>1, <1>2, <1>6, <1>7, QuietHandlerStep DEF hostVars

LEMMA ExecuteKeeps ==
  ASSUME SubInv, NEW h \in SubHandler, SubExecute(h)
  PROVE  SubInv'
<1>0. PICK g, e, f : g = handler[h] /\ e = g.exec /\ f = [g EXCEPT !.pc = "body"]
  OBVIOUS
<1>1. /\ g.pc = "run" /\ bodies' = [bodies EXCEPT ![e] = bodies[e] + 1]
      /\ handler' = [handler EXCEPT ![h] = f]
      /\ UNCHANGED <<subMode, hostTask, registryVars, recovering, parent>>
  BY <1>0 DEF SubExecute, SetHandler
<1>2. /\ g \in Frame /\ HandlerOk(g) /\ e \in SubExec /\ subMode = "external" /\ hostTask[e] # "none"
      /\ \A k \in SubHandler \ {h} : handler[k].pc # "idle" => handler[k].exec # e
  BY <1>0, <1>1, HandlerOf
<1>3. hostTask[e] = "running" /\ bodies[e] = 0
  BY <1>0, <1>1, <1>2 DEF HandlerOk
<1>4. f \in Frame /\ f.pc = "body" /\ f.exec = e
  BY <1>0, <1>2 DEF Frame
<1>5. HandlerOk(f)'
  BY <1>1, <1>2, <1>4 DEF HandlerOk
<1>6. HandlerMoves(h, e, f)
  BY <1>1, <1>2, <1>4 DEF HandlerMoves, registryVars
<1>7. TypeInv
  BY DEF SubInv
<1>8. HostSettles /\ HostOnly(e) /\ bodies' \in [SubExec -> Nat] /\ bodies'[e] <= 1
      /\ (\A d \in SubExec \ {e} : bodies'[d] = bodies[d]) /\ hostTask'[e] # "queued"
  BY <1>1, <1>2, <1>3, <1>7 DEF HostSettles, HostOnly, TypeInv
<1> QED BY <1>2, <1>5, <1>6, <1>8, HandlerStep

LEMMA ExecutedKeeps ==
  ASSUME SubInv, NEW h \in SubHandler, SubExecuted(h)
  PROVE  SubInv'
<1>0. PICK g, e : g = handler[h] /\ e = g.exec
  OBVIOUS
<1>1. PICK op \in SubTerminal : handler' = [handler EXCEPT ![h] = Operating(g, op, "done")]
  BY <1>0 DEF SubExecuted, SetHandler
<1>2. g.pc = "body" /\ UNCHANGED <<subMode, hostVars, registryVars, recovering, parent>>
  BY <1>0 DEF SubExecuted
<1>3. /\ g \in Frame /\ e \in SubExec /\ subMode = "external" /\ hostTask[e] # "none"
      /\ \A k \in SubHandler \ {h} : handler[k].pc # "idle" => handler[k].exec # e
  BY <1>0, <1>2, HandlerOf
<1>4. PICK f : f = Operating(g, op, "done")
  OBVIOUS
<1>5. f \in Frame /\ f.pc = "op" /\ f.op = op /\ f.exec = e
  <2>1. op \in SubTerminal \cup {"running"} /\ "done" \in {"none", "done"}
    OBVIOUS
  <2> QED BY <1>0, <1>3, <1>4, <2>1, OperatingFrame
<1>6. HandlerOk(f)
  BY <1>3, <1>5 DEF HandlerOk, SubTerminal
<1>7. HandlerMoves(h, e, f)
  BY <1>1, <1>2, <1>3, <1>4, <1>5 DEF HandlerMoves, registryVars, hostVars
<1> QED BY <1>2, <1>3, <1>6, <1>7, QuietHandlerStep DEF hostVars

LEMMA ExecutorCrashKeeps ==
  ASSUME SubInv, SubExecutorCrash
  PROVE  SubInv'
<1>1. /\ handler' = [h \in SubHandler |-> NoFrame]
      /\ UNCHANGED <<subMode, hostVars, registryVars, recovering, parent>>
  BY DEF SubExecutorCrash
<1>2. TypeInv'
  BY <1>1, NoFrameIsFrame DEF SubInv, TypeInv, hostVars, registryVars
<1>3. HandlerInv'
  BY <1>1, NoFrameIsFrame DEF HandlerInv, HandlerOk
<1>4. ParentInv' /\ BodyInv'
  BY <1>1 DEF SubInv, ParentInv, ParentOk, BeforeBody, BodyInv, hostVars
<1>5. RecordInv' /\ SubRecordTruthful' /\ SubNoGhost'
  BY <1>1 DEF SubInv, RecordInv, SubRecordTruthful, SubNoGhost, OpenRecords, hostVars, registryVars
<1> QED BY <1>2, <1>3, <1>4, <1>5 DEF SubInv

-----------------------------------------------------------------------------
\* A step of the host on behalf of a recovery: open tasks of a local parent
\* are failed.
HostFails ==
    /\ hostTask' \in [SubExec -> HostStatus]
    /\ \A e \in SubExec : hostTask'[e] = hostTask[e] \/ (Orphaned(e) /\ hostTask'[e] = "failed")
    /\ UNCHANGED <<subMode, indexed, unseen, parent, handler, bodies>>

LEMMA HostFailsKeeps ==
  ASSUME SubInv, HostFails
  PROVE  ParentInv' /\ HandlerInv' /\ BodyInv' /\ HostSettles
<1>1. \A e \in SubExec : hostTask'[e] # hostTask[e] =>
          subMode = "local" /\ hostTask[e] \in {"queued", "running"} /\ hostTask'[e] = "failed"
  BY DEF HostFails, Orphaned
<1>2. HostSettles
  BY <1>1 DEF HostSettles, SubTerminal
<1>3. ParentInv'
  <2> SUFFICES ASSUME NEW e \in SubExec PROVE ParentOk(e, parent[e])'
    BY DEF ParentInv
  <2>1. ParentOk(e, parent[e]) /\ UNCHANGED <<subMode, parent, bodies>>
    BY DEF SubInv, ParentInv, HostFails
  <2>2. /\ hostTask[e] = "none" => hostTask'[e] = "none"
        /\ hostTask[e] \in SubTerminal => hostTask'[e] = hostTask[e]
    BY <1>1 DEF SubTerminal
  <2> QED BY <2>1, <2>2 DEF ParentOk, BeforeBody
<1>4. HandlerInv'
  <2>1. ASSUME NEW h \in SubHandler PROVE HandlerOk(handler[h])'
    <3>1. HandlerOk(handler[h]) /\ UNCHANGED <<subMode, handler, bodies>>
      BY DEF SubInv, HandlerInv, HostFails
    <3>2. CASE handler[h].pc = "idle"
      BY <3>1, <3>2 DEF HandlerOk
    <3>3. CASE handler[h].pc # "idle"
      <4>1. subMode = "external" /\ handler[h].exec \in SubExec
        BY <3>1, <3>3 DEF HandlerOk
      <4>2. hostTask'[handler[h].exec] = hostTask[handler[h].exec]
        BY <1>1, <4>1
      <4> QED BY <3>1, <4>2 DEF HandlerOk
    <3> QED BY <3>2, <3>3
  <2> QED BY <2>1 DEF SubInv, HandlerInv, HostFails
<1>5. BodyInv'
  <2>1. ASSUME NEW e \in SubExec
        PROVE  /\ bodies'[e] <= 1
               /\ subMode' = "external" /\ hostTask'[e] \in {"none", "queued"} => bodies'[e] = 0
    BY <1>1 DEF SubInv, BodyInv, HostFails
  <2> QED BY <2>1 DEF BodyInv
<1> QED BY <1>2, <1>3, <1>4, <1>5

LEMMA RecoverKeeps ==
  ASSUME SubInv, SubRecover
  PROVE  SubInv'
<1>1. TypeInv /\ RecordInv /\ SubRecordTruthful
  BY DEF SubInv
<1>2. PICK found : found = IF indexed THEN OpenRecords ELSE {}
  OBVIOUS
<1>3. /\ recovering' = FALSE
      /\ record' = [c \in SubThread |->
             IF c \in found
             THEN [record[c] EXCEPT !.status = RecoveredStatus(record[c].of, record[c].status)]
             ELSE record[c]]
      /\ hostTask' = [e \in SubExec |->
             IF Orphaned(e) /\ \E c \in found : record[c].of = e THEN "failed" ELSE hostTask[e]]
      /\ UNCHANGED <<subMode, indexed, unseen, parent, handler, bodies>>
  BY <1>2 DEF SubRecover
<1>4. \A c \in SubThread : c \in found <=> record[c].status \in SubOpen
  BY <1>1, <1>2 DEF RecordInv, OpenRecords, SubOpen
<1>5. HostFails
  BY <1>1, <1>3 DEF HostFails, TypeInv, HostStatus, SubTerminal
<1>6. ParentInv' /\ HandlerInv' /\ BodyInv' /\ HostSettles
  BY <1>5, HostFailsKeeps
<1>7. \A c \in SubThread : c \in found =>
          record[c].of \in SubExec /\ record[c].status \in SubOpen
          /\ hostTask[record[c].of] \in HostStatus
  BY <1>1, <1>4 DEF RecordInv, SubOpen, TypeInv
<1>8. \A c \in SubThread :
          /\ c \notin found => record'[c] = record[c]
          /\ c \in found => record'[c].of = record[c].of
                            /\ record'[c].status = RecoveredStatus(record[c].of, record[c].status)
  BY <1>1, <1>3 DEF TypeInv
<1>9. ASSUME NEW c \in SubThread, c \in found
      PROVE  /\ RecoveredStatus(record[c].of, record[c].status)
                    \in SubTerminal \cup SubOpen \cup {"none", "interrupted"}
             /\ RecoveredStatus(record[c].of, record[c].status) \in SubTerminal =>
                    hostTask[record[c].of] = RecoveredStatus(record[c].of, record[c].status)
             /\ subMode = "local" =>
                    RecoveredStatus(record[c].of, record[c].status) \notin SubOpen
  <2>1. PICK e, status : e = record[c].of /\ status = record[c].status
    OBVIOUS
  <2>2. e \in SubExec /\ status \in SubOpen /\ hostTask[e] \in HostStatus
    BY <1>7, <1>9, <2>1
  <2>3. PICK r : r = RecoveredStatus(e, status)
    OBVIOUS
  <2>4. \/ r = "interrupted"
        \/ r = status /\ ~Orphaned(e) /\ hostTask[e] = "queued"
        \/ r = hostTask[e] /\ ~Orphaned(e) /\ hostTask[e] # "queued"
    <3>1. CASE Orphaned(e)
      BY <2>3, <3>1 DEF RecoveredStatus
    <3>2. CASE ~Orphaned(e) /\ hostTask[e] = "queued"
      BY <2>3, <3>2 DEF RecoveredStatus
    <3>3. CASE ~Orphaned(e) /\ hostTask[e] # "queued"
      BY <2>3, <3>3 DEF RecoveredStatus
    <3> QED BY <3>1, <3>2, <3>3
  <2>5. /\ r \in SubTerminal \cup SubOpen \cup {"none", "interrupted"}
        /\ r \in SubTerminal => hostTask[e] = r
        /\ subMode = "local" => r \notin SubOpen
    BY <2>2, <2>4 DEF Orphaned, HostStatus, SubTerminal, SubOpen
  <2> QED BY <2>1, <2>3, <2>5
<1>10. TypeInv'
  <2>1. \A c \in SubThread : record'[c] \in
           [status : SubTerminal \cup SubOpen \cup {"none", "interrupted"}, of : SubExec \cup {0}]
    <3> SUFFICES ASSUME NEW c \in SubThread
                 PROVE  record'[c] \in [status : SubTerminal \cup SubOpen \cup {"none", "interrupted"},
                                        of : SubExec \cup {0}]
      OBVIOUS
    <3>1. record[c] \in [status : SubTerminal \cup SubOpen \cup {"none", "interrupted"},
                         of : SubExec \cup {0}]
      BY <1>1 DEF TypeInv
    <3>2. CASE c \in found
      <4>1. record'[c] = [record[c] EXCEPT !.status = RecoveredStatus(record[c].of, record[c].status)]
        BY <1>3, <3>2
      <4> QED BY <1>9, <3>1, <3>2, <4>1
    <3>3. CASE c \notin found
      BY <1>8, <3>1, <3>3
    <3> QED BY <3>2, <3>3
  <2>2. record' \in [SubThread -> [status : SubTerminal \cup SubOpen \cup {"none", "interrupted"},
                                   of : SubExec \cup {0}]]
    BY <1>3, <2>1
  <2> QED BY <1>1, <1>3, <1>5, <2>2 DEF TypeInv, HostFails
<1>11. RecordInv'
  <2>1. ASSUME NEW c \in SubThread, record'[c].status # "none"
        PROVE  /\ indexed' /\ record'[c].of \in SubExec /\ ThreadOf[record'[c].of] = c
               /\ parent'[record'[c].of].pc # "idle"
    <3>1. record[c].status # "none" /\ record'[c].of = record[c].of
      BY <1>7, <1>8, <2>1 DEF SubOpen
    <3> QED BY <1>1, <1>3, <3>1 DEF RecordInv
  <2> QED BY <2>1 DEF RecordInv
<1>12. SubRecordTruthful'
  <2>1. ASSUME NEW c \in SubThread, record'[c].status \in SubTerminal
        PROVE  hostTask'[record'[c].of] = record'[c].status
    <3>1. CASE c \in found
      BY <1>6, <1>7, <1>8, <1>9, <2>1, <3>1 DEF HostSettles
    <3>2. CASE c \notin found
      <4>1. record[c].of \in SubExec /\ hostTask[record[c].of] = record[c].status
        BY <1>1, <1>8, <2>1, <3>2 DEF RecordInv, SubRecordTruthful, SubTerminal
      <4> QED BY <1>6, <1>8, <2>1, <3>2, <4>1 DEF HostSettles
    <3> QED BY <3>1, <3>2
  <2> QED BY <2>1 DEF SubRecordTruthful
<1>13. SubNoGhost'
  <2>1. ASSUME subMode' = "local", NEW c \in SubThread
        PROVE  record'[c].status \notin SubOpen
    BY <1>3, <1>4, <1>8, <1>9, <2>1
  <2> QED BY <2>1 DEF SubNoGhost, OpenRecords
<1> QED BY <1>6, <1>10, <1>11, <1>12, <1>13 DEF SubInv

LEMMA RecoverFailsKeeps ==
  ASSUME SubInv, SubRecoverFails
  PROVE  SubInv'
<1>1. TypeInv /\ RecordInv
  BY DEF SubInv
<1>2. /\ recovering /\ UNCHANGED <<subMode, registryVars, recovering, parent, handler, bodies>>
      /\ \/ hostTask' = hostTask
         \/ \E c \in OpenRecords : /\ Orphaned(record[c].of)
                                   /\ hostTask' = [hostTask EXCEPT ![record[c].of] = "failed"]
  BY DEF SubRecoverFails, HostApplies
<1>3. HostFails
  <2>1. CASE hostTask' = hostTask
    BY <1>1, <1>2, <2>1 DEF HostFails, TypeInv, registryVars
  <2>2. ASSUME NEW c \in OpenRecords, Orphaned(record[c].of),
               hostTask' = [hostTask EXCEPT ![record[c].of] = "failed"]
        PROVE  HostFails
    <3>1. record[c].of \in SubExec
      BY <1>1 DEF OpenRecords, RecordInv, SubOpen
    <3> QED BY <1>1, <1>2, <2>2, <3>1 DEF HostFails, TypeInv, registryVars, HostStatus, SubTerminal
  <2> QED BY <1>2, <2>1, <2>2
<1>4. ParentInv' /\ HandlerInv' /\ BodyInv' /\ HostSettles
  BY <1>3, HostFailsKeeps
<1>5. TypeInv' /\ RecordInv' /\ SubNoGhost'
  BY <1>1, <1>2, <1>3 DEF TypeInv, RecordInv, SubNoGhost, HostFails, registryVars
<1>6. SubRecordTruthful'
  BY <1>2, <1>4, RecordsStay DEF registryVars
<1> QED BY <1>4, <1>5, <1>6 DEF SubInv

LEMMA ParentCrashKeeps ==
  ASSUME SubInv, SubParentCrash
  PROVE  SubInv'
<1>1. TypeInv /\ ParentInv /\ RecordInv
  BY DEF SubInv
<1>2. /\ parent' = [e \in SubExec |-> IF parent[e].pc \in {"idle", "done"} THEN parent[e]
                                     ELSE [parent[e] EXCEPT !.pc = "lost"]]
      /\ recovering' = TRUE /\ UNCHANGED <<subMode, hostVars, registryVars, handler>>
  BY DEF SubParentCrash
<1>3. ASSUME NEW e \in SubExec
      PROVE  /\ parent'[e] \in Frame /\ ParentOk(e, parent[e])'
             /\ parent[e].pc # "idle" => parent'[e].pc # "idle"
  <2>1. parent[e] \in Frame /\ ParentOk(e, parent[e])
    BY <1>1 DEF TypeInv, ParentInv
  <2>2. CASE parent[e].pc \in {"idle", "done"}
    <3>1. parent'[e] = parent[e]
      BY <1>2, <2>2
    <3> QED BY <1>2, <2>1, <3>1 DEF ParentOk, BeforeBody, hostVars
  <2>3. CASE parent[e].pc \notin {"idle", "done"}
    <3>1. parent'[e] = [parent[e] EXCEPT !.pc = "lost"]
      BY <1>2, <2>3
    <3>2. parent'[e] \in Frame /\ parent'[e].pc = "lost" /\ parent'[e].exec = parent[e].exec
      BY <2>1, <3>1 DEF Frame
    <3> QED BY <1>2, <2>1, <3>2 DEF ParentOk, BeforeBody, hostVars
  <2> QED BY <2>2, <2>3
<1>4. TypeInv'
  BY <1>1, <1>2, <1>3 DEF TypeInv, hostVars, registryVars
<1>5. ParentInv'
  BY <1>3 DEF ParentInv
<1>6. HandlerInv' /\ BodyInv'
  BY <1>2 DEF SubInv, HandlerInv, HandlerOk, BodyInv, hostVars
<1>7. RecordInv'
  BY <1>1, <1>2, <1>3 DEF RecordInv, registryVars
<1>8. SubRecordTruthful' /\ SubNoGhost'
  BY <1>2 DEF SubInv, SubRecordTruthful, SubNoGhost, hostVars, registryVars
<1> QED BY <1>4, <1>5, <1>6, <1>7, <1>8 DEF SubInv

-----------------------------------------------------------------------------
LEMMA InitialSub == SubInit => SubInv
<1> SUFFICES ASSUME SubInit PROVE SubInv
  OBVIOUS
<1>1. \A e \in SubExec : /\ parent[e] \in Frame /\ parent[e].exec = e /\ parent[e].pc = "idle"
                         /\ hostTask[e] = "none" /\ bodies[e] = 0
  BY DEF SubInit, NoFrame, Frame
<1>2. \A c \in SubThread : record[c].status = "none" /\ record[c].of = 0
  BY DEF SubInit
<1>3. \A h \in SubHandler : handler[h] \in Frame /\ handler[h].pc = "idle"
  BY NoFrameIsFrame DEF SubInit
<1>4. subMode \in {"local", "external"}
  BY SubagentAssumption DEF SubInit
<1>5. TypeInv
  BY <1>1, <1>3, <1>4 DEF SubInit, TypeInv, HostStatus
<1>6. ParentInv
  BY <1>1, <1>4 DEF ParentInv, ParentOk
<1>7. HandlerInv
  BY <1>3 DEF HandlerInv, HandlerOk
<1>8. BodyInv /\ RecordInv /\ SubRecordTruthful /\ SubNoGhost
  BY <1>1, <1>2 DEF BodyInv, RecordInv, SubRecordTruthful, SubNoGhost, OpenRecords,
                    SubTerminal, SubOpen
<1> QED BY <1>5, <1>6, <1>7, <1>8 DEF SubInv

LEMMA StepKeeps ==
  ASSUME SubInv, [SubNext]_subVars
  PROVE  SubInv'
<1>1. CASE UNCHANGED subVars
  <2>1. TypeInv' /\ HandlerInv' /\ ParentInv'
    BY <1>1 DEF SubInv, TypeInv, HandlerInv, HandlerOk, ParentInv, ParentOk, BeforeBody, subVars
  <2>2. BodyInv' /\ RecordInv' /\ SubRecordTruthful' /\ SubNoGhost'
    BY <1>1 DEF SubInv, BodyInv, RecordInv, SubRecordTruthful, SubNoGhost, OpenRecords, subVars
  <2> QED BY <2>1, <2>2 DEF SubInv
<1>2. ASSUME NEW e \in SubExec,
             \/ SubAdmit(e) \/ SubAdmitFails(e) \/ SubStart(e) \/ SubRun(e) \/ SubReturn(e)
             \/ SubOperate(e) \/ SubConfirm(e) \/ SubAwait(e) \/ SubIndex(e)
             \/ SubNote(e) \/ SubNoteLost(e) \/ Redeliver(e)
      PROVE  SubInv'
  BY <1>2, AdmitKeeps, AdmitFailsKeeps, StartKeeps, RunKeeps, ReturnKeeps, OperateKeeps,
     ConfirmKeeps, AwaitKeeps, IndexKeeps, NoteKeeps, NoteLostKeeps, DeliverKeeps DEF Redeliver
<1>3. CASE SubRecover \/ SubRecoverFails \/ SubParentCrash \/ SubExecutorCrash
  BY <1>3, RecoverKeeps, RecoverFailsKeeps, ParentCrashKeeps, ExecutorCrashKeeps
<1>4. ASSUME NEW h \in SubHandler,
             \/ SubSlot(h) \/ SubInspect(h) \/ SubExecutorOperate(h) \/ SubExecutorConfirm(h)
             \/ SubExecute(h) \/ SubExecuted(h) \/ SubDisconnect(h)
      PROVE  SubInv'
  BY <1>4, SlotKeeps, InspectKeeps, ExecutorOperateKeeps, ExecutorConfirmKeeps, ExecuteKeeps,
     ExecutedKeeps, DisconnectKeeps
<1> QED BY <1>1, <1>2, <1>3, <1>4 DEF SubNext

LEMMA SubInvariant == SubSpec => []SubInv
<1>1. SubInit => SubInv
  BY InitialSub
<1>2. SubInv /\ [SubNext]_subVars => SubInv'
  BY StepKeeps
<1> QED BY <1>1, <1>2, PTL DEF SubSpec

\* The states of tasks, records and goroutines are the ones the code knows,
\* whatever the parent, the host and the executors do.
THEOREM SubagentsTyped == SubSpec => []SubTypeOK
<1>1. SubInv => SubTypeOK
  BY DEF SubInv, TypeInv, SubTypeOK, HostStatus, ParentInv, ParentOk
<1> QED BY <1>1, SubInvariant, PTL

\* A child runs once at most (startSubagent and HandleAssignment, both with
\* confirmOperation), a record that names an outcome names the host's
\* (finishSubagent), and after a restart no record shows as open a local
\* child nobody runs (Recover): with any number of children, deliveries,
\* lost replies and crashes of the parent and of the executor.
THEOREM SubagentsAreSound == SubSpec => []SubSound
<1>1. SubInv => SubSound
  BY DEF SubInv, BodyInv, SubSound, SubRunsOnce
<1> QED BY <1>1, SubInvariant, PTL

-----------------------------------------------------------------------------
(* The tool bodies. *)

USE ApprAssumption

\* No two calls share both their task and their call id.
CallsAreDistinct == \A c, d \in ApprCall : KeyOf(c) = KeyOf(d) => c = d

\* A local tool that wants a fresh approval asks for one itself: trustBase
\* counts on it (authz.go:91), and the one such tool of the repository asks
\* for the changes that need it (refinement/tools.go).
FreshToolsAsk ==
    \A k \in ToolKinds, t \in ApprTool :
        k[t].local /\ k[t].trust = "fresh" => k[t].policy # "allow"

CallStage  == Settled \cup {"queued", "prompted", "asking"}
PartStatus == {"none", "pending", "approved", "denied", "expired"}

TypesInv ==
    /\ toolKind \in ToolKinds
    /\ call \in [ApprCall -> CallStage] /\ part \in [ApprCall -> PartStatus]
    /\ DOMAIN waiters = BrokerKeys /\ DOMAIN channel = ApprCall
    /\ sessionGrants \subseteq ApprTool /\ durableGrants \subseteq ApprTool
    /\ aborted \subseteq cancelled /\ cancelled \subseteq ApprTurn

\* A decision reaches the call it was given for.
AnswerInv ==
    /\ \A k \in BrokerKeys : waiters[k] # NoDecision => waiters[k] \in ApprCall /\ KeyOf(waiters[k]) = k
    /\ \A c \in ApprCall : channel[c] # NoDecision => channel[c].for = c

\* A standing grant was given, and only to a tool that may have one.
GrantInv ==
    \A u \in sessionGrants \cup durableGrants :
        /\ toolKind[u].trust # "fresh"
        /\ \E a \in approved : a.tool = u /\ a.scope # "once"

\* A call is past its authorization by right only.
RightInv ==
    \A c \in ApprCall : call[c] \in {"admitted", "running", "ran"} => ApprovalCovers(c)

\* How far the other calls of a batch are.
OrderInv ==
    /\ \A c \in ApprCall : \A d \in Before(c) :
          /\ ~parallel[TurnOfCall[c]] /\ call[c] # "queued" => call[d] = "recorded"
          /\ call[c] = "recorded" => call[d] = "recorded"
    /\ \A c \in ApprCall : parallel[TurnOfCall[c]] /\ call[c] = "running" =>
          \A d \in CallsOf(TurnOfCall[c]) : call[d] \in Settled

ApprInv == TypesInv /\ AnswerInv /\ GrantInv /\ RightInv /\ OrderInv

(***************************************************************************)
(* What a step that moves the stage of one call does to the order of its   *)
(* batch: a stage never goes back (parallel_tools.go, runParallelToolBatch;*)
(* tool_loop.go, runProviderLoop).                                         *)
(***************************************************************************)
LEMMA StageKeepsOrder ==
    ASSUME OrderInv, TypesInv, NEW c \in ApprCall, NEW s \in CallStage, parallel' = parallel,
           call' = [call EXCEPT ![c] = s],
           call[c] # "recorded",
           call[c] = "queued" => MayConsider(c),
           call[c] \in Settled => s \in Settled,
           s # "queued",
           s = "recorded" => \A d \in Before(c) : call[d] = "recorded",
           s = "running" /\ parallel[TurnOfCall[c]] =>
               \A d \in CallsOf(TurnOfCall[c]) : call[d] \in Settled
    PROVE  OrderInv'
<1>1. \A d \in ApprCall : call'[d] = IF d = c THEN s ELSE call[d]
  BY DEF TypesInv
<1>2. \A d \in ApprCall : (call[d] = "recorded" => call'[d] = "recorded")
                          /\ (call[d] \in Settled => call'[d] \in Settled)
  BY <1>1
<1>3. ASSUME NEW x \in ApprCall, NEW d \in Before(x)
      PROVE  /\ ~parallel[TurnOfCall[x]] /\ call'[x] # "queued" => call'[d] = "recorded"
             /\ call'[x] = "recorded" => call'[d] = "recorded"
  <2>1. d \in ApprCall /\ d \in Before(x)
    BY DEF Before, CallsOf
  <2>2. CASE x = c
    <3>1. ~parallel[TurnOfCall[c]] => call[d] = "recorded"
      BY <2>1, <2>2 DEF OrderInv, MayConsider
    <3> QED BY <1>1, <1>2, <2>1, <2>2, <3>1
  <2>3. CASE x # c
    BY <1>1, <1>2, <2>1, <2>3 DEF OrderInv
  <2> QED BY <2>2, <2>3
<1>4. ASSUME NEW x \in ApprCall, parallel[TurnOfCall[x]], call'[x] = "running",
             NEW d \in CallsOf(TurnOfCall[x])
      PROVE  call'[d] \in Settled
  <2>1. d \in ApprCall
    BY DEF CallsOf
  <2>2. call[d] \in Settled
    BY <1>1, <1>4 DEF OrderInv
  <2> QED BY <1>2, <2>1, <2>2
<1> QED BY <1>3, <1>4 DEF OrderInv, Before, CallsOf

(***************************************************************************)
(* A right once had is kept: kinds stay and approvals accumulate.          *)
(***************************************************************************)
LEMMA RightStays ==
    ASSUME toolKind' = toolKind, approved \subseteq approved', NEW c
    PROVE  ApprovalCovers(c) => ApprovalCovers(c)'
BY DEF ApprovalCovers, KindOfCall

(***************************************************************************)
(* What the hooks, the policy, the grants and safety let through without a *)
(* prompt is covered (authz.go, authorizeToolProvider; tool_approval.go,   *)
(* invokeWithApproval).                                                    *)
(***************************************************************************)
LEMMA AllowedIsCovered ==
    ASSUME FreshToolsAsk, ApprInv, NEW c \in ApprCall, NEW readable \in BOOLEAN, NEW granted,
           granted = (ConsultsGrants(c) /\ GrantAllows(c, readable)),
           Verdict(c, granted) = "allow"
    PROVE  ApprovalCovers(c)
<1> DEFINE k == KindOfCall(c)
           u == ToolOfCall[c]
<1>1. k = toolKind[u] /\ u \in ApprTool /\ k \in ToolKind
  BY DEF KindOfCall, ApprInv, TypesInv
<1>2. k.local /\ k.trust = "fresh" => k.policy # "allow"
  BY <1>1 DEF ApprInv, TypesInv, FreshToolsAsk
<1>3. u \in sessionGrants \cup durableGrants =>
         k.trust # "fresh" /\ \E a \in approved : a.tool = u /\ a.scope # "once"
  BY <1>1 DEF ApprInv, GrantInv
<1>4. granted => k.trust # "fresh" /\ (k.trust = "pre" \/ u \in durableGrants)
  BY DEF GrantAllows
<1>5. k.safety = "allow"
  BY <1>1 DEF Verdict, LocalVerdict, ProviderVerdict, ToolKind
<1>6. CASE k.local
  <2>1. k.policy = "allow" \/ u \in sessionGrants \/ granted
    BY <1>5, <1>6 DEF Verdict, LocalVerdict
  <2> QED BY <1>1, <1>2, <1>3, <1>4, <1>5, <1>6, <2>1 DEF ApprovalCovers, ToolKind
<1>7. CASE ~k.local
  <2>1. granted \/ (k.policy = "allow" /\ k.trust # "fresh")
    BY <1>1, <1>5, <1>7 DEF Verdict, ProviderVerdict, TrustBase, ToolKind
  <2> QED BY <1>1, <1>3, <1>4, <1>5, <1>7, <2>1 DEF ApprovalCovers, ToolKind
<1> QED BY <1>6, <1>7

LEMMA InitApprInv == ApprInit => ApprInv
<1> SUFFICES ASSUME ApprInit PROVE ApprInv
  OBVIOUS
<1>1. TypesInv
  BY DEF ApprInit, TypesInv, CallStage, PartStatus
<1>2. AnswerInv
  BY DEF ApprInit, AnswerInv
<1>3. GrantInv
  BY DEF ApprInit, GrantInv
<1>4. \A c \in ApprCall : call[c] = "queued"
  BY DEF ApprInit
<1>5. RightInv
  BY <1>4 DEF RightInv
<1>6. OrderInv
  BY <1>4 DEF OrderInv, Before, CallsOf
<1> QED BY <1>1, <1>2, <1>3, <1>5, <1>6 DEF ApprInv

(***************************************************************************)
(* A step that leaves the kinds alone and lets approvals accumulate keeps  *)
(* the rights of every call it does not admit.                             *)
(***************************************************************************)
LEMMA StageKeepsRights ==
    ASSUME RightInv, TypesInv, NEW c \in ApprCall, NEW s, toolKind' = toolKind,
           approved \subseteq approved', call' = [call EXCEPT ![c] = s],
           s \in {"admitted", "running", "ran"} => ApprovalCovers(c)'
    PROVE  RightInv'
<1> SUFFICES ASSUME NEW x \in ApprCall, call'[x] \in {"admitted", "running", "ran"}
             PROVE  ApprovalCovers(x)'
  BY DEF RightInv
<1>1. CASE x = c
  BY <1>1 DEF TypesInv
<1>2. CASE x # c
  <2>1. ApprovalCovers(x)
    BY <1>2 DEF RightInv, TypesInv
  <2> QED BY <2>1, RightStays
<1> QED BY <1>1, <1>2

(***************************************************************************)
(* Await's return takes nothing from another call: the key is the call's.  *)
(***************************************************************************)
LEMMA UnregisterKeepsAnswers ==
    ASSUME AnswerInv, TypesInv, NEW c \in ApprCall, Unregister(c)
    PROVE  AnswerInv' /\ DOMAIN waiters' = BrokerKeys /\ DOMAIN channel' = ApprCall
BY DEF AnswerInv, TypesInv, Unregister

(***************************************************************************)
(* Hooks, policy, grants and safety (tool_approval.go; authz.go).          *)
(***************************************************************************)
LEMMA ConsiderKeeps ==
    ASSUME FreshToolsAsk, ApprInv, NEW c \in ApprCall, ApprConsider(c)
    PROVE  ApprInv'
<1>1. PICK readable \in BOOLEAN :
        LET granted == ConsultsGrants(c) /\ GrantAllows(c, readable)
            verdict == Verdict(c, granted)
        IN  /\ call' = [call EXCEPT ![c] = CASE verdict = "allow" -> "admitted"
                                             [] verdict = "deny"  -> "denied"
                                             [] OTHER             -> "prompted"]
            /\ part' = [part EXCEPT ![c] = IF verdict = "ask" THEN "pending" ELSE @]
            /\ sessionGrants' = IF granted /\ KindOfCall(c).trust # "pre"
                                THEN sessionGrants \cup {ToolOfCall[c]} ELSE sessionGrants
  BY DEF ApprConsider
<1> DEFINE granted == ConsultsGrants(c) /\ GrantAllows(c, readable)
           verdict == Verdict(c, granted)
           s == CASE verdict = "allow" -> "admitted"
                  [] verdict = "deny"  -> "denied"
                  [] OTHER             -> "prompted"
<1>2. /\ call' = [call EXCEPT ![c] = s]
      /\ part' = [part EXCEPT ![c] = IF verdict = "ask" THEN "pending" ELSE @]
      /\ sessionGrants' = IF granted /\ KindOfCall(c).trust # "pre"
                          THEN sessionGrants \cup {ToolOfCall[c]} ELSE sessionGrants
  BY <1>1
<1>3. verdict = "allow" => ApprovalCovers(c)
  BY AllowedIsCovered
<1>4. /\ s \in {"admitted", "denied", "prompted"}
      /\ s = "admitted" => verdict = "allow"
  OBVIOUS
<1>5. granted /\ KindOfCall(c).trust # "pre" => ToolOfCall[c] \in durableGrants
  BY DEF GrantAllows
<1> HIDE DEF s, verdict, granted
<1>6. /\ UNCHANGED <<toolKind, parallel, waiters, channel, durableGrants, cancelled,
                     aborted, answers, approved>>
      /\ call[c] = "queued" /\ MayConsider(c)
  BY DEF ApprConsider
<1>7. TypesInv'
  <2>1. sessionGrants' \subseteq sessionGrants \cup durableGrants
    BY <1>2, <1>5
  <2> QED BY <1>2, <1>4, <1>6, <2>1 DEF ApprInv, TypesInv, CallStage, Settled, PartStatus
<1>8. AnswerInv'
  BY <1>6 DEF ApprInv, AnswerInv
<1>9. GrantInv'
  <2>1. sessionGrants' \cup durableGrants' \subseteq sessionGrants \cup durableGrants
    BY <1>2, <1>5, <1>6
  <2> QED BY <1>6, <2>1 DEF ApprInv, GrantInv
<1>10. RightInv'
  <2>1. s \in {"admitted", "running", "ran"} => ApprovalCovers(c)'
    BY <1>3, <1>4, <1>6, RightStays
  <2> QED BY <1>2, <1>6, <2>1, StageKeepsRights DEF ApprInv
<1>11. OrderInv'
  BY <1>2, <1>4, <1>6, StageKeepsOrder DEF ApprInv, CallStage, Settled
<1> QED BY <1>7, <1>8, <1>9, <1>10, <1>11 DEF ApprInv

(***************************************************************************)
(* Broker.Await and Broker.Resolve: under distinct keys the answer goes to *)
(* the call it was given for.                                              *)
(***************************************************************************)
LEMMA RegisterKeeps ==
    ASSUME ApprInv, NEW c \in ApprCall, ApprRegister(c)
    PROVE  ApprInv'
<1>1. /\ call' = [call EXCEPT ![c] = "asking"] /\ call[c] = "prompted"
      /\ UNCHANGED <<toolKind, parallel, part, channel, sessionGrants, durableGrants,
                     cancelled, aborted, answers, approved>>
      /\ waiters' = [waiters EXCEPT ![KeyOf(c)] = c]
  BY DEF ApprRegister
<1>2. TypesInv' /\ GrantInv'
  BY <1>1 DEF ApprInv, TypesInv, GrantInv, CallStage
<1>3. AnswerInv'
  <2>1. \A k \in BrokerKeys : waiters'[k] = IF k = KeyOf(c) THEN c ELSE waiters[k]
    BY <1>1 DEF ApprInv, TypesInv
  <2> QED BY <1>1, <2>1 DEF ApprInv, AnswerInv
<1>4. RightInv'
  BY <1>1, StageKeepsRights DEF ApprInv
<1>5. OrderInv'
  BY <1>1, StageKeepsOrder DEF ApprInv, CallStage, Settled
<1> QED BY <1>2, <1>3, <1>4, <1>5 DEF ApprInv

LEMMA AnswerKeeps ==
    ASSUME CallsAreDistinct, ApprInv, NEW c \in ApprCall, NEW scope, ApprAnswer(c, scope)
    PROVE  ApprInv'
<1> DEFINE w == waiters[KeyOf(c)]
<1>1. /\ UNCHANGED <<toolKind, parallel, call, part, waiters, sessionGrants,
                     durableGrants, cancelled, aborted, approved>>
      /\ \/ channel' = channel
         \/ w # NoDecision /\ channel' = [channel EXCEPT ![w] = [scope |-> scope, for |-> c]]
  BY DEF ApprAnswer
<1>2. w # NoDecision => w = c
  BY DEF ApprInv, AnswerInv, BrokerKeys, CallsAreDistinct
<1>3. \/ channel' = channel
      \/ channel' = [channel EXCEPT ![c] = [scope |-> scope, for |-> c]]
  BY <1>1, <1>2
<1>4. AnswerInv'
  <2>1. DOMAIN channel = ApprCall
    BY DEF ApprInv, TypesInv
  <2>2. ASSUME NEW x \in ApprCall, channel'[x] # NoDecision PROVE channel'[x].for = x
    <3>1. channel'[x] = channel[x] \/ (x = c /\ channel'[x] = [scope |-> scope, for |-> c])
      BY <1>3, <2>1
    <3>2. channel[x] # NoDecision => channel[x].for = x
      BY DEF ApprInv, AnswerInv
    <3>3. [scope |-> scope, for |-> c].for = c
      OBVIOUS
    <3> QED BY <2>2, <3>1, <3>2, <3>3
  <2> QED BY <1>1, <2>2 DEF ApprInv, AnswerInv
<1>5. TypesInv' /\ GrantInv'
  BY <1>1, <1>3 DEF ApprInv, TypesInv, GrantInv
<1>6. RightInv'
  <2>1. \A x \in ApprCall : ApprovalCovers(x) => ApprovalCovers(x)'
    BY <1>1, RightStays
  <2> QED BY <1>1, <2>1 DEF ApprInv, RightInv
<1>7. OrderInv'
  BY <1>1 DEF ApprInv, OrderInv, Before, CallsOf
<1> QED BY <1>4, <1>5, <1>6, <1>7 DEF ApprInv

(***************************************************************************)
(* The decision arrives: it was given for this call, and a grant is kept   *)
(* only for a tool that does not want a fresh approval each time.          *)
(***************************************************************************)
LEMMA ReceiveKeeps ==
    ASSUME ApprInv, NEW c \in ApprCall, ApprReceive(c)
    PROVE  ApprInv'
<1> DEFINE d == channel[c]
           u == ToolOfCall[c]
           given == [call |-> d.for, tool |-> ToolOfCall[d.for], scope |-> d.scope]
<1>1. /\ call[c] = "asking" /\ Unregister(c) /\ d.for = c /\ u \in ApprTool
      /\ UNCHANGED <<toolKind, parallel, cancelled, aborted>>
  BY DEF ApprReceive, ApprInv, AnswerInv
<1>2. PICK s \in {"denied", "admitted"} :
        /\ call' = [call EXCEPT ![c] = s]
        /\ s = "admitted" => approved' = approved \cup {given}
        /\ s = "denied" => approved' = approved
  BY DEF ApprReceive
<1>3. /\ part' \in [ApprCall -> PartStatus]
      /\ approved \subseteq approved'
  BY <1>2 DEF ApprReceive, ApprInv, TypesInv, PartStatus
<1>4. \/ sessionGrants' \cup durableGrants' \subseteq sessionGrants \cup durableGrants
      \/ /\ sessionGrants' \cup durableGrants' \subseteq sessionGrants \cup durableGrants \cup {u}
         /\ KindOfCall(c).trust # "fresh" /\ d.scope # "once" /\ given \in approved'
  BY DEF ApprReceive
<1>5. given.call = c /\ given.tool = u /\ given.scope = d.scope
  BY <1>1
<1>6. GrantInv'
  <2>1. ASSUME NEW x \in sessionGrants' \cup durableGrants'
        PROVE  toolKind[x].trust # "fresh" /\ \E a \in approved' : a.tool = x /\ a.scope # "once"
    <3>1. CASE x \in sessionGrants \cup durableGrants
      BY <1>3, <3>1 DEF ApprInv, GrantInv
    <3>2. CASE x \notin sessionGrants \cup durableGrants
      BY <1>4, <1>5, <3>2 DEF KindOfCall
    <3> QED BY <3>1, <3>2
  <2> QED BY <1>1, <2>1 DEF GrantInv
<1>7. TypesInv' /\ AnswerInv'
  <2>1. AnswerInv' /\ DOMAIN waiters' = BrokerKeys /\ DOMAIN channel' = ApprCall
    BY <1>1, UnregisterKeepsAnswers DEF ApprInv
  <2>2. sessionGrants' \subseteq ApprTool /\ durableGrants' \subseteq ApprTool
    BY <1>1, <1>4 DEF ApprInv, TypesInv
  <2>3. call' \in [ApprCall -> CallStage]
    BY <1>2 DEF ApprInv, TypesInv, CallStage, Settled
  <2> QED BY <1>1, <1>3, <2>1, <2>2, <2>3 DEF ApprInv, TypesInv
<1>8. RightInv'
  <2>1. s = "admitted" => ApprovalCovers(c)'
    BY <1>2, <1>5 DEF ApprovalCovers
  <2> QED BY <1>1, <1>2, <1>3, <2>1, StageKeepsRights DEF ApprInv
<1>9. OrderInv'
  BY <1>1, <1>2, StageKeepsOrder DEF ApprInv, CallStage, Settled
<1> QED BY <1>6, <1>7, <1>8, <1>9 DEF ApprInv

\* The approval timeout, and the cancelled turn that stops waiting.
LEMMA GiveUpKeeps ==
    ASSUME ApprInv, NEW c \in ApprCall, ApprExpire(c) \/ ApprAbandon(c)
    PROVE  ApprInv'
<1>1. /\ Unregister(c) /\ call[c] = "asking"
      /\ call' = [call EXCEPT ![c] = "denied"]
      /\ UNCHANGED <<toolKind, parallel, sessionGrants, durableGrants, cancelled, approved>>
  BY DEF ApprExpire, Expire, ApprAbandon
<1>2. part' \in [ApprCall -> PartStatus] /\ aborted' \subseteq cancelled'
  BY DEF ApprExpire, Expire, ApprAbandon, ApprInv, TypesInv, PartStatus
<1>3. AnswerInv' /\ DOMAIN waiters' = BrokerKeys /\ DOMAIN channel' = ApprCall
  BY <1>1, UnregisterKeepsAnswers DEF ApprInv
<1>4. TypesInv' /\ GrantInv'
  BY <1>1, <1>2, <1>3 DEF ApprInv, TypesInv, GrantInv, CallStage, Settled
<1>5. RightInv'
  BY <1>1, StageKeepsRights DEF ApprInv
<1>6. OrderInv'
  BY <1>1, StageKeepsOrder DEF ApprInv, CallStage, Settled
<1> QED BY <1>3, <1>4, <1>5, <1>6 DEF ApprInv

\* The cancellation of a turn, noticed or not, moves no call.
LEMMA CancelKeeps ==
    ASSUME ApprInv, NEW t \in ApprTurn, ApprCancel(t) \/ ApprAbort(t)
    PROVE  ApprInv'
<1>1. UNCHANGED <<toolKind, parallel, call, part, waiters, channel, sessionGrants,
                  durableGrants, approved>>
  BY DEF ApprCancel, ApprAbort
<1>2. aborted' \subseteq cancelled' /\ cancelled' \subseteq ApprTurn
  BY DEF ApprCancel, ApprAbort, ApprInv, TypesInv
<1>3. TypesInv' /\ AnswerInv' /\ GrantInv'
  BY <1>1, <1>2 DEF ApprInv, TypesInv, AnswerInv, GrantInv
<1>4. RightInv'
  BY <1>1, RightStays DEF ApprInv, RightInv
<1>5. OrderInv'
  BY <1>1 DEF ApprInv, OrderInv, Before, CallsOf
<1> QED BY <1>3, <1>4, <1>5 DEF ApprInv

\* A body runs and returns, and its result is recorded.
LEMMA BodyKeeps ==
    ASSUME ApprInv, NEW c \in ApprCall, ApprRun(c) \/ ApprReturn(c) \/ ApprRecord(c)
    PROVE  ApprInv'
<1>1. PICK s \in {"running", "ran", "recorded"} :
        /\ call' = [call EXCEPT ![c] = s]
        /\ call[c] \in {"admitted", "running", "ran", "denied"}
        /\ s \in {"running", "ran"} => call[c] \in {"admitted", "running"}
        /\ s = "recorded" => \A d \in Before(c) : call[d] = "recorded"
        /\ s = "running" /\ parallel[TurnOfCall[c]] =>
              \A d \in CallsOf(TurnOfCall[c]) : call[d] \in Settled
  BY DEF ApprRun, ApprReturn, ApprRecord
<1>2. UNCHANGED <<toolKind, parallel, part, waiters, channel, sessionGrants,
                  durableGrants, cancelled, aborted, answers, approved>>
  BY DEF ApprRun, ApprReturn, ApprRecord
<1>3. TypesInv' /\ AnswerInv' /\ GrantInv'
  BY <1>1, <1>2 DEF ApprInv, TypesInv, AnswerInv, GrantInv, CallStage, Settled
<1>4. RightInv'
  <2>1. s \in {"running", "ran"} => ApprovalCovers(c)
    BY <1>1 DEF ApprInv, RightInv
  <2>2. s \in {"admitted", "running", "ran"} => ApprovalCovers(c)'
    BY <1>1, <1>2, <2>1, RightStays
  <2> QED BY <1>1, <1>2, <2>2, StageKeepsRights DEF ApprInv
<1>5. OrderInv'
  BY <1>1, <1>2, StageKeepsOrder DEF ApprInv, CallStage, Settled
<1> QED BY <1>3, <1>4, <1>5 DEF ApprInv

LEMMA NextApprInv ==
    CallsAreDistinct /\ FreshToolsAsk /\ ApprInv /\ [ApprNext]_apprVars => ApprInv'
<1> SUFFICES ASSUME CallsAreDistinct, FreshToolsAsk, ApprInv, [ApprNext]_apprVars PROVE ApprInv'
  OBVIOUS
<1>1. ASSUME NEW c \in ApprCall, ApprStep(c) PROVE ApprInv'
  BY <1>1, ConsiderKeeps, RegisterKeeps, ReceiveKeeps, GiveUpKeeps, BodyKeeps DEF ApprStep
<1>2. ASSUME NEW c \in ApprCall, NEW scope \in ApprScopes \cup {Denied}, ApprAnswer(c, scope)
      PROVE  ApprInv'
  BY <1>2, AnswerKeeps
<1>3. ASSUME NEW t \in ApprTurn, ApprCancel(t) \/ ApprAbort(t) PROVE ApprInv'
  BY <1>3, CancelKeeps
<1>4. CASE UNCHANGED apprVars
  <2>1. UNCHANGED <<toolKind, parallel, call, part, waiters, channel, sessionGrants,
                    durableGrants, cancelled, aborted, approved>>
    BY <1>4 DEF apprVars
  <2>2. TypesInv' /\ AnswerInv' /\ GrantInv'
    BY <2>1 DEF ApprInv, TypesInv, AnswerInv, GrantInv
  <2>3. RightInv'
    BY <2>1, RightStays DEF ApprInv, RightInv
  <2>4. OrderInv'
    BY <2>1 DEF ApprInv, OrderInv, Before, CallsOf
  <2> QED BY <2>2, <2>3, <2>4 DEF ApprInv
<1> QED BY <1>1, <1>2, <1>3, <1>4 DEF ApprNext

(***************************************************************************)
(* The stages that the order allows are the ones the properties ask for.   *)
(***************************************************************************)
LEMMA InvIsSound == ApprInv => ApprSound /\ ApprTypeOK
<1> SUFFICES ASSUME ApprInv PROVE ApprSound /\ ApprTypeOK
  OBVIOUS
<1>1. ApprTypeOK
  BY DEF ApprInv, TypesInv, ApprTypeOK, CallStage, PartStatus
<1>2. ApprBodyAuthorized
  BY DEF ApprInv, RightInv, ApprBodyAuthorized
<1>3. ASSUME NEW c \in ApprCall, NEW d \in ApprCall, TurnOfCall[c] = TurnOfCall[d]
      PROVE  /\ call[c] = "running" => call[d] \notin {"prompted", "asking"}
             /\ (call[d] = "recorded" /\ c < d) => call[c] = "recorded"
  <2>1. c \in Int /\ d \in Int
    OBVIOUS
  <2>2. c \in CallsOf(TurnOfCall[d]) /\ d \in CallsOf(TurnOfCall[c])
    BY <1>3 DEF CallsOf
  <2>3. (c < d => c \in Before(d)) /\ (d < c => d \in Before(c))
    BY <1>3, <2>2 DEF Before
  <2>4. (call[d] = "recorded" /\ c < d) => call[c] = "recorded"
    BY <2>3 DEF ApprInv, OrderInv
  <2>5. ASSUME call[c] = "running" PROVE call[d] \notin {"prompted", "asking"}
    <3>1. CASE parallel[TurnOfCall[c]]
      BY <2>2, <2>5, <3>1 DEF ApprInv, OrderInv, Settled
    <3>2. CASE ~parallel[TurnOfCall[c]]
      <4>1. c < d \/ d < c \/ c = d
        BY <2>1
      <4>2. c < d => call[d] = "queued"
        BY <1>3, <2>3, <2>5, <3>2 DEF ApprInv, OrderInv
      <4>3. d < c => call[d] = "recorded"
        BY <2>3, <2>5, <3>2 DEF ApprInv, OrderInv
      <4> QED BY <2>5, <4>1, <4>2, <4>3
    <3> QED BY <3>1, <3>2
  <2> QED BY <2>4, <2>5
<1> QED BY <1>1, <1>2, <1>3 DEF ApprSound, ApprBatchOrder

(***************************************************************************)
(* With call ids that differ within a task and local tools that ask for    *)
(* their fresh approval, no body runs without a right of its own, no       *)
(* prompt stands beside a running body of its batch and the results of a   *)
(* batch are recorded in source order (tool_approval.go; broker.go;        *)
(* parallel_tools.go:122).                                                 *)
(***************************************************************************)
THEOREM BodiesRunByRight ==
    CallsAreDistinct /\ FreshToolsAsk => (ApprSpec => []ApprSound)
<1> SUFFICES ASSUME CallsAreDistinct, FreshToolsAsk PROVE ApprSpec => []ApprSound
  OBVIOUS
<1>1. ApprInv /\ [ApprNext]_apprVars => ApprInv'
  BY NextApprInv
<1>2. ApprInv => ApprSound
  BY InvIsSound
<1> QED BY <1>1, <1>2, InitApprInv, PTL DEF ApprSpec
=============================================================================
