---------------------------- MODULE RefinementFlow ----------------------------
(***************************************************************************)
(* Refinements: a plan of edits to notes, memories, skills and agent       *)
(* specifications is proposed, decided on and applied edit by edit, with   *)
(* an append-only audit record of every step, and can be rolled back.      *)
(*                                                                         *)
(* The authority that holds the resources is a local file, written under   *)
(* a lock with a bounded list of receipts, or a service that a user edits  *)
(* too.  A revision of a resource is its index in rfHead: ETags do not     *)
(* recur.  Content is an opaque value.                                     *)
(***************************************************************************)
LOCAL INSTANCE Integers
LOCAL INSTANCE FiniteSets
LOCAL INSTANCE Sequences
LOCAL INSTANCE SequencesExt
LOCAL INSTANCE FiniteSetsExt

CONSTANTS
    RfKey,             \* resources
    RfAtFirst,         \* the revisions each one starts with
    RfPlans,           \* plans: sequences of [action, key, content]
    RfCall,            \* calls of the apply tool
    RfProposals,       \* bound: proposals
    RfBudgets,         \* bounds: times each call is started with one operation id,
                       \* and pages read
    RfUserEdits,       \* bound: edits by the user
    RfFaults,          \* bound: lost or refused requests
    RfFilters,         \* phases a reader of the audit asks for
    RfLimit, maxFileQueryScanRecords,
    maxLocalRefinementOperations, retainedLocalRefinementOperations,
    NoRevision

VARIABLES
    rfEditor,          \* "file" or "service"
    rfHead,            \* key -> its revisions, the last one is its head
    rfReceipts,        \* the results the authority remembers by operation id
    rfLog,             \* the audit records
    rfCalls,           \* the apply calls
    rfReader,          \* a reader of the audit log, page by page
    rfBudget, rfRuns, rfUser, rfBad

rfVars == <<rfEditor, rfHead, rfReceipts, rfLog, rfCalls, rfReader, rfBudget, rfRuns,
          rfUser, rfBad>>

\* The operation of an edit is named by its proposal, so that every call for a
\* proposal shares its edits; 0 stands for the user.
EditOp(proposal, i) == [proposal |-> proposal, edit |-> i]

Revision(content, deleted, by) == [content |-> content, deleted |-> deleted, by |-> by]

Idle == [pc |-> "idle", proposal |-> 0, decision |-> 0, edits |-> <<>>, seen |-> 0]

RfInit ==
    /\ rfEditor \in {"file", "service"}
    /\ rfHead = [k \in RfKey |-> [i \in 1..RfAtFirst[k] |-> Revision("old", FALSE, EditOp(0, 0))]]
    /\ rfReceipts = <<>> /\ rfLog = <<>>
    /\ rfCalls = [c \in RfCall |-> Idle]
    /\ rfReader = [at |-> 0, top |-> 0, filter |-> {}, got |-> <<>>]
    /\ rfBudget \in RfBudgets
    /\ rfRuns = [c \in RfCall |-> 0]
    /\ rfUser = 0 /\ rfBad = 0

-----------------------------------------------------------------------------
\* The audit log: one record per operation id, whose request is then fixed.
Entry(op, phase, outcome, parent, rollbackOf, edits) ==
    [op |-> op, phase |-> phase, outcome |-> outcome, parent |-> parent,
     rollbackOf |-> rollbackOf, edits |-> edits]

\* Where the record of an operation is, or would be.
PlaceOf(op) ==
    IF \E i \in DOMAIN rfLog : rfLog[i].op = op
    THEN CHOOSE i \in DOMAIN rfLog : rfLog[i].op = op
    ELSE Len(rfLog) + 1

Appended(e) == IF PlaceOf(e.op) \in DOMAIN rfLog THEN rfLog ELSE Append(rfLog, e)
MayAppend(e) == PlaceOf(e.op) \in DOMAIN rfLog => rfLog[PlaceOf(e.op)] = e

Unapplied(e) == [edit |-> e, before |-> NoRevision, after |-> NoRevision, applied |-> FALSE]

\* A resource is edited at most once in a plan, and one that exists is named
\* with the revision that was read.
validateApplicablePlan(plan) ==
    /\ plan # <<>>
    /\ \A i \in DOMAIN plan : plan[i].action # "create" => plan[i].etag # 0
    /\ \A i, j \in DOMAIN plan : plan[i].key = plan[j].key => i = j

Proposals == {i \in DOMAIN rfLog : rfLog[i].phase = "proposal"}

Propose(edits, rollbackOf) ==
    /\ Cardinality(Proposals) < RfProposals
    /\ validateApplicablePlan(edits)
    /\ rfLog' = Append(rfLog, Entry(<<"proposal", Len(rfLog) + 1>>, "proposal", "proposed", 0,
                                    rollbackOf, [i \in DOMAIN edits |-> Unapplied(edits[i])]))
    /\ UNCHANGED <<rfEditor, rfReader, rfBudget, rfHead, rfReceipts, rfCalls, rfRuns, rfUser, rfBad>>

\* The agent has read the resources it wants to change.
RfPropose(plan) ==
    Propose([i \in DOMAIN plan |->
                [action |-> plan[i].action, key |-> plan[i].key, content |-> plan[i].content,
                 etag |-> IF plan[i].action = "create" THEN 0 ELSE Len(rfHead[plan[i].key])]], 0)

\* The edit that undoes an applied one.
Reversed(e) ==
    LET Edit(action, content) ==
            [action |-> action, key |-> e.edit.key, content |-> content, etag |-> e.after.etag]
    IN  CASE e.edit.action \in {"create", "restore"} -> Edit("delete", "none")
          [] e.edit.action = "replace" -> Edit("replace", e.before.content)
          [] e.edit.action = "delete" -> Edit("restore", "none")

BuildRollbackPlan(application) ==
    LET done == SelectSeq(application.edits, LAMBDA e : e.applied)
    IN  Reverse([i \in DOMAIN done |-> Reversed(done[i])])

RfPlanRollback(r) ==
    /\ rfLog[r].phase \in {"application", "rollback"}
    /\ Propose(BuildRollbackPlan(rfLog[r]), r)

-----------------------------------------------------------------------------
\* The proposal is looked up and the decision recorded; a call that is run again
\* for another proposal, or decided differently, is refused.
RfDecide(c, p, granted) ==
    LET e == Entry(<<"decision", c>>, "decision", IF granted THEN "approved" ELSE "rejected", p,
                   rfLog[p].rollbackOf, rfLog[p].edits)
    IN  /\ rfCalls[c].pc = "idle" /\ rfRuns[c] < rfBudget.runs[c]
        /\ rfLog[p].phase = "proposal"
        /\ rfRuns' = [rfRuns EXCEPT ![c] = @ + 1]
        /\ MayAppend(e)
        /\ rfLog' = Appended(e)
        /\ rfCalls' = IF granted
                      THEN [rfCalls EXCEPT ![c] = [Idle EXCEPT !.pc = "edit", !.proposal = p,
                                                               !.decision = PlaceOf(e.op)]]
                      ELSE rfCalls
        /\ UNCHANGED <<rfEditor, rfReader, rfBudget, rfHead, rfReceipts, rfUser, rfBad>>

Call(c) == rfCalls[c]
EditsOf(c) == rfLog[Call(c).proposal].edits
Upcoming(c) == Len(Call(c).edits) + 1
EditNow(c) == EditsOf(c)[Upcoming(c)].edit

-----------------------------------------------------------------------------
\* The authority.
Snapshot(k, i) == [etag |-> i, content |-> rfHead[k][i].content, deleted |-> rfHead[k][i].deleted]

ReceiptsOf(op) == SelectSeq(rfReceipts, LAMBDA r : r.op = op)

\* The oldest receipts are dropped when the list is full.
compactFileOperationJournal(receipts) ==
    IF rfEditor = "file" /\ Len(receipts) >= maxLocalRefinementOperations
    THEN SubSeq(receipts, Len(receipts) - retainedLocalRefinementOperations + 1, Len(receipts))
    ELSE receipts

\* A plausible mistake: the revision that was read is not compared.
FitsAnyRevision(e) == IF e.action = "create" THEN Len(rfHead[e.key]) = 0 ELSE Len(rfHead[e.key]) # 0

\* Whether the authority takes an edit as its head stands.
Fits(e) ==
    LET head == Len(rfHead[e.key]) IN
    CASE e.action = "create" -> head = 0
      [] e.action \in {"replace", "delete"} ->
            head # 0 /\ e.etag = head /\ ~rfHead[e.key][head].deleted
      [] e.action = "restore" ->
            rfEditor = "service" /\ e.etag = head /\ rfHead[e.key][head].deleted

\* A restored resource has the content it had when it was deleted.
After(e) ==
    LET head == Len(rfHead[e.key]) IN
    CASE e.action \in {"create", "replace"} -> [etag |-> head + 1, content |-> e.content, deleted |-> FALSE]
      [] e.action = "delete" -> [etag |-> head + 1, content |-> rfHead[e.key][head].content, deleted |-> TRUE]
      [] e.action = "restore" -> [etag |-> head + 1, content |-> rfHead[e.key][head].content, deleted |-> FALSE]

Edited(e, op) ==
    LET after == After(e) IN
    /\ rfHead' = [rfHead EXCEPT ![e.key] = Append(@, Revision(after.content, after.deleted, op))]
    /\ rfReceipts' = Append(compactFileOperationJournal(rfReceipts),
                            [op |-> op, before |-> IF e.etag = 0 THEN NoRevision ELSE Snapshot(e.key, Len(rfHead[e.key])),
                             after |-> after])

-----------------------------------------------------------------------------
\* One edit.  The service's head is read before it is changed.
RfRead(c) ==
    /\ Call(c).pc = "edit" /\ Upcoming(c) \in DOMAIN EditsOf(c)
    /\ rfEditor = "service" /\ EditNow(c).action # "create"
    /\ Len(rfHead[EditNow(c).key]) # 0
    /\ rfCalls' = [rfCalls EXCEPT ![c].pc = "read", ![c].seen = Len(rfHead[EditNow(c).key])]
    /\ UNCHANGED <<rfEditor, rfReader, rfBudget, rfHead, rfReceipts, rfLog, rfRuns, rfUser, rfBad>>

Ready(c) ==
    /\ Call(c).pc \in {"edit", "read"} /\ Upcoming(c) \in DOMAIN EditsOf(c)
    /\ \/ Call(c).pc = "read"
       \/ Call(c).pc = "edit" /\ (rfEditor = "file" \/ EditNow(c).action = "create")

\* What the call keeps of an edit; after a failure the rest is not tried.
Kept(c, result) ==
    LET edits == Append(Call(c).edits, result)
        rest == [i \in 1..Len(EditsOf(c)) - Len(edits) |-> EditsOf(c)[Len(edits) + i]]
        all == IF result.applied THEN edits ELSE edits \o rest
    IN  rfCalls' = [rfCalls EXCEPT ![c].edits = all, ![c].seen = 0,
                        ![c].pc = IF Len(all) = Len(EditsOf(c)) THEN "record" ELSE "edit"]

Done(e, before, after) == [edit |-> e, before |-> before, after |-> after, applied |-> TRUE]

\* A plausible mistake: the revision that was read is taken for the one the
\* first run of the edit has changed.
SeenBefore(c, receipt) ==
    IF rfEditor = "file" THEN receipt.before
    ELSE IF EditNow(c).action = "create" THEN NoRevision
    ELSE Snapshot(EditNow(c).key, Call(c).seen)

\* When an earlier run has made the edit, the service's history is searched for
\* the revision it was planned on.
BeforeOf(c, receipt) ==
    LET e == EditNow(c) IN
    IF rfEditor = "file" THEN receipt.before
    ELSE IF e.action = "create" THEN NoRevision
    ELSE Snapshot(e.key, e.etag)

RfEdit(c) ==
    LET e == EditNow(c)
        op == EditOp(Call(c).proposal, Upcoming(c))
        known == ReceiptsOf(op)
    IN  /\ Ready(c)
        /\ \/ /\ known # <<>>
              /\ Kept(c, Done(e, BeforeOf(c, known[1]), known[1].after))
              /\ UNCHANGED <<rfHead, rfReceipts>>
           \/ /\ known = <<>> /\ Fits(e) /\ Edited(e, op)
              /\ Kept(c, Done(e, IF e.etag = 0 THEN NoRevision
                               ELSE IF rfEditor = "file" THEN Snapshot(e.key, Len(rfHead[e.key]))
                               ELSE Snapshot(e.key, Call(c).seen), After(e)))
           \/ /\ known = <<>> /\ ~Fits(e)
              /\ Kept(c, Unapplied(e))
              /\ UNCHANGED <<rfHead, rfReceipts>>
        /\ UNCHANGED <<rfEditor, rfReader, rfBudget, rfLog, rfRuns, rfUser, rfBad>>

\* The request fails, or its answer is lost after the edit was made.
RfEditFails(c) ==
    LET e == EditNow(c) op == EditOp(Call(c).proposal, Upcoming(c)) IN
    /\ Ready(c) /\ rfBad < RfFaults /\ rfBad' = rfBad + 1
    /\ Kept(c, Unapplied(e))
    /\ \/ UNCHANGED <<rfHead, rfReceipts>>
       \/ rfEditor = "service" /\ ReceiptsOf(op) = <<>> /\ Fits(e) /\ Edited(e, op)
    /\ UNCHANGED <<rfEditor, rfReader, rfBudget, rfLog, rfRuns, rfUser>>

-----------------------------------------------------------------------------
\* The result.
OutcomeOf(c) ==
    LET edits == Call(c).edits
        applied == Len(SelectSeq(edits, LAMBDA e : e.applied))
    IN  CASE applied = 0 -> "failed"
          [] applied = Len(edits) -> IF rfLog[Call(c).proposal].rollbackOf # 0 THEN "rolled_back" ELSE "applied"
          [] OTHER -> "partially_applied"

Application(c) ==
    Entry(<<"application", c>>,
          IF rfLog[Call(c).proposal].rollbackOf # 0 THEN "rollback" ELSE "application",
          OutcomeOf(c), Call(c).decision, rfLog[Call(c).proposal].rollbackOf, Call(c).edits)

\* A second run of a call that differs from what the first has recorded is refused.
RfRecord(c) ==
    /\ Call(c).pc = "record"
    /\ rfLog' = IF MayAppend(Application(c)) THEN Appended(Application(c)) ELSE rfLog
    /\ rfCalls' = [rfCalls EXCEPT ![c] = Idle]
    /\ UNCHANGED <<rfEditor, rfReader, rfBudget, rfHead, rfReceipts, rfRuns, rfUser, rfBad>>

\* The process stops, or the record cannot be written.
RfStop(c) ==
    /\ Call(c).pc # "idle" /\ rfBad < RfFaults /\ rfBad' = rfBad + 1
    /\ rfCalls' = [rfCalls EXCEPT ![c] = Idle]
    /\ UNCHANGED <<rfEditor, rfReader, rfBudget, rfHead, rfReceipts, rfLog, rfRuns, rfUser>>

RfUserEdit(k) ==
    LET head == Len(rfHead[k]) IN
    /\ rfUser < RfUserEdits /\ rfUser' = rfUser + 1
    /\ head # 0
    /\ rfHead' = [rfHead EXCEPT ![k] = Append(@, Revision("mine", FALSE, EditOp(0, rfUser')))]
    /\ UNCHANGED <<rfEditor, rfReader, rfBudget, rfReceipts, rfLog, rfCalls, rfRuns, rfBad>>

\* One page, newest record first: it ends with the page full or so many
\* records looked at, and the next one starts after the last of them.
Matches(i, filter) == filter = {} \/ rfLog[i].phase \in filter

PageEnd(start, filter) ==
    LET hits == {i \in 1..start : Matches(i, filter)}
        full == {i \in hits : Cardinality({j \in hits : j >= i}) = RfLimit}
    IN  Max({1, start - maxFileQueryScanRecords + 1} \cup full)

Page(start, end, filter) ==
    Reverse(SelectSeq([i \in 1..start |-> i], LAMBDA i : i >= end /\ Matches(i, filter)))

Query(filter, start, top, got) ==
    LET end == PageEnd(start, filter) IN
    /\ rfReader' = [at |-> end, top |-> top, filter |-> filter, got |-> got \o Page(start, end, filter)]
    /\ UNCHANGED <<rfEditor, rfHead, rfReceipts, rfLog, rfCalls, rfBudget, rfRuns, rfUser, rfBad>>

RfQuery(filter) ==
    /\ rfBudget.reads /\ rfReader.at = 0 /\ rfLog # <<>>
    /\ Query(filter, Len(rfLog), Len(rfLog), <<>>)

RfQueryNext ==
    /\ rfReader.at > 1
    /\ Query(rfReader.filter, rfReader.at - 1, rfReader.top, rfReader.got)

RfNext ==
    \/ RfQueryNext \/ \E filter \in RfFilters : RfQuery(filter)
    \/ \E plan \in RfPlans : RfPropose(plan)
    \/ \E r \in DOMAIN rfLog : RfPlanRollback(r)
    \/ \E c \in RfCall, p \in DOMAIN rfLog, granted \in BOOLEAN : RfDecide(c, p, granted)
    \/ \E c \in RfCall : RfRead(c) \/ RfEdit(c) \/ RfEditFails(c) \/ RfRecord(c) \/ RfStop(c)
    \/ \E k \in RfKey : RfUserEdit(k)

-----------------------------------------------------------------------------
RfTypeOK ==
    /\ rfEditor \in {"file", "service"}
    /\ \A k \in RfKey : \A i \in DOMAIN rfHead[k] : rfHead[k][i].deleted \in BOOLEAN
    /\ Cardinality(Proposals) <= RfProposals
    /\ \A i, j \in DOMAIN rfLog : rfLog[i].op = rfLog[j].op => i = j
    /\ \A c \in RfCall : Call(c).pc \in {"idle", "edit", "read", "record"}

\* Every record of an application tells, for each edit it calls applied, the
\* revision the edit has really replaced and the one it has made, also when
\* the edit was made by an earlier run that did not come to its record, and
\* whatever the user has done to the resource since.
RecordsTellTheChange ==
    \A r \in DOMAIN rfLog :
        LET rec == rfLog[r] IN
        rec.phase \in {"application", "rollback"} =>
            LET p == rfLog[rec.parent].parent IN
            \A i \in {i \in DOMAIN rec.edits : rec.edits[i].applied} :
                LET e == rec.edits[i] made == rfHead[e.edit.key] IN
                /\ made[e.after.etag].by = EditOp(p, i)
                /\ e.after = Snapshot(e.edit.key, e.after.etag)
                /\ e.before = IF e.after.etag = 1 THEN NoRevision
                              ELSE Snapshot(e.edit.key, e.after.etag - 1)

\* An edit of a proposal changes its resource once, however often and by how
\* many calls it is applied, and with its receipt or without.
EditsOnce ==
    \A k \in RfKey : \A i, j \in DOMAIN rfHead[k] :
        rfHead[k][i].by = rfHead[k][j].by /\ rfHead[k][i].by.proposal # 0 => i = j

\* What a user has written is never undone by a rollback, nor overwritten by
\* an edit planned before it: an edit replaces the revision it was planned on,
\* and a rollback brings back what its application has replaced.
NothingUnplannedIsLost ==
    \A k \in RfKey : \A i \in DOMAIN rfHead[k] :
        LET by == rfHead[k][i].by IN
        by.proposal # 0 =>
            LET rec == rfLog[by.proposal] IN
            /\ rec.edits[by.edit].edit.etag = i - 1
            /\ rec.rollbackOf # 0 /\ rec.edits[by.edit].edit.action # "delete" =>
                  rfHead[k][i].content = rfHead[k][i - 2].content

\* No resource is changed before the approval of the change is on record.
ChangesAreDecided ==
    \A k \in RfKey : \A i \in DOMAIN rfHead[k] :
        rfHead[k][i].by.proposal # 0 =>
            \E d \in DOMAIN rfLog : rfLog[d].outcome = "approved" /\ rfLog[d].parent = rfHead[k][i].by.proposal

\* A reader who pages through the audit while it grows sees every record that
\* was there and matches, once, and in order.
PagesAreWhole ==
    rfReader.at # 0 =>
        rfReader.got = Page(rfReader.top, rfReader.at, rfReader.filter)

RfSound == PagesAreWhole /\ RecordsTellTheChange /\ EditsOnce /\ NothingUnplannedIsLost 
           /\ ChangesAreDecided
=============================================================================
