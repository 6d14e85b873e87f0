--------------------------- MODULE ExecutionLedger ---------------------------
(***************************************************************************)
(* pkg/executionledger: the bounded operational record of one session.     *)
(* Replicas observe the lifecycle of turns through Service.ObserveTurn and *)
(* pin models through Service.PinModel; both end in Store.Append, here the *)
(* CAS store: read the state, prepareAppend on the copy, compare and swap. *)
(* An append error is only logged for an observation and fails the turn    *)
(* for a pin.  A turn can be delivered again to another replica, which     *)
(* repeats its observations under the same operation ids.  A reader pages  *)
(* newest first while appends and evictions go on.                         *)
(*                                                                         *)
(* A turn is one branch (its task id).  Its observations are its start,    *)
(* a model call or the pin of a /model command, and its end.  Event ids    *)
(* are random in the code; here they are <<delivery, step>>, which no two  *)
(* appends share.                                                          *)
(***************************************************************************)
EXTENDS Integers, Sequences, FiniteSets

CONSTANTS
    LedgerReplica,     \* processes that run turns of the session
    LedgerTurn,        \* the turns (branches)
    LedgerModel,       \* selectable models
    LedgerPins,        \* [LedgerTurn -> LedgerModel \cup {NoModel}]: /model turns
    NoModel, NoEvent,
    MaxLedgerEvents,   \* maxEvents: entries the state retains
    MaxBranches,       \* maxBranches: branches with a head
    LedgerRetries,     \* maxRetries of the swap
    MaxDeliveries,     \* bound: deliveries of turns and failed calls, together
    PageLimit          \* Query.Limit of the reader

\* NoEvent is the empty id of an event, NoModel the empty name of a model.
ASSUME LedgerAssumption ==
    /\ IsFiniteSet(LedgerTurn)
    /\ LedgerPins \in [LedgerTurn -> LedgerModel \cup {NoModel}] /\ NoModel \notin LedgerModel
    /\ NoEvent \notin LedgerTurn /\ NoEvent \notin Nat \X Nat
    /\ MaxLedgerEvents \in Nat \ {0} /\ LedgerRetries \in Nat \ {0} /\ PageLimit \in Nat \ {0}
    /\ MaxBranches \in Nat /\ MaxDeliveries \in Nat

VARIABLES
    ledger,        \* the stored state
    ledgerRun,     \* [LedgerReplica -> the turn it runs, its step, its append]
    sticky,        \* [LedgerReplica -> threadModels entry of the session]
    deliveries,    \* number of deliveries so far
    ledgerFaults,  \* number of failed backend calls so far
    ledgerAcked,   \* ghost: the appends that reported success
    reader         \* the paging client

ledgerVars == <<ledger, ledgerRun, sticky, deliveries, ledgerFaults,
                ledgerAcked, reader>>

Started == "turn_started"
Finished == "turn_finished"
Pinned == "model_pinned"
Called == "model_call_finished"

LedgerRange(s) == {s[i] : i \in 1 .. Len(s)}

\* The observations of a turn, in order.
LedgerSteps(t) ==
    <<Started, IF LedgerPins[t] = NoModel THEN Called ELSE Pinned, Finished>>

\* The request of one step.  The outcome is part of it, and of its hash.
LedgerRequest(t, type, outcome) ==
    [type |-> type, branch |-> t, model |-> LedgerPins[t],
     outcome |-> IF type = Finished THEN outcome ELSE "none"]

\* observerOperationID and PinModel: the id leaves the outcome out.
OperationOf(req) == <<req.type, req.branch, req.model>>

NewLedger ==
    [next |-> 1, entries |-> <<>>, heads |-> [t \in LedgerTurn |-> NoEvent],
     terminal |-> NoEvent, pinned |-> NoModel]

BranchesOf(heads) == {t \in LedgerTurn : heads[t] # NoEvent}

Retained(s, op) == {e \in LedgerRange(s.entries) : e.op = op}

Conflicts(s, req) ==
    \/ \E e \in Retained(s, OperationOf(req)) : e.req # req
    \/ /\ Retained(s, OperationOf(req)) = {}
       /\ \/ req.type = Started /\ s.heads[req.branch] # NoEvent
          \/ /\ req.type # Finished
             /\ Cardinality(BranchesOf(s.heads) \cup {req.branch}) > MaxBranches

ParentIsTerminal(s, req) == s.terminal   \* mutant: ignores the branch head

ParentOf(s, req) ==
    IF req.type # Started /\ s.heads[req.branch] # NoEvent
    THEN s.heads[req.branch] ELSE s.terminal

\* Mutant: evicts one entry too late.
LastNLate(s, n) ==
    SubSeq(s, IF Len(s) > n + 1 THEN Len(s) - n + 1 ELSE 1, Len(s))

LastN(s, n) == SubSeq(s, IF Len(s) > n THEN Len(s) - n + 1 ELSE 1, Len(s))

\* prepareAppend for a request that neither replays nor conflicts.
Appended(s, req, id) ==
    LET entry == [op |-> OperationOf(req), req |-> req, id |-> id,
                  seq |-> s.next, parent |-> ParentOf(s, req)]
    IN  [next     |-> s.next + 1,
         entries  |-> LastN(Append(s.entries, entry), MaxLedgerEvents),
         heads    |-> [s.heads EXCEPT ![req.branch] =
                           IF req.type = Finished THEN NoEvent ELSE id],
         terminal |-> IF req.type = Finished THEN id ELSE s.terminal,
         pinned   |-> IF req.type = Pinned THEN req.model ELSE s.pinned]

-----------------------------------------------------------------------------
IdleRun == [turn |-> NoEvent, step |-> 0, id |-> 0, failed |-> FALSE,
            copy |-> NewLedger, reading |-> TRUE, tries |-> 0]

NoReader == [top |-> 0, anchor |-> NoEvent, seen |-> {}, done |-> FALSE]

LedgerInit ==
    /\ ledger = NewLedger
    /\ ledgerRun = [r \in LedgerReplica |-> IdleRun]
    /\ sticky = [r \in LedgerReplica |-> NoModel]
    /\ deliveries = 0
    /\ ledgerFaults = 0
    /\ ledgerAcked = {}
    /\ reader = NoReader

Running(r) == ledgerRun[r].turn # NoEvent

CurrentRequest(r) ==
    LET run == ledgerRun[r]
    IN  LedgerRequest(run.turn, LedgerSteps(run.turn)[run.step],
                      IF run.failed THEN "failed" ELSE "succeeded")

\* RunTurn on a replica: the sticky model is hydrated from the ledger before
\* the turn is observed.  The turn may have run before, wholly or in part.
LedgerDeliver(r, t) ==
    /\ ~Running(r)
    /\ deliveries + ledgerFaults < MaxDeliveries
    /\ deliveries' = deliveries + 1
    /\ sticky' = [sticky EXCEPT ![r] =
                    IF ledger.pinned # NoModel THEN ledger.pinned ELSE @]
    /\ ledgerRun' = [ledgerRun EXCEPT ![r] =
                       [IdleRun EXCEPT !.turn = t, !.step = 1, !.id = deliveries + 1]]
    /\ UNCHANGED <<ledger, ledgerFaults, ledgerAcked, reader>>

\* The first half of an attempt: the state is read from the backend.
LedgerRead(r) ==
    /\ Running(r) /\ ledgerRun[r].reading
    /\ ledgerRun' = [ledgerRun EXCEPT ![r].copy = ledger, ![r].reading = FALSE]
    /\ UNCHANGED <<ledger, sticky, deliveries, ledgerFaults, ledgerAcked, reader>>

\* What follows an append.  An observation goes on to the next step whatever
\* happened.  A pin that failed fails the turn; the sticky model is set after
\* one that succeeded.
AfterAppend(r, ok) ==
    LET run == ledgerRun[r]
        pin == CurrentRequest(r).type = Pinned
    IN  /\ ledgerRun' = [ledgerRun EXCEPT ![r] =
              IF run.step = 3 THEN IdleRun
              ELSE [run EXCEPT !.step = @ + 1, !.reading = TRUE, !.tries = 0,
                               !.copy = NewLedger, !.failed = @ \/ (pin /\ ~ok)]]
        /\ sticky' = [sticky EXCEPT ![r] = IF pin /\ ok THEN CurrentRequest(r).model ELSE @]

\* An acknowledged append is followed until MaxLedgerEvents later ones.
Acknowledge(op, seq) ==
    ledgerAcked' = {a \in ledgerAcked \cup {[op |-> op, seq |-> seq]} :
                        a.seq + MaxLedgerEvents > ledger'.next - 1}

\* The operation is in the state: the recorded event is the answer.
LedgerReplay(r) ==
    /\ Running(r) /\ ~ledgerRun[r].reading
    /\ \E e \in Retained(ledgerRun[r].copy, OperationOf(CurrentRequest(r))) :
          /\ e.req = CurrentRequest(r)
          /\ UNCHANGED <<ledger, deliveries, ledgerFaults, reader>>
          /\ Acknowledge(e.op, e.seq)
    /\ AfterAppend(r, TRUE)

LedgerRefuse(r) ==
    /\ Running(r) /\ ~ledgerRun[r].reading
    /\ Conflicts(ledgerRun[r].copy, CurrentRequest(r))
    /\ AfterAppend(r, FALSE)
    /\ UNCHANGED <<ledger, deliveries, ledgerFaults, ledgerAcked, reader>>

Proceeds(r) ==
    /\ Running(r) /\ ~ledgerRun[r].reading
    /\ Retained(ledgerRun[r].copy, OperationOf(CurrentRequest(r))) = {}
    /\ ~Conflicts(ledgerRun[r].copy, CurrentRequest(r))

Prepared(r) ==
    Appended(ledgerRun[r].copy, CurrentRequest(r), <<ledgerRun[r].id, ledgerRun[r].step>>)

\* Mutant: the state is written without comparing.
WriteBlindly(r) ==
    /\ Proceeds(r)
    /\ ledger' = Prepared(r)
    /\ Acknowledge(OperationOf(CurrentRequest(r)), ledgerRun[r].copy.next)
    /\ AfterAppend(r, TRUE)
    /\ UNCHANGED <<deliveries, ledgerFaults, reader>>

LedgerSwap(r) ==
    /\ Proceeds(r) /\ ledgerRun[r].copy = ledger
    /\ ledger' = Prepared(r)
    /\ Acknowledge(OperationOf(CurrentRequest(r)), ledger.next)
    /\ AfterAppend(r, TRUE)
    /\ UNCHANGED <<deliveries, ledgerFaults, reader>>

\* Another append came first: read again, up to maxRetries attempts.
LedgerLose(r) ==
    /\ Proceeds(r) /\ ledgerRun[r].copy # ledger
    /\ IF ledgerRun[r].tries + 1 < LedgerRetries
       THEN /\ ledgerRun' = [ledgerRun EXCEPT ![r].reading = TRUE, ![r].tries = @ + 1,
                                              ![r].copy = NewLedger]
            /\ UNCHANGED sticky
       ELSE AfterAppend(r, FALSE)
    /\ UNCHANGED <<ledger, deliveries, ledgerFaults, ledgerAcked, reader>>

\* The backend call of the swap returns an error, with or without effect.
LedgerFault(r) ==
    /\ Proceeds(r) /\ deliveries + ledgerFaults < MaxDeliveries
    /\ ledgerFaults' = ledgerFaults + 1
    /\ ledger' \in {ledger} \cup (IF ledgerRun[r].copy = ledger THEN {Prepared(r)} ELSE {})
    /\ AfterAppend(r, FALSE)
    /\ UNCHANGED <<deliveries, ledgerAcked, reader>>

\* The process stops in the middle of a turn; its sticky models are gone.
LedgerCrash(r) ==
    /\ Running(r)
    /\ ledgerRun' = [ledgerRun EXCEPT ![r] = IdleRun]
    /\ sticky' = [sticky EXCEPT ![r] = NoModel]
    /\ UNCHANGED <<ledger, deliveries, ledgerFaults, ledgerAcked, reader>>

-----------------------------------------------------------------------------
\* queryState with a type filter: scan downwards from the newest event, or
\* from below the anchor of the page token, until the page is full.
AnchorIndex == CHOOSE i \in 1 .. Len(ledger.entries) : ledger.entries[i].id = reader.anchor

PageStart == IF reader.anchor = NoEvent THEN Len(ledger.entries) ELSE AnchorIndex - 1

Wanted(i) == ledger.entries[i].req.type # Called

PageEnd ==
    LET full == {i \in 1 .. PageStart :
                    Cardinality({j \in i .. PageStart : Wanted(j)}) = PageLimit}
    IN  IF full = {} THEN 1 ELSE CHOOSE i \in full : \A j \in full : j <= i

AnchorRetained ==
    reader.anchor = NoEvent \/ \E e \in LedgerRange(ledger.entries) : e.id = reader.anchor

LedgerPage ==
    /\ ~reader.done /\ ledger.entries # <<>> /\ AnchorRetained
    /\ reader' = [top    |-> IF reader.top = 0 THEN ledger.next - 1 ELSE reader.top,
                  anchor |-> ledger.entries[PageEnd].id,
                  seen   |-> reader.seen \cup
                               {ledger.entries[i].seq : i \in {j \in PageEnd .. PageStart : Wanted(j)}},
                  done   |-> PageEnd = 1]
    /\ UNCHANGED <<ledger, ledgerRun, sticky, deliveries, ledgerFaults, ledgerAcked>>

\* "anchor event is unavailable": the listing fails.
LedgerPageLost ==
    /\ ~reader.done /\ ~AnchorRetained
    /\ reader' = [NoReader EXCEPT !.done = TRUE]
    /\ UNCHANGED <<ledger, ledgerRun, sticky, deliveries, ledgerFaults, ledgerAcked>>

LedgerNext ==
    \/ \E r \in LedgerReplica, t \in LedgerTurn : LedgerDeliver(r, t)
    \/ \E r \in LedgerReplica :
          \/ LedgerRead(r) \/ LedgerReplay(r) \/ LedgerRefuse(r) \/ LedgerSwap(r)
          \/ LedgerLose(r) \/ LedgerFault(r) \/ LedgerCrash(r)
    \/ LedgerPage
    \/ LedgerPageLost

LedgerSpec == LedgerInit /\ [][LedgerNext]_ledgerVars

-----------------------------------------------------------------------------
LedgerTypeOK ==
    /\ ledger.next \in Nat \ {0}
    /\ Len(ledger.entries) <= MaxLedgerEvents
    /\ ledger.pinned \in LedgerModel \cup {NoModel}
    /\ \A r \in LedgerReplica :
          /\ sticky[r] \in LedgerModel \cup {NoModel}
          /\ ledgerRun[r].step \in 0 .. 3 /\ ledgerRun[r].tries < LedgerRetries
    /\ reader.seen \subseteq 1 .. reader.top

\* validateState.
Accepted(s) ==
    LET n == Len(s.entries)
    IN  /\ n <= MaxLedgerEvents /\ Cardinality(BranchesOf(s.heads)) <= MaxBranches
        /\ \A i, j \in 1 .. n : i # j => /\ s.entries[i].op # s.entries[j].op
                                         /\ s.entries[i].id # s.entries[j].id
        /\ \A i \in 1 .. n : s.entries[i].seq = s.next - 1 - n + i

\* No sequence of appends, evictions, retries and faults leads to a state
\* that the next read rejects as corrupt: validateState and prepareAppend
\* are written apart, and a rejected state would close the session's record
\* for good.
LedgerReadable == Accepted(ledger)

\* Every append that reported success is in the record under the sequence
\* it was acknowledged with, until MaxLedgerEvents newer ones evict it:
\* replicas that append at the same time do not overwrite each other.
LedgerKeepsAcknowledged ==
    \A a \in ledgerAcked :
        a.seq + MaxLedgerEvents > ledger.next - 1 =>
            \E e \in LedgerRange(ledger.entries) : e.op = a.op /\ e.seq = a.seq

\* "each ... remains on its own immutable chain" (README.md:562): between
\* the start and the end of a turn, an event names the branch's previous
\* event as its parent, whatever the other branches did in between.
LedgerBranchesChain ==
    \A i, j \in 1 .. Len(ledger.entries) :
        LET e == ledger.entries[i]
            d == ledger.entries[j]
        IN  (/\ j < i /\ e.req.type # Started /\ d.req.type # Finished
             /\ d.req.branch = e.req.branch
             /\ \A k \in j + 1 .. i - 1 : ledger.entries[k].req.branch # e.req.branch)
            => e.parent = d.id

\* A process claims a model pin only if a restarted one would find a pin
\* (the comment at service.go:125).
LedgerPinDurable ==
    \A r \in LedgerReplica : sticky[r] # NoModel => ledger.pinned # NoModel

\* Paging neither skips nor repeats an event although appends and evictions
\* move the entries between the pages: a reader that came to the end has
\* seen every event still retained that was there when it began.
LedgerPagesComplete ==
    reader.done =>
        \A e \in LedgerRange(ledger.entries) :
            (e.seq <= reader.top /\ e.req.type # Called) => e.seq \in reader.seen

\* What any replica reads back is a ledger it accepts, whose events it can
\* follow from the end of a turn to its start and page through, and in which
\* everything is that was acknowledged: appended events, and a model pin.
LedgerSound ==
    /\ LedgerReadable /\ LedgerBranchesChain /\ LedgerPagesComplete
    /\ LedgerKeepsAcknowledged /\ LedgerPinDurable
=============================================================================
