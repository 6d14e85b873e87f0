-------------------------- MODULE TurnJournalProofs --------------------------
(***************************************************************************)
(* Proofs about TurnJournal for every set of writers, owners and batches   *)
(* and every number of tasks: its types, the index that names every stored *)
(* record, and the way records advance.  The index is complete only        *)
(* because a creator's task is indexed before its record is written, and   *)
(* an update is valid for the record it replaces only because the writer   *)
(* still holds the record it was validated against; WriterInv says both.   *)
(***************************************************************************)
EXTENDS TurnJournal, FiniteSetTheorems, TLAPS

USE JournalAssumption, NoneIsNoRecord

LocalTypeOK ==
    /\ arg \in [Writer -> Ref \cup [owner : Owner] \cup {None}]
    /\ seen \in [Writer -> SUBSET Ref]
    /\ snap \in [Writer -> Record \cup {None}]
    /\ next \in [Writer -> Record \cup {None}]
    /\ expected \in [Writer -> SUBSET Task]

\* What a writer knows between two of its steps.
WriterInv ==
    \A w \in Writer :
        /\ pc[w] \in {"index", "index_write", "create"} => arg[w] \in Ref
        /\ pc[w] = "index_write" => \A r \in seen[w] : r.task # arg[w].task
        /\ pc[w] = "create" => arg[w] \in index
        /\ pc[w] = "swap" =>
             /\ arg[w].task \in Task
             /\ snap[w] # None
             /\ next[w] \in Record
             /\ next[w].rev = snap[w].rev + 1
             /\ validateTransition(snap[w], next[w])

IInv == TypeOK /\ LocalTypeOK /\ WriterInv /\ StoredIsIndexed

localVars == <<pc, arg, seen, snap, next, try, listed, expected>>

(***************************************************************************)
(* The record Create writes is a record of revision 1 (cas_store.go,       *)
(* Create).                                                                *)
(***************************************************************************)
LEMMA PreparedType == PreparedRecord \in Record
<1>1. PreparedRecord \in RecordAt(1)
  BY DEF PreparedRecord, RecordAt, Phase, WorkPhase
<1> QED BY <1>1 DEF Record

(***************************************************************************)
(* Update stamps a record of a revision below the bound into a record of   *)
(* the next one (cas_store.go, Update).                                    *)
(***************************************************************************)
LEMMA StampedType ==
    ASSUME NEW k \in Nat, NEW r \in RecordAt(k), k < MaxRev
    PROVE  Stamped(r) \in Record /\ Stamped(r).rev = r.rev + 1 /\ r.rev = k
<1>1. r.rev = k /\ DOMAIN r = {"rev", "phase", "iter", "reason", "batch"}
  BY DEF RecordAt
<1>2. Stamped(r) \in RecordAt(k + 1) /\ Stamped(r).rev = r.rev + 1
  BY <1>1 DEF RecordAt, Stamped
<1>3. k + 1 \in 1..MaxRev
  OBVIOUS
<1> QED BY <1>1, <1>2, <1>3 DEF Record

(***************************************************************************)
(* The invariant holds of an empty store (cas_store.go, NewCASStore).      *)
(***************************************************************************)
LEMMA InitInv == JournalInit => IInv
<1> SUFFICES ASSUME JournalInit PROVE IInv
  OBVIOUS
<1> USE DEF JournalInit
<1>1. TypeOK
  BY DEF TypeOK, WriterPC
<1>2. LocalTypeOK
  BY DEF LocalTypeOK
<1>3. WriterInv /\ StoredIsIndexed
  BY DEF WriterInv, StoredIsIndexed
<1> QED BY <1>1, <1>2, <1>3 DEF IInv

(***************************************************************************)
(* A return, with the store as it is or not, forgets what the writer knew  *)
(* and keeps its types and what the others know of the index.              *)
(***************************************************************************)
LEMMA ReturnKeepsLocals ==
    ASSUME IInv, NEW w \in Writer, Return(w), index' = index
    PROVE  /\ pc' \in [Writer -> WriterPC]
           /\ try' \in [Writer -> 0..(MaxRetries - 1)]
           /\ listed' \in [Writer -> SUBSET Task]
           /\ LocalTypeOK' /\ WriterInv'
<1> USE DEF IInv, TypeOK, Return
<1>1. pc' \in [Writer -> WriterPC] /\ try' \in [Writer -> 0..(MaxRetries - 1)]
      /\ listed' \in [Writer -> SUBSET Task]
  BY DEF WriterPC
<1>2. LocalTypeOK'
  BY DEF LocalTypeOK
<1>3. WriterInv'
  BY DEF WriterInv, LocalTypeOK
<1> QED BY <1>1, <1>2, <1>3

(***************************************************************************)
(* A return that leaves the store alone keeps the invariant.               *)
(***************************************************************************)
LEMMA ReturnInv ==
    ASSUME IInv, NEW w \in Writer, Return(w), UNCHANGED store
    PROVE  IInv'
BY ReturnKeepsLocals DEF IInv, TypeOK, StoredIsIndexed, store

(***************************************************************************)
(* Create keeps the invariant (cas_store.go, Create and ensureIndexed).    *)
(***************************************************************************)
LEMMA CreateInv ==
    ASSUME IInv, NEW w \in Writer, CreateStep(w)
    PROVE  IInv'
<1> USE DEF IInv
<1>1. ASSUME NEW t \in Task, NEW o \in Owner, CreateBegin(w, t, o) PROVE IInv'
  <2>1. [task |-> t, owner |-> o] \in Ref
    BY DEF Ref
  <2>2. TypeOK'
    BY <1>1 DEF CreateBegin, TypeOK, WriterPC, store
  <2>3. LocalTypeOK'
    BY <1>1, <2>1 DEF CreateBegin, LocalTypeOK
  <2>4. WriterInv' /\ StoredIsIndexed'
    BY <1>1, <2>1 DEF CreateBegin, WriterInv, StoredIsIndexed, TypeOK, LocalTypeOK, store
  <2> QED BY <2>2, <2>3, <2>4
<1>2. CASE IndexRead(w)
  <2>1. CASE Return(w) /\ UNCHANGED store
    BY <2>1, ReturnInv
  <2>2. CASE ~ (Return(w) /\ UNCHANGED store)
    <3>1. UNCHANGED <<store, arg, snap, next, try, listed, expected>>
      BY <1>2, <2>2 DEF IndexRead
    <3>2. /\ pc' = [pc EXCEPT ![w] = pc'[w]] /\ pc'[w] \in {"index_write", "create"}
          /\ seen' = [seen EXCEPT ![w] = seen'[w]] /\ seen'[w] \subseteq Ref
          /\ pc[w] = "index"
          /\ pc'[w] = "index_write" => \A r \in seen'[w] : r.task # arg[w].task
          /\ pc'[w] = "create" => arg[w] \in index
      BY <1>2, <2>2 DEF IndexRead, TypeOK, LocalTypeOK
    <3>3. TypeOK' /\ LocalTypeOK'
      BY <3>1, <3>2, ZenonT(40) DEF TypeOK, LocalTypeOK, WriterPC, store
    <3>4. WriterInv' /\ StoredIsIndexed'
      BY <3>1, <3>2 DEF WriterInv, StoredIsIndexed, TypeOK, LocalTypeOK, store
    <3> QED BY <3>3, <3>4
  <2> QED BY <2>1, <2>2
<1>3. CASE IndexWrite(w)
  <2>1. CASE index = seen[w] /\ index' = index \cup {arg[w]}
    <3>1. arg[w] \in Ref /\ pc[w] = "index_write" /\ \A r \in index : r.task # arg[w].task
      BY <1>3, <2>1 DEF IndexWrite, WriterInv
    <3>2. /\ pc' = [pc EXCEPT ![w] = "create"] /\ seen' = [seen EXCEPT ![w] = {}]
          /\ UNCHANGED <<blob, owner, arg, snap, next, try, listed, expected>>
      BY <1>3, <2>1, <3>1 DEF IndexWrite, store
    <3>3. TypeOK' /\ LocalTypeOK'
      BY <2>1, <3>1, <3>2 DEF TypeOK, LocalTypeOK, WriterPC
    <3>4. WriterInv'
      BY <2>1, <3>1, <3>2 DEF WriterInv, TypeOK, LocalTypeOK
    <3>5. StoredIsIndexed'
      BY <2>1, <3>1, <3>2 DEF StoredIsIndexed
    <3> QED BY <3>3, <3>4, <3>5
  <2>2. CASE index # seen[w] /\ try[w] + 1 < MaxRetries /\ ~ Return(w)
    <3>1. /\ pc' = [pc EXCEPT ![w] = "index"] /\ seen' = [seen EXCEPT ![w] = {}]
          /\ try' = [try EXCEPT ![w] = @ + 1] /\ pc[w] = "index_write"
          /\ UNCHANGED <<store, arg, snap, next, listed, expected>>
      BY <1>3, <2>2 DEF IndexWrite
    <3>2. TypeOK' /\ LocalTypeOK'
      BY <2>2, <3>1 DEF TypeOK, LocalTypeOK, WriterPC, store
    <3>3. WriterInv' /\ StoredIsIndexed'
      BY <3>1 DEF WriterInv, StoredIsIndexed, TypeOK, LocalTypeOK, store
    <3> QED BY <3>2, <3>3
  <2>3. CASE Return(w) /\ UNCHANGED store
    BY <2>3, ReturnInv
  <2> QED BY <1>3, <2>1, <2>2, <2>3 DEF IndexWrite
<1>4. CASE BlobCreate(w)
  <2>1. arg[w] \in Ref /\ arg[w] \in index /\ Return(w) /\ index' = index
    BY <1>4 DEF BlobCreate, WriterInv
  <2>2. arg[w].task \in Task /\ arg[w].owner \in Owner
        /\ arg[w] = [task |-> arg[w].task, owner |-> arg[w].owner]
    BY <2>1 DEF Ref
  <2>3. blob' \in [Task -> Record \cup {None}] /\ owner' \in [Task -> Owner \cup {None}]
    BY <1>4, <2>2, PreparedType DEF BlobCreate, TypeOK
  <2>4. StoredIsIndexed'
    BY <1>4, <2>1, <2>2 DEF BlobCreate, StoredIsIndexed, TypeOK
  <2> QED BY <2>1, <2>3, <2>4, ReturnKeepsLocals DEF TypeOK
<1> QED BY <1>1, <1>2, <1>3, <1>4 DEF CreateStep

(***************************************************************************)
(* Update keeps the invariant (cas_store.go, Update).                      *)
(***************************************************************************)
LEMMA UpdateInv ==
    ASSUME IInv, NEW w \in Writer, UpdateStep(w)
    PROVE  IInv'
<1> USE DEF IInv
<1>1. ASSUME NEW t \in Task, blob[t] # None, NEW r \in RecordAt(blob[t].rev), UpdateRead(w, t, r)
      PROVE  IInv'
  <2>1. blob[t] \in Record /\ blob[t].rev \in 1..MaxRev
    BY <1>1 DEF TypeOK, Record, RecordAt
  <2>2. r.rev = blob[t].rev
    BY DEF RecordAt
  <2>3. blob[t].rev < MaxRev
    BY <1>1, <2>2 DEF UpdateRead
  <2>4. Stamped(r) \in Record /\ Stamped(r).rev = blob[t].rev + 1
    BY <2>1, <2>2, <2>3, StampedType
  <2>5. validateTransition(blob[t], Stamped(r))
    BY <1>1 DEF UpdateRead, Replaces
  <2>6. /\ pc' = [pc EXCEPT ![w] = "swap"]
        /\ arg' = [arg EXCEPT ![w] = [task |-> t, owner |-> owner[t]]]
        /\ snap' = [snap EXCEPT ![w] = blob[t]]
        /\ next' = [next EXCEPT ![w] = Stamped(r)]
        /\ UNCHANGED <<store, seen, try, listed, expected>>
    BY <1>1 DEF UpdateRead
  <2>7. [task |-> t, owner |-> owner[t]] \in Ref
    BY <1>1 DEF StoredIsIndexed, TypeOK
  <2>8. TypeOK'
    BY <2>6 DEF TypeOK, WriterPC, store
  <2>9. LocalTypeOK'
    BY <2>1, <2>4, <2>6, <2>7 DEF LocalTypeOK
  <2>10. WriterInv'
    <3> SUFFICES ASSUME NEW x \in Writer PROVE WriterInv!(x)'
      BY DEF WriterInv
    <3>1. CASE x = w
      BY <1>1, <2>4, <2>5, <2>6, <3>1 DEF TypeOK, LocalTypeOK
    <3>2. CASE x # w
      BY <2>6, <3>2 DEF WriterInv, TypeOK, LocalTypeOK, store
    <3> QED BY <3>1, <3>2
  <2>11. StoredIsIndexed'
    BY <2>6 DEF StoredIsIndexed, store
  <2> QED BY <2>8, <2>9, <2>10, <2>11
<1>2. CASE UpdateSwap(w)
  <2>1. /\ arg[w].task \in Task /\ snap[w] # None /\ next[w] \in Record
        /\ Return(w) /\ UNCHANGED <<index, owner>>
        /\ blob' = IF blob[arg[w].task] = snap[w]
                   THEN [blob EXCEPT ![arg[w].task] = next[w]] ELSE blob
    BY <1>2 DEF UpdateSwap, WriterInv
  <2>2. blob' \in [Task -> Record \cup {None}]
    BY <2>1 DEF TypeOK
  <2>3. StoredIsIndexed'
    BY <2>1 DEF StoredIsIndexed, TypeOK
  <2> QED BY <2>1, <2>2, <2>3, ReturnKeepsLocals DEF TypeOK
<1> QED BY <1>1, <1>2 DEF UpdateStep

(***************************************************************************)
(* A scan only reads, and keeps the invariant (cas_store.go, ListActive).  *)
(***************************************************************************)
LEMMA ScanInv ==
    ASSUME IInv, NEW w \in Writer, ScanStep(w)
    PROVE  IInv'
<1> USE DEF IInv
<1>1. ASSUME NEW o \in Owner, ScanBegin(w, o) PROVE IInv'
  <2>1. TypeOK' /\ LocalTypeOK'
    BY <1>1 DEF ScanBegin, TypeOK, LocalTypeOK, WriterPC, store
  <2>2. WriterInv' /\ StoredIsIndexed'
    BY <1>1 DEF ScanBegin, WriterInv, StoredIsIndexed, TypeOK, LocalTypeOK, store
  <2> QED BY <2>1, <2>2
<1>2. CASE ScanRecord(w)
  <2>1. CASE Return(w) /\ UNCHANGED store
    BY <2>1, ReturnInv
  <2>2. ASSUME NEW r \in First(seen[w]),
               listed' = [listed EXCEPT ![w] = @ \cup Visit(w, r)],
               seen' = [seen EXCEPT ![w] = @ \ {r}],
               UNCHANGED <<store, pc, arg, snap, next, try, expected>>
        PROVE  IInv'
    <3>1. r.task \in Task
      BY DEF First, LocalTypeOK, Ref
    <3>2. Visit(w, r) \subseteq Task
      BY <3>1 DEF Visit
    <3>3. TypeOK' /\ LocalTypeOK'
      BY <2>2, <3>2 DEF TypeOK, LocalTypeOK, store
    <3>4. WriterInv' /\ StoredIsIndexed'
      BY <2>2 DEF WriterInv, StoredIsIndexed, TypeOK, LocalTypeOK, store
    <3> QED BY <3>3, <3>4
  <2> QED BY <1>2, <2>1, <2>2 DEF ScanRecord, store
<1>3. CASE ScanEnd(w)
  <2>1. TypeOK' /\ LocalTypeOK'
    BY <1>3 DEF ScanEnd, TypeOK, LocalTypeOK, WriterPC, store
  <2>2. WriterInv' /\ StoredIsIndexed'
    BY <1>3 DEF ScanEnd, WriterInv, StoredIsIndexed, TypeOK, LocalTypeOK, store
  <2> QED BY <2>1, <2>2
<1>4. CASE ScanReturn(w)
  BY <1>4, ReturnInv DEF ScanReturn
<1> QED BY <1>1, <1>2, <1>3, <1>4 DEF ScanStep

(***************************************************************************)
(* Every step keeps the invariant.                                         *)
(***************************************************************************)
LEMMA NextInv == IInv /\ [Next]_vars => IInv'
<1> SUFFICES ASSUME IInv, [Next]_vars PROVE IInv'
  OBVIOUS
<1>1. ASSUME NEW w \in Writer, Abandon(w) PROVE IInv'
  BY <1>1, ReturnInv DEF Abandon
<1>2. CASE UNCHANGED vars
  BY <1>2 DEF IInv, TypeOK, LocalTypeOK, WriterInv, StoredIsIndexed, vars
<1> QED BY <1>1, <1>2, CreateInv, UpdateInv, ScanInv DEF Next, WriterStep

(***************************************************************************)
(* The invariant holds of every state of every journal.                    *)
(***************************************************************************)
LEMMA Invariant == Spec => []IInv
BY InitInv, NextInv, PTL DEF Spec

(***************************************************************************)
(* The store and the writers' locals keep their types (cas_store.go).      *)
(***************************************************************************)
THEOREM TypeCorrect == Spec => []TypeOK
BY Invariant, PTL DEF IInv

(***************************************************************************)
(* However creators race and wherever they stop, every stored record is    *)
(* named by the index, with its owner (cas_store.go, Create).              *)
(***************************************************************************)
THEOREM NothingIsInvisible == Spec => []StoredIsIndexed
BY Invariant, PTL DEF IInv

(***************************************************************************)
(* What a step may do to the records: only a swap changes a record that is *)
(* there, into the one it was validated for (cas_store.go, Update).        *)
(***************************************************************************)
LEMMA OnlySwapChanges ==
    ASSUME IInv, [Next]_vars, NEW t \in Task, blob[t] # None
    PROVE  /\ owner'[t] = owner[t]
           /\ blob'[t] # blob[t] => /\ blob'[t].rev = blob[t].rev + 1
                                    /\ validateTransition(blob[t], blob'[t])
<1> DEFINE Advances == /\ owner'[t] = owner[t]
                       /\ blob'[t] # blob[t] => /\ blob'[t].rev = blob[t].rev + 1
                                                /\ validateTransition(blob[t], blob'[t])
<1>1. CASE UNCHANGED <<blob, owner>>
  BY <1>1
<1>2. ASSUME NEW w \in Writer, BlobCreate(w) PROVE Advances
  BY <1>2 DEF BlobCreate, IInv, TypeOK
<1>3. ASSUME NEW w \in Writer, UpdateSwap(w) PROVE Advances
  BY <1>3 DEF UpdateSwap, IInv, TypeOK, WriterInv
<1>4. ASSUME NEW w \in Writer, WriterStep(w), ~ BlobCreate(w), ~ UpdateSwap(w)
      PROVE  UNCHANGED <<blob, owner>>
  BY <1>4 DEF WriterStep, CreateStep, CreateBegin, IndexRead, IndexWrite, UpdateStep, UpdateRead,
              ScanStep, ScanBegin, ScanRecord, ScanEnd, ScanReturn, Abandon, store
<1> QED BY <1>1, <1>2, <1>3, <1>4 DEF Next, vars

(***************************************************************************)
(* Each record is replaced only by its next revision, along a transition   *)
(* valid for the record it replaces (journal.go, Store).                   *)
(***************************************************************************)
THEOREM RecordsAdvanceValidly == Spec => AdvancesValidly
<1>1. IInv /\ [Next]_vars =>
        [\A t \in Task : blob'[t] # blob[t] /\ blob[t] # None =>
            /\ blob'[t].rev = blob[t].rev + 1
            /\ validateTransition(blob[t], blob'[t])
            /\ owner'[t] = owner[t]]_vars
  BY OnlySwapChanges
<1> QED BY <1>1, Invariant, PTL DEF Spec, AdvancesValidly

(***************************************************************************)
(* A terminal record is never replaced (journal.go, validateTransition).   *)
(***************************************************************************)
THEOREM TerminalRecordsStay == Spec => TerminalStays
<1>1. IInv /\ [Next]_vars =>
        [\A t \in Task : blob[t] # None /\ Terminal(blob[t]) => blob'[t] = blob[t]]_vars
  BY OnlySwapChanges DEF validateTransition
<1> QED BY <1>1, Invariant, PTL DEF Spec, TerminalStays


-----------------------------------------------------------------------------
(* What the tool batches of the records say about the effects of a turn.   *)

\* Every stored record, and every record on its way, is valid.
RecordsValid ==
    /\ \A t \in Task : blob[t] # None => Validate(blob[t])
    /\ \A w \in Writer : pc[w] = "swap" => Validate(next[w])

(***************************************************************************)
(* The ids of a valid record's calls tell them apart (journal.go,          *)
(* validateToolBatch).                                                     *)
(***************************************************************************)
LEMMA CallFound ==
    ASSUME NEW r, Validate(r), r.batch # None, NEW k \in DOMAIN r.batch.calls
    PROVE  Has(r, r.batch.calls[k].id) /\ CallOf(r, r.batch.calls[k].id) = r.batch.calls[k]
<1> DEFINE i == r.batch.calls[k].id
<1>1. \A j \in DOMAIN r.batch.calls : r.batch.calls[j].id = i => j = k
  BY DEF Validate, validateToolBatchForPhase
<1>2. (CHOOSE j \in DOMAIN r.batch.calls : r.batch.calls[j].id = i) = k
  BY <1>1
<1> QED BY <1>2 DEF Has, CallOf

(***************************************************************************)
(* A valid record with an uncertain call is interrupting or interrupted    *)
(* (journal.go, validateToolBatchForPhase).                                *)
(***************************************************************************)
LEMMA UncertainPhase ==
    ASSUME NEW r, Validate(r), r.phase \in Phase, r.batch \in Batch,
           CallsWith(r.batch, "uncertain") # {}
    PROVE  r.phase \in {"interrupting", "interrupted"}
<1> DEFINE calls == r.batch.calls
           C(o) == CallsWith(r.batch, o)
<1>1. r.batch # None /\ Len(calls) \in Nat /\ DOMAIN calls = 1..Len(calls)
  OBVIOUS
<1>2. IsFiniteSet(1..Len(calls)) /\ Cardinality(1..Len(calls)) = Len(calls)
  BY <1>1, FS_Interval
<1>3. PICK k \in 1..Len(calls) : calls[k].outcome = "uncertain"
  BY <1>1 DEF CallsWith
<1>4. ASSUME NEW o, o # "uncertain"
      PROVE  Cardinality(C(o)) # Len(calls)
  <2>1. C(o) \in SUBSET (1..Len(calls)) /\ k \notin C(o)
    BY <1>1, <1>3, <1>4 DEF CallsWith
  <2> HIDE DEF C
  <2> QED BY <1>2, <2>1, FS_Subset
<1>5. Cardinality(C("uncertain")) # 0
  <2>1. C("uncertain") \in SUBSET (1..Len(calls))
    BY <1>1 DEF CallsWith
  <2>2. IsFiniteSet(C("uncertain"))
    BY <1>2, <2>1, FS_Subset
  <2> QED BY <2>2, FS_EmptySet
<1>6. batchFitsPhase(r.batch, r.phase)
  BY <1>1 DEF Validate, validateToolBatchForPhase
<1>7. Cardinality(C("confirmed")) # Len(calls) /\ Cardinality(C("admitted")) # Len(calls)
  BY <1>4
<1> QED BY <1>5, <1>6, <1>7 DEF batchFitsPhase, Phase, WorkPhase, PendingPhase, TerminalPhase

(***************************************************************************)
(* A valid transition keeps what is not confirmed (journal.go,             *)
(* validateTransition).                                                    *)
(***************************************************************************)
LEMMA TransitionKeepsCalls ==
    ASSUME NEW r, NEW s, Validate(r), Validate(s), r = s \/ validateTransition(r, s),
           r.batch \in Batch, s.batch \in Batch \cup {None},
           NEW k \in DOMAIN r.batch.calls, r.batch.calls[k].outcome # "confirmed"
    PROVE  /\ s.batch # None /\ s.batch.assistant = r.batch.assistant
           /\ k \in DOMAIN s.batch.calls /\ s.batch.calls[k].id = r.batch.calls[k].id
           /\ allowedToolOutcomeTransition(r.batch.calls[k].outcome, s.batch.calls[k].outcome)
           /\ r.batch.calls[k].outcome = "admitted"
                => s.batch.calls[k].external = r.batch.calls[k].external
<1>1. CASE r = s
  BY <1>1 DEF allowedToolOutcomeTransition
<1>2. CASE validateTransition(r, s)
  <2>1. r.batch # None /\ ~ toolBatchAll(r.batch, "confirmed")
    BY DEF toolBatchAll, CallsWith
  <2>2. s.batch # None /\ sameToolBatchIdentity(r.batch, s.batch) /\ callsAdvance(r.batch, s.batch)
    BY <1>2, <2>1 DEF validateTransition, batchMayBecome, replacingConfirmed
  <2>3. DOMAIN s.batch.calls = DOMAIN r.batch.calls
    BY <2>1, <2>2 DEF sameToolBatchIdentity
  <2>4. r.batch.calls[k].outcome = "admitted" => r.batch.calls[k].external # None
    BY <2>1 DEF Validate, validateToolBatchForPhase, validCheckpoint
  <2> QED BY <2>2, <2>3, <2>4 DEF sameToolBatchIdentity, callsAdvance
<1> QED BY <1>1, <1>2

(***************************************************************************)
(* Only valid records are written (cas_store.go, Create and Update).       *)
(***************************************************************************)
LEMMA NextValid == IInv /\ RecordsValid /\ [Next]_vars => RecordsValid'
<1> SUFFICES ASSUME IInv, RecordsValid, [Next]_vars PROVE RecordsValid'
  OBVIOUS
<1> USE DEF IInv, TypeOK, LocalTypeOK
<1>1. CASE UNCHANGED vars
  BY <1>1 DEF RecordsValid, vars
<1>2. ASSUME NEW w \in Writer, BlobCreate(w) PROVE RecordsValid'
  <2>1. Validate(PreparedRecord)
    BY DEF PreparedRecord, Validate, validateTerminal, validateToolBatchForPhase
  <2> QED BY <1>2, <2>1, ZenonT(40) DEF BlobCreate, RecordsValid, Return, WriterInv
<1>3. ASSUME NEW w \in Writer, UpdateSwap(w) PROVE RecordsValid'
  BY <1>3 DEF UpdateSwap, RecordsValid, Return
<1>4. ASSUME NEW w \in Writer, NEW t \in Task, NEW r, UpdateRead(w, t, r) PROVE RecordsValid'
  <2>1. Validate(Stamped(r))
    BY <1>4 DEF UpdateRead, Replaces
  <2> QED BY <1>4, <2>1 DEF UpdateRead, RecordsValid, store
<1>5. ASSUME NEW w \in Writer,
             UNCHANGED blob, pc' = [pc EXCEPT ![w] = pc'[w]],
             next'[w] = next[w] \/ pc'[w] # "swap", pc'[w] = "swap" => pc[w] = "swap",
             \A x \in Writer : x # w => next'[x] = next[x]
      PROVE  RecordsValid'
  BY <1>5 DEF RecordsValid
<1>6. ASSUME NEW w \in Writer, WriterStep(w), ~ BlobCreate(w), ~ UpdateSwap(w),
             ~ \E t \in Task, r \in UNION {RecordAt(n) : n \in Nat} : UpdateRead(w, t, r)
      PROVE  RecordsValid'
  <2>1. CASE \E t \in Task, o \in Owner : CreateBegin(w, t, o)
    BY <1>5, <2>1 DEF CreateBegin, store
  <2>2. CASE IndexRead(w) \/ IndexWrite(w)
    BY <1>5, <2>2, ZenonT(40) DEF IndexRead, IndexWrite, Return, store
  <2>3. CASE ScanStep(w)
    BY <1>5, <2>3 DEF ScanStep, ScanBegin, ScanRecord, ScanEnd, ScanReturn, Return, store
  <2>4. CASE Abandon(w)
    BY <1>5, <2>4 DEF Abandon, Return, store
  <2>5. ~ UpdateStep(w)
    <3>1. \A t \in Task : blob[t] # None => blob[t].rev \in Nat
      BY DEF Record, RecordAt
    <3> QED BY <1>6, <3>1 DEF UpdateStep
  <2> QED BY <1>6, <2>1, <2>2, <2>3, <2>4, <2>5 DEF WriterStep, CreateStep
<1> QED BY <1>1, <1>2, <1>3, <1>4, <1>6 DEF Next

(***************************************************************************)
(* What a step may do to a record that is there, in terms of its calls.    *)
(***************************************************************************)
LEMMA StepKeepsCalls ==
    ASSUME IInv, RecordsValid, [Next]_vars, NEW t \in Task, blob[t] # None
    PROVE  /\ blob'[t] # None /\ Validate(blob[t]) /\ Validate(blob'[t])
           /\ blob[t] = blob'[t] \/ validateTransition(blob[t], blob'[t])
           /\ blob[t].batch \in Batch \cup {None} /\ blob'[t].batch \in Batch \cup {None}
           /\ blob'[t].phase \in Phase
<1>1. IInv' /\ RecordsValid'
  BY NextInv, NextValid
<1>2. blob[t] = blob'[t] \/ validateTransition(blob[t], blob'[t])
  BY OnlySwapChanges
<1>3. blob'[t] # None
  <2>1. UNCHANGED blob \/ \E w \in Writer : BlobCreate(w) \/ UpdateSwap(w)
    BY DEF Next, vars, WriterStep, CreateStep, CreateBegin, IndexRead, IndexWrite, UpdateStep,
       UpdateRead, ScanStep, ScanBegin, ScanRecord, ScanEnd, ScanReturn, Abandon, store
  <2>2. ASSUME NEW w \in Writer, BlobCreate(w) \/ UpdateSwap(w) PROVE blob'[t] # None
    <3>1. pc[w] = "swap" => next[w] # None
      BY DEF IInv, WriterInv
    <3> QED BY <2>2, <3>1, PreparedType DEF BlobCreate, UpdateSwap, IInv, TypeOK, WriterInv
  <2> QED BY <2>1, <2>2
<1>4. \A r \in Record : r.batch \in Batch \cup {None} /\ r.phase \in Phase
  BY DEF Record, RecordAt
<1>5. blob[t] \in Record /\ blob'[t] \in Record
  BY <1>1, <1>3 DEF IInv, TypeOK
<1> QED BY <1>1, <1>2, <1>3, <1>4, <1>5 DEF RecordsValid

(***************************************************************************)
(* No sequence of accepted updates loses sight of an effect that may have  *)
(* happened, and an uncertain one ends the turn (journal.go,               *)
(* validateTransition and validateToolBatchForPhase).                      *)
(***************************************************************************)
THEOREM EffectsAreNotForgotten == Spec => CallsAreSettled
<1>1. JournalInit => RecordsValid
  BY DEF JournalInit, RecordsValid
<1>2. Spec => []RecordsValid
  BY <1>1, Invariant, NextValid, PTL DEF Spec
<1>3. ASSUME IInv, RecordsValid, [Next]_vars, NEW t \in Task, blob[t] # None, blob[t].batch # None,
             NEW k \in DOMAIN blob[t].batch.calls, blob[t].batch.calls[k].outcome # "confirmed"
      PROVE  LET c == blob[t].batch.calls[k]
                 d == CallOf(blob'[t], c.id)
             IN  /\ Has(blob'[t], c.id)
                 /\ blob'[t].batch # None
                 /\ blob'[t].batch.assistant = blob[t].batch.assistant
                 /\ c.outcome # "requested" => d.outcome # "requested"
                 /\ c.outcome = "admitted" => d.external = c.external
                 /\ c.outcome = "uncertain" => CallsWith(blob'[t].batch, "uncertain") # {}
  <2>1. PICK r : r = blob[t]
    OBVIOUS
  <2>2. PICK s : s = blob'[t]
    OBVIOUS
  <2>3. /\ Validate(r) /\ Validate(s) /\ (r = s \/ validateTransition(r, s))
        /\ r.batch \in Batch /\ s.batch \in Batch \cup {None}
    BY <1>3, <2>1, <2>2, StepKeepsCalls
  <2>k. k \in DOMAIN r.batch.calls /\ r.batch.calls[k].outcome # "confirmed"
    BY <1>3, <2>1
  <2>4. /\ s.batch # None /\ s.batch.assistant = r.batch.assistant
        /\ k \in DOMAIN s.batch.calls /\ s.batch.calls[k].id = r.batch.calls[k].id
        /\ allowedToolOutcomeTransition(r.batch.calls[k].outcome, s.batch.calls[k].outcome)
        /\ r.batch.calls[k].outcome = "admitted"
                => s.batch.calls[k].external = r.batch.calls[k].external
    BY <2>3, <2>k, TransitionKeepsCalls
  <2>5. /\ Has(s, s.batch.calls[k].id)
        /\ CallOf(s, s.batch.calls[k].id) = s.batch.calls[k]
    BY <2>3, <2>4, CallFound
  <2>6. r.batch.calls[k].outcome = "uncertain" => CallsWith(s.batch, "uncertain") # {}
    BY <2>4 DEF allowedToolOutcomeTransition, CallsWith
  <2> QED BY <2>1, <2>2, <2>4, <2>5, <2>6 DEF allowedToolOutcomeTransition
<1>4. IInv /\ RecordsValid /\ [Next]_vars =>
        [\A t \in Task : blob[t] # None /\ blob[t].batch # None =>
           \A k \in DOMAIN blob[t].batch.calls :
             LET c == blob[t].batch.calls[k] IN
             c.outcome # "confirmed" =>
               /\ Has(blob'[t], c.id)
               /\ blob'[t].batch.assistant = blob[t].batch.assistant
               /\ LET d == CallOf(blob'[t], c.id) IN
                  /\ c.outcome # "requested" => d.outcome # "requested"
                  /\ c.outcome = "admitted" => d.external = c.external]_vars
  BY <1>3
<1>5. IInv /\ RecordsValid /\ [Next]_vars =>
        [\A t \in Task :
          (blob[t] # None /\ blob[t].batch # None /\ CallsWith(blob[t].batch, "uncertain") # {})
            => blob'[t].phase \in {"interrupting", "interrupted"}]_vars
  <2> SUFFICES ASSUME IInv, RecordsValid, [Next]_vars, NEW t \in Task, blob[t] # None,
                      blob[t].batch # None, CallsWith(blob[t].batch, "uncertain") # {}
               PROVE  blob'[t].phase \in {"interrupting", "interrupted"}
    OBVIOUS
  <2>1. PICK k \in DOMAIN blob[t].batch.calls : blob[t].batch.calls[k].outcome = "uncertain"
    BY DEF CallsWith
  <2>2. blob'[t].batch # None /\ CallsWith(blob'[t].batch, "uncertain") # {}
    BY <1>3, <2>1
  <2>3. Validate(blob'[t]) /\ blob'[t].phase \in Phase /\ blob'[t].batch \in Batch
    BY <2>2, StepKeepsCalls
  <2> QED BY <2>2, <2>3, UncertainPhase
<1> QED BY <1>2, <1>4, <1>5, Invariant, PTL DEF Spec, CallsAreSettled, CallsAreNotForgotten, UncertainIsFinal


-----------------------------------------------------------------------------
(* What a startup scan returns.                                            *)

\* A task a scan has to return is in its result or still to be visited.
Pending(w, t) == pc[w] = "scan" /\ [task |-> t, owner |-> arg[w].owner] \in seen[w]

VisitInv ==
    \A w \in Writer : pc[w] \in {"scan", "listed"} =>
        \A t \in expected[w] :
            /\ blob[t] # None
            /\ Active(t, arg[w].owner) => t \in listed[w] \/ Pending(w, t)

(***************************************************************************)
(* A record becomes active only by being created (journal.go,              *)
(* validateTransition).                                                    *)
(***************************************************************************)
LEMMA ActiveBefore ==
    ASSUME IInv, RecordsValid, [Next]_vars, NEW t \in Task, NEW o, blob[t] # None
    PROVE  blob'[t] # None /\ (Active(t, o)' => Active(t, o))
<1>1. owner'[t] = owner[t] /\ blob'[t] # None
  BY OnlySwapChanges, StepKeepsCalls
<1>2. Terminal(blob[t]) => blob'[t] = blob[t]
  BY OnlySwapChanges DEF validateTransition
<1> QED BY <1>1, <1>2 DEF Active

(***************************************************************************)
(* A scan in progress keeps what it has to return (cas_store.go,           *)
(* ListActive).                                                            *)
(***************************************************************************)
LEMMA NextVisit == IInv /\ RecordsValid /\ VisitInv /\ [Next]_vars => VisitInv'
<1> SUFFICES ASSUME IInv, RecordsValid, VisitInv, [Next]_vars,
                    NEW x \in Writer, pc'[x] \in {"scan", "listed"}, NEW t \in expected'[x]
             PROVE  /\ blob'[t] # None
                    /\ Active(t, arg[x].owner)' => t \in listed'[x] \/ Pending(x, t)'
  BY DEF VisitInv
<1> USE DEF IInv, TypeOK, LocalTypeOK
<1>1. CASE pc[x] \in {"scan", "listed"} /\ UNCHANGED <<pc[x], arg[x], seen[x], listed[x], expected[x]>>
  <2>1. t \in Task /\ blob[t] # None /\ t \in expected[x]
    BY <1>1 DEF VisitInv
  <2>2. owner'[t] = owner[t] /\ blob'[t] # None
    BY <2>1, OnlySwapChanges, StepKeepsCalls
  <2>3. Active(t, arg[x].owner)' => Active(t, arg[x].owner)
    BY <1>1, <2>1, <2>2, ActiveBefore DEF Active
  <2> QED BY <1>1, <2>1, <2>2, <2>3 DEF VisitInv, Pending, Active
<1>2. ASSUME NEW o \in Owner, ScanBegin(x, o)
      PROVE  blob'[t] # None /\ (Active(t, arg[x].owner)' => t \in listed'[x] \/ Pending(x, t)')
  <2>1. /\ pc'[x] = "scan" /\ arg'[x] = [owner |-> o] /\ seen'[x] = index
        /\ expected'[x] = {j \in Task : Active(j, o)} /\ UNCHANGED <<index, blob, owner>>
    BY <1>2 DEF ScanBegin, store
  <2>2. t \in Task /\ blob[t] # None /\ owner[t] = o
    BY <2>1 DEF Active
  <2>3. [task |-> t, owner |-> o] \in index
    BY <2>2 DEF StoredIsIndexed
  <2> QED BY <2>1, <2>2, <2>3 DEF Pending
<1>3. ASSUME NEW r \in First(seen[x]), pc[x] = "scan",
             ~ (blob[r.task] # None /\ owner[r.task] # r.owner),
             listed' = [listed EXCEPT ![x] = @ \cup Visit(x, r)],
             seen' = [seen EXCEPT ![x] = @ \ {r}],
             UNCHANGED <<store, pc, arg, expected>>
      PROVE  blob'[t] # None /\ (Active(t, arg[x].owner)' => t \in listed'[x] \/ Pending(x, t)')
  <2>1. t \in Task /\ blob[t] # None /\ t \in expected[x] /\ blob' = blob
    BY <1>3 DEF VisitInv, store
  <2>2. listed'[x] = listed[x] \cup Visit(x, r) /\ seen'[x] = seen[x] \ {r}
    BY <1>3
  <2>3. Active(t, arg[x].owner)' => Active(t, arg[x].owner)
    BY <1>3 DEF Active, store
  <2>4. Active(t, arg[x].owner) /\ r = [task |-> t, owner |-> arg[x].owner] => t \in Visit(x, r)
    BY DEF Visit
  <2> QED BY <1>3, <2>1, <2>2, <2>3, <2>4 DEF VisitInv, Pending
<1>4. CASE ScanEnd(x)
  <2>1. t \in Task /\ blob[t] # None /\ t \in expected[x] /\ blob' = blob /\ seen[x] = {}
    BY <1>4 DEF ScanEnd, VisitInv, store
  <2> QED BY <1>4, <2>1 DEF ScanEnd, VisitInv, Pending, Active, store
<1>5. ASSUME NEW w \in Writer, w # x, WriterStep(w)
      PROVE  UNCHANGED <<pc[x], arg[x], seen[x], listed[x], expected[x]>>
  BY <1>5 DEF WriterStep, CreateStep, CreateBegin, IndexRead, IndexWrite, BlobCreate, UpdateStep,
     UpdateRead, UpdateSwap, ScanStep, ScanBegin, ScanRecord, ScanEnd, ScanReturn, Abandon, Return
<1>6. CASE WriterStep(x)
  <2>1. CASE CreateStep(x) \/ UpdateStep(x) \/ Abandon(x)
    BY <2>1 DEF CreateStep, CreateBegin, IndexRead, IndexWrite, BlobCreate, UpdateStep, UpdateRead,
       UpdateSwap, Abandon, Return
  <2>2. CASE ScanStep(x)
    <3>1. CASE ScanReturn(x)
      BY <3>1 DEF ScanReturn, Return
    <3>2. CASE ScanRecord(x)
      BY <1>3, <3>2 DEF ScanRecord, Return
    <3> QED BY <1>2, <1>4, <2>2, <3>1, <3>2 DEF ScanStep
  <2> QED BY <1>6, <2>1, <2>2 DEF WriterStep
<1>7. CASE UNCHANGED vars
  BY <1>1, <1>7 DEF vars
<1>8. ASSUME NEW w \in Writer, w # x, WriterStep(w)
      PROVE  blob'[t] # None /\ (Active(t, arg[x].owner)' => t \in listed'[x] \/ Pending(x, t)')
  BY <1>1, <1>5, <1>8
<1> QED BY <1>6, <1>7, <1>8 DEF Next

(***************************************************************************)
(* The startup scan returns every record of its owner that was active when *)
(* it read the index and still is (cas_store.go, ListActive).              *)
(***************************************************************************)
THEOREM ScanReturnsActiveTurns == Spec => []ScanMissesNothing
<1>1. JournalInit => RecordsValid /\ VisitInv
  BY DEF JournalInit, RecordsValid, VisitInv
<1>2. VisitInv => ScanMissesNothing
  BY DEF VisitInv, ScanMissesNothing, Pending
<1> QED BY <1>1, <1>2, Invariant, NextValid, NextVisit, PTL DEF Spec

=============================================================================
