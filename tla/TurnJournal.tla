----------------------------- MODULE TurnJournal -----------------------------
(***************************************************************************)
(* The distributed turn journal (pkg/turnjournal/cas_store.go): several    *)
(* writers share a blob store that offers read, create-if-absent and       *)
(* compare-and-swap, and keep in it one record per task and one index of   *)
(* the tasks that may have a record.  Every blob operation is one step, so *)
(* two writers interleave between the read a decision is taken on and the  *)
(* write that carries it out, and Abandon stops a writer between any two   *)
(* of its steps: a crash, a cancelled context, or an error reported for an *)
(* operation that was, or was not, applied.                                *)
(***************************************************************************)
EXTENDS Integers, FiniteSets, Sequences

CONSTANTS
  Writer,        \* goroutines and processes that use the store
  Scanner,       \* those that run the startup scan
  NTasks,        \* tasks are numbered in the order the index sorts them
  Owner,         \* owner identities
  Batch,         \* the tool batches writers put in a record, None aside
  MaxRetries,    \* attempts of ensureIndexed
  MaxIter,       \* bound: iterations written
  MaxRev,        \* bound: revisions written
  None

Task == 1..NTasks

ASSUME JournalAssumption ==
  /\ Scanner \subseteq Writer
  /\ NTasks \in Nat /\ MaxRetries \in Nat \ {0}
  /\ MaxIter \in Nat /\ MaxRev \in Nat \ {0}
  /\ None \notin Batch
  /\ \A b \in Batch : Len(b.calls) \in Nat /\ DOMAIN b.calls = 1..Len(b.calls)

INSTANCE JournalRecord

(* The records of revision n. *)
RecordAt(n) == [rev : {n}, phase : Phase, iter : 0..MaxIter, reason : BOOLEAN,
                batch : Batch \cup {None}]
Record == UNION {RecordAt(n) : n \in 1..MaxRev}
Ref    == [task : Task, owner : Owner]

ASSUME NoneIsNoRecord == None \notin Record

VARIABLES
  index,      \* the refs of the index blob
  blob,       \* blob[t]: the record of task t, or None
  owner,      \* owner[t]: the owner written with it
  pc,         \* pc[w]: where writer w is in its operation
  arg,        \* arg[w]: the ref it works for
  seen,       \* seen[w]: the index refs it read; those a scan has still to visit
  snap,       \* snap[w]: the record it read
  next,       \* next[w]: the record it is about to write
  try,        \* try[w]: attempts of ensureIndexed so far
  listed,     \* listed[w]: the active tasks a scan has returned so far
  expected    \* history: expected[w]: the tasks that were active when its scan began

store == <<index, blob, owner>>
vars  == <<index, blob, owner, pc, arg, seen, snap, next, try, listed, expected>>

WriterPC == {"idle", "index", "index_write", "create", "swap", "scan", "listed"}

Active(t, o) == blob[t] # None /\ owner[t] = o /\ ~ Terminal(blob[t])

JournalInit ==
  /\ index = {}
  /\ blob = [t \in Task |-> None]
  /\ owner = [t \in Task |-> None]
  /\ pc = [w \in Writer |-> "idle"]
  /\ arg = [w \in Writer |-> None]
  /\ seen = [w \in Writer |-> {}]
  /\ snap = [w \in Writer |-> None]
  /\ next = [w \in Writer |-> None]
  /\ try = [w \in Writer |-> 0]
  /\ listed = [w \in Writer |-> {}]
  /\ expected = [w \in Writer |-> {}]

(* w's operation returns, with a value or an error: its locals are gone. *)
Return(w) ==
  /\ pc' = [pc EXCEPT ![w] = "idle"]
  /\ arg' = [arg EXCEPT ![w] = None]
  /\ seen' = [seen EXCEPT ![w] = {}]
  /\ snap' = [snap EXCEPT ![w] = None]
  /\ next' = [next EXCEPT ![w] = None]
  /\ try' = [try EXCEPT ![w] = 0]
  /\ listed' = [listed EXCEPT ![w] = {}]
  /\ expected' = [expected EXCEPT ![w] = {}]

Abandon(w) == pc[w] # "idle" /\ Return(w) /\ UNCHANGED store

-----------------------------------------------------------------------------
(* Create: index the task first, then write the record. *)

CreateBegin(w, t, o) ==
  /\ pc[w] = "idle"
  /\ pc' = [pc EXCEPT ![w] = "index"]
  /\ arg' = [arg EXCEPT ![w] = [task |-> t, owner |-> o]]
  /\ UNCHANGED <<store, seen, snap, next, try, listed, expected>>

(* Mutant of IndexRead: the owner of an existing ref is not compared. *)
IndexReadAnyOwner(w) ==
  LET taken == {r \in index : r.task = arg[w].task} IN
  /\ pc[w] = "index"
  /\ pc' = [pc EXCEPT ![w] = IF taken = {} THEN "index_write" ELSE "create"]
  /\ seen' = [seen EXCEPT ![w] = IF taken = {} THEN index ELSE {}]
  /\ UNCHANGED <<store, arg, snap, next, try, listed, expected>>

(* ensureIndexed reads the index: the ref is there, or there for another   *)
(* owner (ErrConflict), or it has to be inserted.                          *)
IndexRead(w) ==
  LET taken == {r \in index : r.task = arg[w].task} IN
  /\ pc[w] = "index"
  /\ \/ /\ taken = {}
        /\ pc' = [pc EXCEPT ![w] = "index_write"]
        /\ seen' = [seen EXCEPT ![w] = index]
        /\ UNCHANGED <<store, arg, snap, next, try, listed, expected>>
     \/ /\ taken = {arg[w]}
        /\ pc' = [pc EXCEPT ![w] = "create"]
        /\ UNCHANGED <<store, arg, seen, snap, next, try, listed, expected>>
     \/ taken \notin {{}, {arg[w]}} /\ Return(w) /\ UNCHANGED store

(* Mutant of IndexWrite: one attempt too many. *)
IndexWriteRetriesOver(w) ==
  /\ pc[w] = "index_write"
  /\ IF index = seen[w]
     THEN /\ index' = index \cup {arg[w]}
          /\ pc' = [pc EXCEPT ![w] = "create"]
          /\ UNCHANGED <<blob, owner, try>>
     ELSE /\ try[w] < MaxRetries
          /\ pc' = [pc EXCEPT ![w] = "index"]
          /\ try' = [try EXCEPT ![w] = @ + 1]
          /\ UNCHANGED store
  /\ seen' = [seen EXCEPT ![w] = {}]
  /\ UNCHANGED <<arg, snap, next, listed, expected>>

(* It writes the index back if nobody else did, and otherwise starts over  *)
(* until its attempts run out (ErrCASRetryLimit).                          *)
IndexWrite(w) ==
  /\ pc[w] = "index_write"
  /\ \/ /\ index = seen[w]
        /\ index' = index \cup {arg[w]}
        /\ pc' = [pc EXCEPT ![w] = "create"]
        /\ seen' = [seen EXCEPT ![w] = {}]
        /\ UNCHANGED <<blob, owner, arg, snap, next, try, listed, expected>>
     \/ /\ index # seen[w] /\ try[w] + 1 < MaxRetries
        /\ pc' = [pc EXCEPT ![w] = "index"]
        /\ seen' = [seen EXCEPT ![w] = {}]
        /\ try' = [try EXCEPT ![w] = @ + 1]
        /\ UNCHANGED <<store, arg, snap, next, listed, expected>>
     \/ index # seen[w] /\ try[w] + 1 >= MaxRetries /\ Return(w) /\ UNCHANGED store

(* blobs.Create: the record is new, or there is one already (ErrAlreadyExists). *)
BlobCreate(w) ==
  LET t == arg[w].task IN
  /\ pc[w] = "create"
  /\ IF blob[t] = None
     THEN /\ blob' = [blob EXCEPT ![t] = PreparedRecord]
          /\ owner' = [owner EXCEPT ![t] = arg[w].owner]
     ELSE UNCHANGED <<blob, owner>>
  /\ Return(w)
  /\ UNCHANGED index

-----------------------------------------------------------------------------
(* Update: read, compare revisions, validate, compare-and-swap.  Nothing   *)
(* happens before the read, so the caller's record r is chosen with it; a  *)
(* revision other than the stored one, an absent record, an invalid record *)
(* or transition return an error and change nothing.                       *)
UpdateRead(w, t, r) ==
  /\ pc[w] = "idle"
  /\ Replaces(blob[t], r)
  /\ r.rev < MaxRev
  /\ pc' = [pc EXCEPT ![w] = "swap"]
  /\ arg' = [arg EXCEPT ![w] = [task |-> t, owner |-> owner[t]]]
  /\ snap' = [snap EXCEPT ![w] = blob[t]]
  /\ next' = [next EXCEPT ![w] = Stamped(r)]
  /\ UNCHANGED <<store, seen, try, listed, expected>>

(* Mutant of UpdateSwap: an unconditional write. *)
UpdateSwapBlind(w) ==
  /\ pc[w] = "swap"
  /\ blob' = [blob EXCEPT ![arg[w].task] = next[w]]
  /\ Return(w)
  /\ UNCHANGED <<index, owner>>

(* The write takes effect only on the bytes that were read (ErrConflict). *)
UpdateSwap(w) ==
  LET t == arg[w].task IN
  /\ pc[w] = "swap"
  /\ blob' = IF blob[t] = snap[w] THEN [blob EXCEPT ![t] = next[w]] ELSE blob
  /\ Return(w)
  /\ UNCHANGED <<index, owner>>

-----------------------------------------------------------------------------
(* ListActive: read the index, then the records it names, in its order. *)

ScanBegin(w, o) ==
  /\ pc[w] = "idle" /\ w \in Scanner
  /\ pc' = [pc EXCEPT ![w] = "scan"]
  /\ arg' = [arg EXCEPT ![w] = [owner |-> o]]
  /\ seen' = [seen EXCEPT ![w] = index]
  /\ expected' = [expected EXCEPT ![w] = {t \in Task : Active(t, o)}]
  /\ UNCHANGED <<store, snap, next, try, listed>>

First(refs) == {r \in refs : \A s \in refs : r.task <= s.task}

(* What the visit of r adds to the result of w's scan. *)
Visit(w, r) == IF r.owner = arg[w].owner /\ Active(r.task, r.owner) THEN {r.task} ELSE {}

(* Mutant of ScanRecord: an indexed task without a record ends the scan. *)
ScanRecordStops(w) ==
  /\ pc[w] = "scan"
  /\ \E r \in First(seen[w]) :
       /\ listed' = [listed EXCEPT ![w] = @ \cup Visit(w, r)]
       /\ seen' = [seen EXCEPT ![w] = IF blob[r.task] = None THEN {} ELSE @ \ {r}]
  /\ UNCHANGED <<store, pc, arg, snap, next, try, expected>>

(* A record whose owner is not the index's is a corrupt store. *)
ScanRecord(w) ==
  /\ pc[w] = "scan"
  /\ \E r \in First(seen[w]) :
       IF blob[r.task] # None /\ owner[r.task] # r.owner
       THEN Return(w)
       ELSE /\ listed' = [listed EXCEPT ![w] = @ \cup Visit(w, r)]
            /\ seen' = [seen EXCEPT ![w] = @ \ {r}]
            /\ UNCHANGED <<pc, arg, snap, next, try, expected>>
  /\ UNCHANGED store

ScanEnd(w) ==
  /\ pc[w] = "scan" /\ seen[w] = {}
  /\ pc' = [pc EXCEPT ![w] = "listed"]
  /\ UNCHANGED <<store, arg, seen, snap, next, try, listed, expected>>

ScanReturn(w) == pc[w] = "listed" /\ Return(w) /\ UNCHANGED store

-----------------------------------------------------------------------------
CreateStep(w) ==
  \/ \E t \in Task, o \in Owner : CreateBegin(w, t, o)
  \/ IndexRead(w)
  \/ IndexWrite(w)
  \/ BlobCreate(w)

UpdateStep(w) ==
  \/ \E t \in Task : blob[t] # None /\ \E r \in RecordAt(blob[t].rev) : UpdateRead(w, t, r)
  \/ UpdateSwap(w)

ScanStep(w) ==
  \/ \E o \in Owner : ScanBegin(w, o)
  \/ ScanRecord(w)
  \/ ScanEnd(w)
  \/ ScanReturn(w)

WriterStep(w) == CreateStep(w) \/ UpdateStep(w) \/ ScanStep(w) \/ Abandon(w)

Next == \E w \in Writer : WriterStep(w)

Spec == JournalInit /\ [][Next]_vars

-----------------------------------------------------------------------------
TypeOK ==
  /\ index \subseteq Ref
  /\ blob \in [Task -> Record \cup {None}]
  /\ owner \in [Task -> Owner \cup {None}]
  /\ pc \in [Writer -> WriterPC]
  /\ try \in [Writer -> 0..(MaxRetries - 1)]
  /\ listed \in [Writer -> SUBSET Task]

(* cas_store.go:108 "can never leave durable execution state invisible to   *)
(* restart recovery": whatever creators race and wherever they stop, the    *)
(* index names every stored record, once, with the owner it belongs to.     *)
StoredIsIndexed ==
  /\ \A r, s \in index : r.task = s.task => r = s
  /\ \A t \in Task : blob[t] # None => [task |-> t, owner |-> owner[t]] \in index

(* journal.go:155 "exactly one concurrent writer can advance it": a record   *)
(* changes only to its next revision and by a transition that is valid for   *)
(* the record it replaces, although it was validated against an earlier read.*)
AdvancesValidly ==
  [][\A t \in Task : blob'[t] # blob[t] /\ blob[t] # None =>
       /\ blob'[t].rev = blob[t].rev + 1
       /\ validateTransition(blob[t], blob'[t])
       /\ owner'[t] = owner[t]]_vars

(* A terminal record stays as it is, whatever update was on its way when    *)
(* it was written.                                                          *)
TerminalStays ==
  [][\A t \in Task : blob[t] # None /\ Terminal(blob[t]) => blob'[t] = blob[t]]_vars

(* The startup scan: a record of the owner that was active when ListActive  *)
(* read the index, and still is, has been returned to recovery.             *)
ScanMissesNothing ==
  \A w \in Writer : pc[w] = "listed" =>
    \A t \in expected[w] : Active(t, arg[w].owner) => t \in listed[w]

(* The call with the given id in record r, if its batch has it. *)
Has(r, id)     == r.batch # None /\ \E k \in DOMAIN r.batch.calls : r.batch.calls[k].id = id
CallOf(r, id)  == r.batch.calls[CHOOSE k \in DOMAIN r.batch.calls : r.batch.calls[k].id = id]

(* journal.go:61 "Requested/uncertain mutations are never replayed          *)
(* automatically": a call that is not confirmed never leaves the record; it *)
(* does not go back to requested, and an admitted child stays the child of  *)
(* its call until the call has a result.                                    *)
CallsAreNotForgotten ==
  [][\A t \in Task : blob[t] # None /\ blob[t].batch # None =>
       \A k \in DOMAIN blob[t].batch.calls :
         LET c == blob[t].batch.calls[k] IN
         c.outcome # "confirmed" =>
           /\ Has(blob'[t], c.id)
           /\ blob'[t].batch.assistant = blob[t].batch.assistant
           /\ LET d == CallOf(blob'[t], c.id) IN
              /\ c.outcome # "requested" => d.outcome # "requested"
              /\ c.outcome = "admitted" => d.external = c.external]_vars

(* A turn with a call whose effect is uncertain is only ever interrupted:   *)
(* it never calls the provider or another tool again and never completes.   *)
UncertainIsFinal ==
  [][\A t \in Task :
       (blob[t] # None /\ blob[t].batch # None /\ CallsWith(blob[t].batch, "uncertain") # {})
         => blob'[t].phase \in {"interrupting", "interrupted"}]_vars

(* No sequence of accepted updates loses sight of an effect that may have   *)
(* happened: its call stays, and an uncertain one ends the turn.            *)
CallsAreSettled == CallsAreNotForgotten /\ UncertainIsFinal
=============================================================================
