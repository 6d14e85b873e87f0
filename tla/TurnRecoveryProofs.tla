-------------------------- MODULE TurnRecoveryProofs --------------------------
(***************************************************************************)
(* A managed turn across crashes, restarts, lost replies and cancellations,*)
(* proved for any number of them: the journal's outcome is the task host's,*)
(* and no call is forgotten or repeated.                                   *)
(*                                                                         *)
(* The argument is in two layers.  What is durable (DurableInv) is kept by *)
(* every write that the journal accepts, wherever the process is, because  *)
(* a batch gives way to another only when all its calls are answered.      *)
(* Where the process is (PlaceInv) says which call is on record and which  *)
(* call has no answer yet when a body starts or a result is appended.      *)
(***************************************************************************)
EXTENDS TurnRecovery, FiniteSetTheorems, TLAPS

USE NoneIsNothingElse

Touched(c) == (\E k \in DOMAIN ran : ran[k] = c) \/ c \in DOMAIN child

\* The calls of a batch belong to a message of the transcript; a confirmed one
\* has its result there, an admitted one names its own child.
GoodBatch(b) ==
  b # None =>
    \A k \in DOMAIN b.calls :
      /\ b.calls[k].id[1] <= n /\ b.calls[k].id[1] = b.assistant
      /\ b.calls[k].outcome = "confirmed" =>
           /\ b.calls[k].result.call = b.calls[k].id
           /\ \E j \in DOMAIN results : results[j] = b.calls[k].result
      /\ b.calls[k].outcome = "admitted" =>
           b.calls[k].external = b.calls[k].id /\ b.calls[k].id \in DOMAIN child

DurableType ==
  /\ rec \in Record \cup {None}
  /\ asst \in Seq(Response) /\ results \in Seq(Answer) /\ ran \in Seq(CallRef)
  /\ child \in [DOMAIN child -> ChildStatus] /\ DOMAIN child \subseteq CallRef

RecordInv ==
  /\ rec # None => Validate(rec) /\ GoodBatch(rec.batch)
  /\ mem \in Record \cup {None} /\ (mem # None => GoodBatch(mem.batch))

CallsInv ==
  /\ \A c \in CallRef : Touched(c) => c[1] <= n /\ (Answered(c) \/ OnRecord(c))
  /\ \A c \in CallRef : Answered(c) => c[1] <= n
  /\ ResultOnce

DurableInv == DurableType /\ RecordInv /\ CallsInv

-----------------------------------------------------------------------------
AppendPC == {"call", "admitted", "await", "append"}
LoopPC == {"input", "provider", "model", "persisted", "pending", "bodies", "confirm", "finalize",
           "recover", "append_once", "confirm_recovered"} \cup AppendPC

ControlType ==
  /\ pc \in LivePC \cup RecoveryPC
  /\ iter \in Nat /\ cur \in Nat /\ value \in Value /\ ctxDone \in BOOLEAN
  /\ faults.count \in Nat

\* The call at hand and the ones after it have no answer.
Unanswered(from) == \A i \in Nat : i >= from => ~ Answered(<<n, i>>)

AtCall == n > 0 /\ cur \in DOMAIN Calls

\* The record this process works from is the durable one.
HeldInv ==
  /\ pc \in LoopPC => mem = rec
  /\ pc \in LoopPC \cup {"return", "finish"} => mem # None
  /\ pc = "decide" => rec # None

LivePlace ==
  /\ pc = "persisted" => n > 0 /\ Unanswered(1)
  /\ pc \in {"pending", "bodies"} \cup AppendPC => AtCall /\ Unanswered(cur)
  /\ pc = "bodies" => ParallelSafe /\ left \subseteq DOMAIN Calls
                      /\ \A i \in DOMAIN Calls : OnRecord(Call(i))
  /\ pc \in {"call", "admitted", "await"} =>
       /\ ~ ParallelSafe
       /\ rec.batch # None /\ Len(rec.batch.calls) = 1 /\ rec.batch.calls[1].id = Call(cur)
  /\ pc \in {"admitted", "await"} => Call(cur) \in DOMAIN child
  /\ pc = "append" => OnRecord(Call(cur))
  /\ pc \in {"append", "confirm"} /\ ParallelSafe => \A i \in DOMAIN Calls : OnRecord(Call(i))
  /\ pc = "confirm" =>
       /\ AtCall /\ Unanswered(cur + 1) /\ OnRecord(Call(cur))
       /\ \E j \in DOMAIN results : results[j] = [call |-> Call(cur), value |-> value]

RecoveredPlace ==
  /\ pc \in {"recover", "append_once", "confirm_recovered"} =>
       rec.batch # None /\ Len(rec.batch.calls) = 1
  /\ pc = "recover" => RecoveredCall \in DOMAIN child
  /\ pc = "confirm_recovered" =>
       \E j \in DOMAIN results : results[j] = [call |-> RecoveredCall, value |-> value]

PlaceInv == ControlType /\ HeldInv /\ LivePlace /\ RecoveredPlace

RecoveryInv == DurableInv /\ PlaceInv

-----------------------------------------------------------------------------
(* What the journal does to a record it accepts (turnjournal/journal.go). *)

LEMMA StampedFields ==
  ASSUME NEW r \in Record
  PROVE  /\ Stamped(r) \in Record /\ Stamped(r).phase = r.phase /\ Stamped(r).batch = r.batch
         /\ Stamped(r).rev = r.rev + 1 /\ Stamped(r).iter = r.iter
<1> DEFINE w == r.reason /\ r.phase \notin WorkPhase \cup {"completing"}
<1>1. Stamped(r) = [r EXCEPT !.rev = r.rev + 1, !.reason = w]
  BY DEF Stamped
<1>2. w \in BOOLEAN
  BY DEF Record
<1> HIDE DEF w
<1>3. r = [rev |-> r.rev, phase |-> r.phase, iter |-> r.iter, reason |-> r.reason, batch |-> r.batch]
  BY DEF Record
<1>4. Stamped(r) = [rev |-> r.rev + 1, phase |-> r.phase, iter |-> r.iter, reason |-> w,
                    batch |-> r.batch]
  BY <1>1, <1>3
<1>5. r.rev + 1 \in Nat /\ r.phase \in Phase /\ r.iter \in Nat /\ r.batch \in Batch \cup {None}
  BY DEF Record
<1> QED BY <1>2, <1>4, <1>5 DEF Record

(***************************************************************************)
(* A record gives way only to one with the same calls, unless it has none  *)
(* or all of its calls are confirmed (validateTransition).                 *)
(***************************************************************************)
LEMMA BatchStays ==
  ASSUME NEW r \in Record, NEW s \in Record, validateTransition(r, s), r.batch # None
  PROVE  \/ CallsWith(r.batch, "confirmed") = DOMAIN r.batch.calls
         \/ /\ s.batch # None
            /\ DOMAIN s.batch.calls = DOMAIN r.batch.calls
            /\ \A k \in DOMAIN r.batch.calls : s.batch.calls[k].id = r.batch.calls[k].id
<1>1. batchMayBecome(r, s)
  BY DEF validateTransition
<1>2. CASE s.batch = None
  BY <1>1, <1>2 DEF batchMayBecome, toolBatchAll
<1>3. CASE s.batch # None
  <2>1. \/ replacingConfirmed(r, s)
        \/ sameToolBatchIdentity(r.batch, s.batch) /\ callsAdvance(r.batch, s.batch)
    BY <1>1, <1>3 DEF batchMayBecome
  <2>2. CASE replacingConfirmed(r, s)
    BY <2>2 DEF replacingConfirmed, toolBatchAll
  <2>3. CASE sameToolBatchIdentity(r.batch, s.batch)
    <3>1. r.batch.calls \in Seq(CallRecord) /\ s.batch.calls \in Seq(CallRecord)
      BY <1>3 DEF Record, Batch
    <3> QED BY <1>3, <2>3, <3>1 DEF sameToolBatchIdentity
  <2> QED BY <2>1, <2>2, <2>3
<1> QED BY <1>2, <1>3

\* A batch stays good while the transcript grows and children end.
LEMMA GoodBatchStays ==
  ASSUME NEW b \in Batch \cup {None}, GoodBatch(b),
         n \in Nat, n' \in Nat, n' >= n,
         \A k \in DOMAIN results : k \in DOMAIN results' /\ results'[k] = results[k],
         DOMAIN child \subseteq DOMAIN child'
  PROVE  GoodBatch(b)'
<1> SUFFICES ASSUME b # None, NEW k \in DOMAIN b.calls
             PROVE  /\ b.calls[k].id[1] <= n' /\ b.calls[k].id[1] = b.assistant
                    /\ b.calls[k].outcome = "confirmed" =>
                         /\ b.calls[k].result.call = b.calls[k].id
                         /\ \E j \in DOMAIN results' : results'[j] = b.calls[k].result
                    /\ b.calls[k].outcome = "admitted" =>
                         b.calls[k].external = b.calls[k].id /\ b.calls[k].id \in DOMAIN child'
  BY DEF GoodBatch
<1>1. b.calls[k].id[1] \in Nat
  <2>1. b.calls[k] \in CallRecord
    BY DEF Batch
  <2> QED BY <2>1 DEF CallRecord, CallRef
<1>2. b.calls[k].id[1] <= n'
  BY <1>1 DEF GoodBatch
<1> QED BY <1>2 DEF GoodBatch

(***************************************************************************)
(* The steps of the durable state.                                         *)
(***************************************************************************)

\* The journal is left alone; the process may forget its record or read it.
LEMMA JournalKept ==
  ASSUME DurableInv, UNCHANGED <<rec, asst, results, child, ran>>, mem' \in {mem, rec, None}
  PROVE  DurableInv'
<1>1. DurableType'
  BY DEF DurableInv, DurableType
<1>2. \A b : GoodBatch(b) => GoodBatch(b)'
  BY DEF GoodBatch, n
<1>3. RecordInv'
  BY <1>2 DEF DurableInv, DurableType, RecordInv
<1>4. CallsInv'
  BY DEF DurableInv, CallsInv, Touched, Answered, OnRecord, ResultOnce, n
<1> QED BY <1>1, <1>3, <1>4 DEF DurableInv

\* The journal accepts a record, and tells the process or does not.
LEMMA JournalWritten ==
  ASSUME DurableInv, UNCHANGED <<asst, results, child, ran>>,
         NEW r \in Record, Accepted(r), GoodBatch(r.batch), rec' = Stamped(r),
         mem' \in {mem, Stamped(r), None}
  PROVE  DurableInv' /\ rec' # None
<1>1. /\ Stamped(r) \in Record /\ Stamped(r).batch = r.batch /\ Stamped(r) # None
      /\ Validate(Stamped(r)) /\ validateTransition(rec, Stamped(r)) /\ rec \in Record
  BY StampedFields DEF Accepted, Replaces, DurableInv, DurableType
<1>2. DurableType'
  BY <1>1 DEF DurableInv, DurableType
<1>3. \A b : GoodBatch(b) => GoodBatch(b)'
  BY DEF GoodBatch, n
<1>4. RecordInv'
  BY <1>1, <1>3 DEF DurableInv, DurableType, RecordInv
<1>5. ASSUME NEW c \in CallRef, OnRecord(c) PROVE OnRecord(c)' \/ Answered(c)
  <2>1. PICK k \in DOMAIN rec.batch.calls : rec.batch # None /\ rec.batch.calls[k].id = c
    BY <1>5 DEF OnRecord
  <2>2. CASE CallsWith(rec.batch, "confirmed") = DOMAIN rec.batch.calls
    <3>1. rec.batch.calls[k].outcome = "confirmed"
      BY <2>1, <2>2 DEF CallsWith
    <3>2. PICK j \in DOMAIN results : results[j] = rec.batch.calls[k].result
      BY <1>1, <2>1, <3>1 DEF DurableInv, RecordInv, GoodBatch
    <3>3. rec.batch.calls[k].result.call = c
      BY <1>1, <2>1, <3>1 DEF DurableInv, RecordInv, GoodBatch
    <3> QED BY <3>2, <3>3 DEF Answered
  <2>3. CASE /\ Stamped(r).batch # None
             /\ DOMAIN Stamped(r).batch.calls = DOMAIN rec.batch.calls
             /\ \A i \in DOMAIN rec.batch.calls :
                  Stamped(r).batch.calls[i].id = rec.batch.calls[i].id
    BY <1>1, <2>1, <2>3 DEF OnRecord
  <2> QED BY <1>1, <2>1, <2>2, <2>3, BatchStays
<1>6. CallsInv'
  <2>1. \A c : (Touched(c)' <=> Touched(c)) /\ (Answered(c)' <=> Answered(c)) /\ n' = n
    BY DEF Touched, Answered, n
  <2>2. ResultOnce'
    BY DEF DurableInv, CallsInv, ResultOnce
  <2> QED BY <1>5, <2>1, <2>2 DEF DurableInv, CallsInv
<1> QED BY <1>1, <1>2, <1>4, <1>6 DEF DurableInv

\* The model's answer is added to the transcript.
LEMMA MessageAdded ==
  ASSUME DurableInv, UNCHANGED <<rec, results, child, ran, mem>>,
         NEW m \in Response, asst' = Append(asst, m)
  PROVE  DurableInv' /\ n' = n + 1 /\ n \in Nat /\ (\A i : ~ Answered(<<n, i>>))'
<1>1. asst \in Seq(Response) /\ asst' \in Seq(Response) /\ n \in Nat /\ n' = n + 1
  BY DEF DurableInv, DurableType, n
<1>2. DurableType'
  BY <1>1 DEF DurableInv, DurableType
<1>3. RecordInv'
  <2>1. \A b \in Batch \cup {None} : GoodBatch(b) => GoodBatch(b)'
    BY <1>1, GoodBatchStays
  <2>2. \A r \in Record : r.batch \in Batch \cup {None}
    BY DEF Record
  <2> QED BY <2>1, <2>2 DEF DurableInv, DurableType, RecordInv
<1>4. \A c : (Touched(c)' <=> Touched(c)) /\ (Answered(c)' <=> Answered(c))
             /\ (OnRecord(c)' <=> OnRecord(c))
  BY DEF Touched, Answered, OnRecord
<1>5. CallsInv'
  <2>1. ResultOnce'
    BY DEF DurableInv, CallsInv, ResultOnce
  <2>2. ASSUME NEW c \in CallRef, c[1] <= n PROVE c[1] <= n'
    BY <1>1, <2>2 DEF CallRef
  <2> QED BY <1>4, <2>1, <2>2 DEF DurableInv, CallsInv
<1>6. ASSUME NEW i, NEW k \in DOMAIN results, results[k].call = <<n', i>> PROVE FALSE
  <2>1. results[k] \in Answer
    BY DEF DurableInv, DurableType
  <2>2. results[k].call \in CallRef
    BY <2>1 DEF Answer
  <2>3. <<n', i>>[1] <= n
    BY <1>6, <2>2 DEF DurableInv, CallsInv, Answered
  <2> QED BY <1>1, <2>3
<1>7. (\A i : ~ Answered(<<n, i>>))'
  BY <1>6 DEF Answered
<1> QED BY <1>1, <1>2, <1>3, <1>5, <1>7 DEF DurableInv

\* The result of a call that has none is added to the transcript.
LEMMA ResultAdded ==
  ASSUME DurableInv, UNCHANGED <<rec, asst, child, ran, mem>>,
         NEW c \in CallRef, NEW v \in Value, c[1] <= n, ~ Answered(c),
         results' = Append(results, [call |-> c, value |-> v])
  PROVE  /\ DurableInv'
         /\ \E j \in DOMAIN results' : results'[j] = [call |-> c, value |-> v]
         /\ \A d : Answered(d)' => d = c \/ Answered(d)
<1> DEFINE a == [call |-> c, value |-> v]
           last == Len(results) + 1
<1>1. /\ results \in Seq(Answer) /\ a \in Answer /\ a.call = c /\ results' \in Seq(Answer)
      /\ DOMAIN results = 1..Len(results) /\ Len(results) \in Nat
  BY DEF DurableInv, DurableType, Answer
<1>2. /\ DOMAIN results' = DOMAIN results \cup {last} /\ results'[last] = a
      /\ \A k \in DOMAIN results : results'[k] = results[k]
      /\ last \notin DOMAIN results
  BY <1>1
<1> HIDE DEF a, last
<1>3. n' = n /\ n \in Nat
  BY DEF n, DurableInv, DurableType
<1>4. DurableType'
  BY <1>1 DEF DurableInv, DurableType
<1>5. RecordInv'
  <2>1. \A b \in Batch \cup {None} : GoodBatch(b) => GoodBatch(b)'
    BY <1>2, <1>3, GoodBatchStays
  <2>2. \A r \in Record : r.batch \in Batch \cup {None}
    BY DEF Record
  <2> QED BY <2>1, <2>2 DEF DurableInv, DurableType, RecordInv
<1>6. \A d : Answered(d)' <=> d = c \/ Answered(d)
  BY <1>1, <1>2 DEF Answered
<1>7. ResultOnce'
  <2> SUFFICES ASSUME NEW j \in DOMAIN results', NEW k \in DOMAIN results',
                      results'[j].call = results'[k].call
               PROVE  j = k
    BY DEF ResultOnce
  <2>1. \A i \in DOMAIN results : results[i].call # c
    BY DEF Answered
  <2>2. CASE j \in DOMAIN results /\ k \in DOMAIN results
    BY <1>2, <2>2 DEF DurableInv, CallsInv, ResultOnce
  <2>3. CASE j = last \/ k = last
    BY <1>1, <1>2, <2>1, <2>3
  <2> QED BY <1>2, <2>2, <2>3
<1>8. CallsInv'
  <2>1. \A d : (Touched(d)' <=> Touched(d)) /\ (OnRecord(d)' <=> OnRecord(d))
    BY DEF Touched, OnRecord
  <2> QED BY <1>3, <1>6, <1>7, <2>1 DEF DurableInv, CallsInv
<1> QED BY <1>2, <1>4, <1>5, <1>6, <1>8 DEF DurableInv, a

\* A body starts, or a child is admitted, of a call that is on record.
LEMMA CallStarted ==
  ASSUME DurableInv, UNCHANGED <<rec, asst, results, mem>>,
         NEW c \in CallRef, c[1] <= n, OnRecord(c),
         \/ ran' = Append(ran, c) /\ UNCHANGED child
         \/ /\ child' = [d \in DOMAIN child \cup {c} |-> IF d = c THEN "running" ELSE child[d]]
            /\ UNCHANGED ran
  PROVE  DurableInv'
<1> DEFINE started == /\ ran' = Append(ran, c) /\ UNCHANGED child
           spawned == child' = [d \in DOMAIN child \cup {c} |-> IF d = c THEN "running" ELSE child[d]]
<1>1. DurableType' /\ DOMAIN child \subseteq DOMAIN child' /\ \A d : Touched(d)' => d = c \/ Touched(d)
  <2>1. CASE started
    <3>1. \A k \in DOMAIN ran' : ran'[k] = c \/ (k \in DOMAIN ran /\ ran'[k] = ran[k])
      BY <2>1 DEF DurableInv, DurableType
    <3> QED BY <2>1, <3>1 DEF DurableInv, DurableType, Touched
  <2>2. CASE spawned /\ UNCHANGED ran
    <3>1. DOMAIN child' = DOMAIN child \cup {c}
      BY <2>2
    <3>2. child' \in [DOMAIN child' -> ChildStatus]
      BY <2>2 DEF DurableInv, DurableType, ChildStatus
    <3> QED BY <2>2, <3>1, <3>2 DEF DurableInv, DurableType, Touched
  <2> QED BY <2>1, <2>2
<1>2. n' = n /\ n \in Nat
  BY DEF n, DurableInv, DurableType
<1>3. RecordInv'
  <2>1. \A b \in Batch \cup {None} : GoodBatch(b) => GoodBatch(b)'
    BY <1>1, <1>2, GoodBatchStays
  <2>2. \A r \in Record : r.batch \in Batch \cup {None}
    BY DEF Record
  <2> QED BY <2>1, <2>2 DEF DurableInv, DurableType, RecordInv
<1>5. \A d : (Answered(d)' <=> Answered(d)) /\ (OnRecord(d)' <=> OnRecord(d))
  BY DEF Answered, OnRecord
<1>6. CallsInv'
  BY <1>1, <1>2, <1>5 DEF DurableInv, CallsInv, ResultOnce
<1> QED BY <1>1, <1>3, <1>6 DEF DurableInv

\* A child ends.
LEMMA ChildEnded ==
  ASSUME DurableInv, UNCHANGED <<rec, asst, results, ran, mem>>,
         NEW c \in DOMAIN child, NEW s \in ChildStatus, child' = [child EXCEPT ![c] = s]
  PROVE  DurableInv' /\ DOMAIN child' = DOMAIN child
<1>1. DurableType' /\ DOMAIN child' = DOMAIN child
  BY DEF DurableInv, DurableType
<1>2. \A b : GoodBatch(b) => GoodBatch(b)'
  BY <1>1 DEF GoodBatch, n
<1>3. RecordInv'
  BY <1>2 DEF DurableInv, RecordInv
<1>4. CallsInv'
  BY <1>1 DEF DurableInv, CallsInv, Touched, Answered, OnRecord, ResultOnce, n
<1> QED BY <1>1, <1>3, <1>4 DEF DurableInv

-----------------------------------------------------------------------------
(* The records the turn hands to the journal. *)

LEMMA RecordFields ==
  ASSUME NEW r \in Record
  PROVE  /\ r = [rev |-> r.rev, phase |-> r.phase, iter |-> r.iter, reason |-> r.reason,
                 batch |-> r.batch]
         /\ r.rev \in Nat /\ r.phase \in Phase /\ r.iter \in Nat /\ r.reason \in BOOLEAN
         /\ r.batch \in Batch \cup {None}
BY DEF Record

LEMMA BatchFields ==
  ASSUME NEW b \in Batch
  PROVE  /\ b = [assistant |-> b.assistant, calls |-> b.calls]
         /\ b.assistant \in Nat /\ b.calls \in Seq(CallRecord) /\ Len(b.calls) \in Nat
         /\ DOMAIN b.calls = 1..Len(b.calls)
         /\ \A k \in DOMAIN b.calls : b.calls[k] \in CallRecord
<1>1. b = [assistant |-> b.assistant, calls |-> b.calls] /\ b.assistant \in Nat
      /\ b.calls \in Seq(CallRecord)
  BY DEF Batch
<1> QED BY <1>1

LEMMA CallFields ==
  ASSUME NEW x \in CallRecord
  PROVE  /\ x = [id |-> x.id, outcome |-> x.outcome, external |-> x.external, result |-> x.result]
         /\ x.id \in CallRef /\ x.outcome \in ToolOutcome /\ x.external \in CallRef \cup {None}
         /\ x.result \in Answer \cup {None}
BY DEF CallRecord

LEMMA MarkedBatch ==
  ASSUME NEW b \in Batch \cup {None}, GoodBatch(b)
  PROVE  markUncertain(b) \in Batch \cup {None} /\ GoodBatch(markUncertain(b))
<1>1. CASE b = None
  BY <1>1 DEF markUncertain
<1>2. CASE b # None
  <2> DEFINE f(k) == IF b.calls[k].outcome = "requested"
                     THEN [b.calls[k] EXCEPT !.outcome = "uncertain"] ELSE b.calls[k]
             s == [k \in DOMAIN b.calls |-> f(k)]
  <2>1. markUncertain(b) = [b EXCEPT !.calls = s]
    BY <1>2 DEF markUncertain
  <2>2. \A k \in DOMAIN b.calls : f(k) \in CallRecord /\ f(k).id = b.calls[k].id
          /\ f(k).external = b.calls[k].external /\ f(k).result = b.calls[k].result
          /\ (f(k).outcome \in {"confirmed", "admitted"} => f(k).outcome = b.calls[k].outcome)
    <3> SUFFICES ASSUME NEW k \in DOMAIN b.calls
                 PROVE  /\ f(k) \in CallRecord /\ f(k).id = b.calls[k].id
                        /\ f(k).external = b.calls[k].external /\ f(k).result = b.calls[k].result
                        /\ (f(k).outcome \in {"confirmed", "admitted"}
                              => f(k).outcome = b.calls[k].outcome)
      OBVIOUS
    <3> DEFINE x == b.calls[k]
    <3>1. x \in CallRecord
      BY <1>2, BatchFields
    <3>2. [x EXCEPT !.outcome = "uncertain"] =
            [id |-> x.id, outcome |-> "uncertain", external |-> x.external, result |-> x.result]
      BY <3>1, CallFields
    <3>3. f(k) = x \/ f(k) = [x EXCEPT !.outcome = "uncertain"]
      OBVIOUS
    <3> HIDE DEF f, x
    <3>4. /\ f(k) \in CallRecord /\ f(k).id = x.id /\ f(k).external = x.external
          /\ f(k).result = x.result
          /\ (f(k).outcome \in {"confirmed", "admitted"} => f(k).outcome = x.outcome)
      BY <3>1, <3>2, <3>3, CallFields DEF CallRecord, ToolOutcome
    <3> QED BY <3>4 DEF x
  <2> HIDE DEF f
  <2>3. b \in Batch /\ DOMAIN b.calls = 1..Len(b.calls) /\ Len(b.calls) \in Nat
    BY <1>2, BatchFields
  <2>4. s \in Seq(CallRecord) /\ DOMAIN s = DOMAIN b.calls
    BY <2>2, <2>3
  <2>5. markUncertain(b) = [assistant |-> b.assistant, calls |-> s] /\ b.assistant \in Nat
    BY <2>1, <2>3, BatchFields
  <2>6. markUncertain(b) \in Batch
    BY <2>4, <2>5 DEF Batch
  <2>7. GoodBatch(markUncertain(b))
    BY <1>2, <2>2, <2>4, <2>5 DEF GoodBatch
  <2> QED BY <2>6, <2>7
<1> QED BY <1>1, <1>2

LEMMA InterruptedRecord ==
  ASSUME NEW r \in Record, GoodBatch(r.batch), NEW p \in Phase
  PROVE  Interrupted(r, p) \in Record /\ GoodBatch(Interrupted(r, p).batch)
         /\ Interrupted(r, p).phase = p /\ Interrupted(r, p).iter = r.iter
<1> DEFINE m == markUncertain(r.batch)
<1>1. m \in Batch \cup {None} /\ GoodBatch(m)
  BY RecordFields, MarkedBatch
<1>2. Interrupted(r, p) = [r EXCEPT !.phase = p, !.reason = TRUE, !.batch = m]
  BY DEF Interrupted
<1> HIDE DEF m
<1>3. Interrupted(r, p) =
        [rev |-> r.rev, phase |-> p, iter |-> r.iter, reason |-> TRUE, batch |-> m]
  <2>1. r = [rev |-> r.rev, phase |-> r.phase, iter |-> r.iter, reason |-> r.reason,
             batch |-> r.batch]
    BY RecordFields
  <2> QED BY <1>2, <2>1
<1> QED BY <1>1, <1>3, RecordFields DEF Record

LEMMA FinishedRecord ==
  ASSUME mem \in Record, GoodBatch(mem.batch)
  PROVE  Finished \in Record /\ GoodBatch(Finished.batch)
         /\ Finished.phase \in PendingPhase \cup {"interrupted"} /\ Finished.iter = mem.iter
         /\ (err = "none" => Finished.phase = "completing")
         /\ (err # "none" => Finished.phase # "completing")
<1>1. {"completing", "failing", "interrupting", "interrupted"} \subseteq Phase
  BY DEF Phase, PendingPhase, TerminalPhase
<1>2. CASE err = "none"
  <2>1. Finished = [mem EXCEPT !.phase = "completing", !.reason = FALSE]
    BY <1>2 DEF Finished
  <2>2. mem = [rev |-> mem.rev, phase |-> mem.phase, iter |-> mem.iter, reason |-> mem.reason,
               batch |-> mem.batch]
    BY RecordFields
  <2>3. Finished = [rev |-> mem.rev, phase |-> "completing", iter |-> mem.iter, reason |-> FALSE,
                    batch |-> mem.batch]
    BY <2>1, <2>2
  <2> QED BY <1>1, <1>2, <2>3, RecordFields DEF Record, PendingPhase
<1>3. CASE err # "none" /\ ~ Interrupts
  <2>1. Finished = [mem EXCEPT !.phase = "failing", !.reason = TRUE]
    BY <1>3 DEF Finished, Interrupts
  <2>2. mem = [rev |-> mem.rev, phase |-> mem.phase, iter |-> mem.iter, reason |-> mem.reason,
               batch |-> mem.batch]
    BY RecordFields
  <2>3. Finished = [rev |-> mem.rev, phase |-> "failing", iter |-> mem.iter, reason |-> TRUE,
                    batch |-> mem.batch]
    BY <2>1, <2>2
  <2> QED BY <1>1, <1>3, <2>3, RecordFields DEF Record, PendingPhase
<1>4. CASE err # "none" /\ Interrupts
  <2>1. Finished \in {Interrupted(mem, "interrupted"), Interrupted(mem, "interrupting")}
    BY <1>4 DEF Finished
  <2> QED BY <1>1, <1>4, <2>1, InterruptedRecord, SMTT(40) DEF PendingPhase
<1> QED BY <1>2, <1>3, <1>4

\* toolsPending: the calls about to run, none of them answered.
LEMMA RequestedBatch ==
  ASSUME n \in Nat, NEW s \in Seq(CallRecord),
         \A k \in DOMAIN s : s[k].outcome = "requested" /\ s[k].id[1] = n
  PROVE  [assistant |-> n, calls |-> s] \in Batch /\ GoodBatch([assistant |-> n, calls |-> s])
BY DEF Batch, GoodBatch

LEMMA CheckpointedCalls ==
  ASSUME DurableType, AtCall, cur \in Nat
  PROVE  /\ Checkpointed \in Seq(CallRecord)
         /\ \A k \in DOMAIN Checkpointed :
              Checkpointed[k].outcome = "requested" /\ Checkpointed[k].id[1] = n
         /\ ~ ParallelSafe => Len(Checkpointed) = 1 /\ Checkpointed[1].id = Call(cur)
         /\ ParallelSafe => \A i \in DOMAIN Calls : i \in DOMAIN Checkpointed
                                                    /\ Checkpointed[i].id = Call(i)
<1>1. n \in Nat /\ Calls \in Seq(Kind) /\ DOMAIN Calls = 1..Len(Calls) /\ Len(Calls) \in Nat
  <2>1. asst \in Seq(Response) /\ n \in Nat /\ n \in DOMAIN asst
    BY DEF DurableType, AtCall, n
  <2>2. Calls \in Response
    BY <2>1 DEF Calls
  <2> QED BY <2>1, <2>2, RecoveryAssumption
<1>2. ASSUME NEW i \in Nat
      PROVE  Requested(i) \in CallRecord /\ Requested(i).outcome = "requested"
             /\ Requested(i).id = Call(i) /\ Call(i)[1] = n
  BY <1>1 DEF Requested, Call, CallRecord, CallRef, ToolOutcome
<1>3. CASE ParallelSafe
  <2>1. Checkpointed = [i \in DOMAIN Calls |-> Requested(i)]
    BY <1>3 DEF Checkpointed
  <2> QED BY <1>1, <1>2, <1>3, <2>1
<1>4. CASE ~ ParallelSafe
  <2>1. Checkpointed = <<Requested(cur)>>
    BY <1>4 DEF Checkpointed
  <2> QED BY <1>2, <1>4, <2>1
<1> QED BY <1>3, <1>4

\* A batch of which the call at k becomes x.
LEMMA OtherCall ==
  ASSUME NEW b \in Batch, GoodBatch(b), NEW k \in DOMAIN b.calls, NEW x \in CallRecord,
         x.id = b.calls[k].id,
         x.outcome = "confirmed" =>
           x.result.call = x.id /\ \E j \in DOMAIN results : results[j] = x.result,
         x.outcome = "admitted" => x.external = x.id /\ x.id \in DOMAIN child,
         NEW c, c = [assistant |-> b.assistant, calls |-> [b.calls EXCEPT ![k] = x]]
  PROVE  /\ c \in Batch /\ GoodBatch(c) /\ DOMAIN c.calls = DOMAIN b.calls
         /\ \A i \in DOMAIN b.calls : c.calls[i].id = b.calls[i].id
<1> DEFINE s == [b.calls EXCEPT ![k] = x]
<1>0. /\ b.calls \in Seq(CallRecord) /\ b.assistant \in Nat /\ Len(b.calls) \in Nat
      /\ DOMAIN b.calls = 1..Len(b.calls) /\ \A i \in DOMAIN b.calls : b.calls[i] \in CallRecord
  BY BatchFields
<1>1. /\ s \in Seq(CallRecord) /\ DOMAIN s = DOMAIN b.calls
      /\ \A i \in DOMAIN b.calls : s[i] = IF i = k THEN x ELSE b.calls[i]
  BY <1>0
<1> HIDE DEF s
<1>2. c = [assistant |-> b.assistant, calls |-> s] /\ c.calls = s
  BY DEF s
<1>3. c \in Batch
  BY <1>0, <1>1, <1>2 DEF Batch
<1>4. b # None
  OBVIOUS
<1>5. ASSUME NEW i \in DOMAIN s
      PROVE  /\ s[i].id[1] <= n /\ s[i].id[1] = b.assistant
             /\ s[i].outcome = "confirmed" =>
                  /\ s[i].result.call = s[i].id
                  /\ \E j \in DOMAIN results : results[j] = s[i].result
             /\ s[i].outcome = "admitted" => s[i].external = s[i].id /\ s[i].id \in DOMAIN child
  <2>1. CASE i = k
    BY <1>1, <1>4, <2>1 DEF GoodBatch
  <2>2. CASE i # k
    BY <1>1, <1>4, <2>2 DEF GoodBatch
  <2> QED BY <2>1, <2>2
<1>6. GoodBatch(c)
  BY <1>2, <1>5 DEF GoodBatch
<1> QED BY <1>1, <1>2, <1>3, <1>6

\* The record a writer hands in: another phase and another batch, with its
\* iteration or another one.
NextRecord(p, i, d) == [mem EXCEPT !.phase = p, !.iter = i, !.batch = d]
SameIteration(p, d) == [mem EXCEPT !.phase = p, !.batch = d]
SameBatch(p, i) == [mem EXCEPT !.phase = p, !.iter = i]
OtherIteration(i) == [mem EXCEPT !.iter = i]

LEMMA RecordUpdate ==
  ASSUME mem \in Record, NEW p \in Phase, NEW d \in Batch \cup {None}, NEW i \in Nat
  PROVE  /\ NextRecord(p, i, d) \in Record /\ NextRecord(p, i, d).phase = p
         /\ NextRecord(p, i, d).batch = d /\ NextRecord(p, i, d).iter = i
         /\ SameIteration(p, d) \in Record /\ SameIteration(p, d).phase = p
         /\ SameIteration(p, d).batch = d /\ SameIteration(p, d).iter = mem.iter
         /\ SameBatch(p, i) \in Record /\ SameBatch(p, i).phase = p
         /\ SameBatch(p, i).batch = mem.batch /\ SameBatch(p, i).iter = i
         /\ OtherIteration(i) \in Record /\ OtherIteration(i).phase = mem.phase
         /\ OtherIteration(i).batch = mem.batch /\ OtherIteration(i).iter = i
<1>1. mem = [rev |-> mem.rev, phase |-> mem.phase, iter |-> mem.iter, reason |-> mem.reason,
             batch |-> mem.batch]
  BY RecordFields
<1>2. mem.rev \in Nat /\ mem.phase \in Phase /\ mem.iter \in Nat /\ mem.reason \in BOOLEAN
      /\ mem.batch \in Batch \cup {None}
  BY RecordFields
<1>3. PICK rv, ph, it, re, bt :
        /\ mem = [rev |-> rv, phase |-> ph, iter |-> it, reason |-> re, batch |-> bt]
        /\ rv \in Nat /\ ph \in Phase /\ it \in Nat /\ re \in BOOLEAN /\ bt \in Batch \cup {None}
  BY <1>1, <1>2
<1>4. /\ NextRecord(p, i, d) = [rev |-> rv, phase |-> p, iter |-> i, reason |-> re, batch |-> d]
      /\ SameIteration(p, d) = [rev |-> rv, phase |-> p, iter |-> it, reason |-> re, batch |-> d]
      /\ SameBatch(p, i) = [rev |-> rv, phase |-> p, iter |-> i, reason |-> re, batch |-> bt]
      /\ OtherIteration(i) = [rev |-> rv, phase |-> ph, iter |-> i, reason |-> re, batch |-> bt]
  <2> PICK r, s, t, u : r = NextRecord(p, i, d) /\ s = SameIteration(p, d)
                        /\ t = SameBatch(p, i) /\ u = OtherIteration(i)
    OBVIOUS
  <2>1. r = [mem EXCEPT !.phase = p, !.iter = i, !.batch = d]
    BY DEF NextRecord
  <2>2. r = [rev |-> rv, phase |-> p, iter |-> i, reason |-> re, batch |-> d]
    BY <1>3, <2>1
  <2>3. s = [mem EXCEPT !.phase = p, !.batch = d]
    BY DEF SameIteration
  <2>4. s = [rev |-> rv, phase |-> p, iter |-> it, reason |-> re, batch |-> d]
    BY <1>3, <2>3
  <2>5. t = [mem EXCEPT !.phase = p, !.iter = i]
    BY DEF SameBatch
  <2>6. t = [rev |-> rv, phase |-> p, iter |-> i, reason |-> re, batch |-> bt]
    BY <1>3, <2>5
  <2>7. u = [mem EXCEPT !.iter = i]
    BY DEF OtherIteration
  <2>8. u = [rev |-> rv, phase |-> ph, iter |-> i, reason |-> re, batch |-> bt]
    BY <1>3, <2>7
  <2> QED BY <2>2, <2>4, <2>6, <2>8
<1> QED BY <1>3, <1>4 DEF Record

LEMMA ConfirmedPhase ==
  ASSUME NEW k
  PROVE  PhaseConfirmed(k) \in WorkPhase
BY DEF PhaseConfirmed, WorkPhase

(***************************************************************************)
(* toolConfirmed: the call has its result, which is in the transcript.     *)
(***************************************************************************)
LEMMA ConfirmedRecord ==
  ASSUME mem \in Record, mem.batch # None, GoodBatch(mem.batch), iter \in Nat,
         NEW c \in CallRef, NEW v \in Value,
         \E k \in DOMAIN mem.batch.calls : mem.batch.calls[k].id = c,
         \E j \in DOMAIN results : results[j] = [call |-> c, value |-> v]
  PROVE  /\ Confirmed(c, v) \in Record /\ GoodBatch(Confirmed(c, v).batch)
         /\ Confirmed(c, v).batch # None
         /\ Confirmed(c, v).phase \in WorkPhase /\ Confirmed(c, v).iter = iter
         /\ Confirmed(c, v).batch.assistant = mem.batch.assistant
         /\ DOMAIN Confirmed(c, v).batch.calls = DOMAIN mem.batch.calls
         /\ \A i \in DOMAIN mem.batch.calls :
              Confirmed(c, v).batch.calls[i].id = mem.batch.calls[i].id
<1> DEFINE b == mem.batch
           k == CHOOSE k \in DOMAIN mem.batch.calls : mem.batch.calls[k].id = c
           a == [call |-> c, value |-> v]
           x == [id |-> c, outcome |-> "confirmed", external |-> b.calls[k].external, result |-> a]
           d == WithCall(k, x)
           p == PhaseConfirmed(k)
<1>1. k \in DOMAIN b.calls /\ b.calls[k].id = c
  OBVIOUS
<1>2. Confirmed(c, v) = [mem EXCEPT !.phase = p, !.iter = iter, !.batch = d]
  BY DEF Confirmed
<1>3. a \in Answer /\ a.call = c /\ \E j \in DOMAIN results : results[j] = a
  BY DEF Answer
<1>4. d = [assistant |-> b.assistant, calls |-> [b.calls EXCEPT ![k] = x]]
  BY DEF WithCall
<1>5. p \in WorkPhase
  BY ConfirmedPhase
<1> HIDE DEF k, a, d, p
<1>6. b \in Batch
  BY RecordFields
<1>7. b.calls[k] \in CallRecord
  BY <1>1, <1>6, BatchFields
<1>8. x \in CallRecord
  BY <1>3, <1>7, CallFields DEF CallRecord, ToolOutcome
<1>9. /\ x.id = c /\ x.outcome = "confirmed" /\ x.result = a
  OBVIOUS
<1> HIDE DEF x
<1>11. d \in Batch /\ GoodBatch(d) /\ DOMAIN d.calls = DOMAIN b.calls
       /\ \A i \in DOMAIN b.calls : d.calls[i].id = b.calls[i].id
  <2>1. x.outcome = "confirmed" =>
           x.result.call = x.id /\ \E j \in DOMAIN results : results[j] = x.result
    BY <1>3, <1>9
  <2>2. x.outcome = "admitted" => x.external = x.id /\ x.id \in DOMAIN child
    BY <1>9
  <2> QED BY <1>1, <1>4, <1>6, <1>8, <1>9, <2>1, <2>2, OtherCall
<1>12. Confirmed(c, v) \in Record /\ Confirmed(c, v).phase = p /\ Confirmed(c, v).batch = d
       /\ Confirmed(c, v).iter = iter
  <2>1. Confirmed(c, v) = NextRecord(p, iter, d)
    BY <1>2 DEF NextRecord
  <2>2. p \in Phase /\ d \in Batch \cup {None}
    BY <1>5, <1>11 DEF Phase
  <2> QED BY <2>1, <2>2, RecordUpdate
<1> QED BY <1>4, <1>5, <1>11, <1>12

\* externalAdmitted: the child's task is on the call's record.
LEMMA AdmittedRecord ==
  ASSUME mem \in Record, mem.batch # None, GoodBatch(mem.batch), Len(mem.batch.calls) = 1,
         NEW c \in CallRef, mem.batch.calls[1].id = c, c \in DOMAIN child,
         NEW x, x = [id |-> c, outcome |-> "admitted", external |-> c, result |-> None],
         NEW r, r = SameIteration("waiting_external_child", WithCall(1, x))
  PROVE  /\ r \in Record /\ GoodBatch(r.batch) /\ r.batch # None
         /\ Len(r.batch.calls) = 1 /\ r.batch.calls[1].id = c
         /\ r.phase = "waiting_external_child" /\ r.iter = mem.iter
         /\ r.batch.assistant = mem.batch.assistant
<1> DEFINE b == mem.batch
           d == WithCall(1, x)
<1>1. b \in Batch
  BY RecordFields
<1>2. d = [assistant |-> b.assistant, calls |-> [b.calls EXCEPT ![1] = x]]
  BY DEF WithCall
<1>3. x \in CallRecord /\ x.id = c /\ x.outcome = "admitted" /\ x.external = c
  BY DEF CallRecord, ToolOutcome
<1> HIDE DEF d
<1>5. 1 \in DOMAIN b.calls
  BY <1>1, BatchFields
<1>6. d \in Batch /\ GoodBatch(d) /\ DOMAIN d.calls = DOMAIN b.calls
       /\ \A i \in DOMAIN b.calls : d.calls[i].id = b.calls[i].id
  BY <1>1, <1>2, <1>3, <1>5, OtherCall
<1>7. Len(d.calls) = 1
  BY <1>1, <1>6, BatchFields
<1>8. r \in Record /\ r.batch = d /\ r.phase = "waiting_external_child" /\ r.iter = mem.iter
  <2>1. r = SameIteration("waiting_external_child", d)
    BY DEF d
  <2>2. "waiting_external_child" \in Phase /\ mem.iter \in Nat
    BY RecordFields DEF Phase, WorkPhase
  <2> QED BY <1>6, <2>1, <2>2, RecordUpdate
<1> QED BY <1>2, <1>5, <1>6, <1>7, <1>8

-----------------------------------------------------------------------------
(* The journal's answers, and the places the process may be in. *)

LEMMA Updated ==
  ASSUME DurableInv, UNCHANGED <<asst, results, child, ran>>,
         NEW r \in Record, GoodBatch(r.batch), Written(r)
  PROVE  /\ DurableInv' /\ rec' # None /\ mem' = rec' /\ rec'.batch = r.batch
         /\ rec'.phase = r.phase /\ UNCHANGED faults
<1>1. Accepted(r) /\ rec' = Stamped(r) /\ mem' = Stamped(r) /\ UNCHANGED faults
  BY DEF Written
<1> QED BY <1>1, JournalWritten, StampedFields

LEMMA Faulty ==
  ASSUME faults.count \in Nat, NEW lost, Failing(lost)
  PROVE  faults'.count \in Nat
BY DEF Failing

LEMMA NotUpdated ==
  ASSUME DurableInv, UNCHANGED <<asst, results, child, ran>>, faults.count \in Nat,
         NEW r, rec # None => r \in Record /\ GoodBatch(r.batch), NEW b, NotWritten(r, b)
  PROVE  /\ DurableInv' /\ mem' = mem /\ faults'.count \in Nat
         /\ (rec # None => rec' # None)
<1>1. CASE rec' = rec
  <2>1. mem' = mem /\ faults'.count \in Nat
    BY Faulty DEF NotWritten, Fault
  <2> QED BY <1>1, <2>1, JournalKept
<1>2. CASE LostReplies /\ Failing(TRUE) /\ Accepted(r) /\ rec' = Stamped(r)
  <2>1. mem' = mem /\ faults'.count \in Nat /\ rec # None
    BY <1>2, Faulty DEF NotWritten, Accepted
  <2> QED BY <1>2, <2>1, JournalWritten
<1> QED BY <1>1, <1>2 DEF NotWritten

\* A checkpoint of the loop is written, or its step fails.
LEMMA CheckpointStep ==
  ASSUME DurableInv, UNCHANGED <<asst, results, child, ran>>, faults.count \in Nat,
         NEW r \in Record, GoodBatch(r.batch), NEW p, NEW e, NEW q, Checkpoint(r, p, e, q)
  PROVE  /\ DurableInv' /\ faults'.count \in Nat
         /\ \/ pc' = p /\ mem' = rec' /\ rec' # None /\ rec'.batch = r.batch /\ rec'.phase = r.phase
            \/ pc' = q /\ mem' = mem
<1>1. CASE Written(r) /\ Goto(p)
  BY <1>1, Updated DEF Goto
<1>2. CASE NotWritten(r, TRUE) /\ Fail(e, q)
  BY <1>2, NotUpdated DEF Fail, Goto
<1> QED BY <1>1, <1>2 DEF Checkpoint

\* Outside the loop little is asked of the place.
LEMMA FarPlace ==
  ASSUME ControlType', pc' \notin LoopPC,
         pc' \in {"return", "finish"} => mem' # None, pc' = "decide" => rec' # None
  PROVE  PlaceInv'
BY DEF PlaceInv, HeldInv, LivePlace, RecoveredPlace, LoopPC, AppendPC

\* Nor of the places of the loop where no call is at hand.
LEMMA BetweenCalls ==
  ASSUME ControlType', pc' \in {"input", "provider", "model", "finalize"},
         mem' = rec', mem' # None
  PROVE  PlaceInv'
BY DEF PlaceInv, HeldInv, LivePlace, RecoveredPlace, LoopPC, AppendPC

\* The environment does not move the process.
LEMMA SamePlace ==
  ASSUME PlaceInv, UNCHANGED <<rec, asst, results, iter, cur, value, left, pc, mem>>,
         DOMAIN child' = DOMAIN child, ctxDone' \in BOOLEAN, faults'.count \in Nat
  PROVE  PlaceInv'
<1>1. \A c : (OnRecord(c)' <=> OnRecord(c)) /\ (Answered(c)' <=> Answered(c))
  BY DEF OnRecord, Answered
<1>2. n' = n /\ Calls' = Calls /\ ParallelSafe' = ParallelSafe
  BY DEF n, Calls, ParallelSafe
<1>3. ControlType'
  BY DEF PlaceInv, ControlType
<1>4. HeldInv'
  BY DEF PlaceInv, HeldInv
<1>5. RecoveredPlace'
  BY DEF PlaceInv, RecoveredPlace, RecoveredCall
<1>6. LivePlace'
  <2>1. \A i : Call(i)' = Call(i)
    BY <1>2 DEF Call
  <2>2. \A i : Unanswered(i)' <=> Unanswered(i)
    BY <1>1, <1>2 DEF Unanswered, Answered
  <2>3. AtCall' = AtCall
    BY <1>2 DEF AtCall
  <2> QED BY <1>1, <1>2, <2>1, <2>2, <2>3 DEF PlaceInv, LivePlace, Call
<1> QED BY <1>3, <1>4, <1>5, <1>6 DEF PlaceInv

-----------------------------------------------------------------------------
(* Every step keeps the invariant. *)

LEMMA InitHolds == Init => RecoveryInv
<1> SUFFICES ASSUME Init PROVE RecoveryInv
  OBVIOUS
<1> USE DEF Init
<1>1. DurableType
  BY DEF DurableType, ChildStatus
<1>2. RecordInv /\ CallsInv
  BY DEF RecordInv, CallsInv, Touched, Answered, ResultOnce
<1>3. PlaceInv
  BY DEF PlaceInv, ControlType, HeldInv, LivePlace, RecoveredPlace, LoopPC, AppendPC, LivePC, Value
<1> QED BY <1>1, <1>2, <1>3 DEF RecoveryInv, DurableInv

LEMMA ClaimTaskKeeps == RecoveryInv /\ ClaimTask => RecoveryInv'
<1> SUFFICES ASSUME RecoveryInv, ClaimTask PROVE RecoveryInv'
  OBVIOUS
<1>1. UNCHANGED <<rec, asst, results, child, ran, mem, iter, cur, value, left, ctxDone>>
      /\ pc' \in {"create", "idle"}
  BY DEF ClaimTask, loop, Goto
<1>2. faults'.count \in Nat
  BY Faulty DEF ClaimTask, HostMoved, HostNotMoved, Fault, RecoveryInv, PlaceInv, ControlType
<1>3. DurableInv'
  BY <1>1, JournalKept DEF RecoveryInv
<1>4. ControlType' /\ pc' \notin LoopPC \cup {"return", "finish", "decide"}
  BY <1>1, <1>2 DEF RecoveryInv, PlaceInv, ControlType, LivePC, LoopPC, AppendPC
<1> QED BY <1>3, <1>4, FarPlace DEF RecoveryInv

\* Create, when the task has no record yet.
LEMMA RecordCreated ==
  ASSUME DurableInv, UNCHANGED <<asst, results, child, ran>>, rec = None, rec' = PreparedRecord,
         mem' \in {mem, PreparedRecord}
  PROVE  DurableInv' /\ rec' # None
<1>1. PreparedRecord \in Record /\ PreparedRecord.batch = None
  BY DEF PreparedRecord, Record, Phase, WorkPhase
<1>2. Validate(PreparedRecord)
  BY DEF PreparedRecord, Validate, validateTerminal, validateToolBatchForPhase
<1>3. DurableType'
  BY <1>1 DEF DurableInv, DurableType
<1>4. \A b : GoodBatch(b) => GoodBatch(b)'
  BY DEF GoodBatch, n
<1>5. GoodBatch(None)
  BY DEF GoodBatch
<1>6. RecordInv'
  BY <1>1, <1>2, <1>4, <1>5 DEF DurableInv, RecordInv
<1>7. CallsInv'
  BY DEF DurableInv, CallsInv, Touched, Answered, OnRecord, ResultOnce, n
<1> QED BY <1>1, <1>3, <1>6, <1>7 DEF DurableInv

LEMMA BeginExecutionKeeps == RecoveryInv /\ BeginExecution => RecoveryInv'
<1> SUFFICES ASSUME RecoveryInv, BeginExecution PROVE RecoveryInv'
  OBVIOUS
<1>1. UNCHANGED <<asst, results, child, ran, iter, cur, value, left, ctxDone>>
      /\ pc' \in {"input", "settle"}
  BY DEF BeginExecution, loop, Goto, Fail
<1>2. faults'.count \in Nat
  BY Faulty DEF BeginExecution, Fault, RecoveryInv, PlaceInv, ControlType
<1>3. ControlType'
  BY <1>1, <1>2 DEF RecoveryInv, PlaceInv, ControlType, LivePC
<1>4. \/ rec' = rec /\ mem' = mem /\ pc' = "settle"
      \/ rec = None /\ rec' = PreparedRecord /\ mem' = PreparedRecord /\ pc' = "input"
      \/ rec = None /\ rec' = PreparedRecord /\ mem' = mem /\ pc' = "settle"
  BY DEF BeginExecution, Goto, Fail
<1>5. DurableInv'
  BY <1>1, <1>4, JournalKept, RecordCreated DEF RecoveryInv
<1>6. CASE pc' = "settle"
  BY <1>3, <1>5, <1>6, FarPlace DEF RecoveryInv, LoopPC, AppendPC
<1>7. CASE pc' = "input"
  BY <1>1, <1>3, <1>4, <1>5, <1>7, BetweenCalls, RecordCreated DEF RecoveryInv
<1> QED BY <1>1, <1>6, <1>7

LEMMA AppendInputKeeps == RecoveryInv /\ AppendInput => RecoveryInv'
<1> SUFFICES ASSUME RecoveryInv, AppendInput PROVE RecoveryInv'
  OBVIOUS
<1>1. UNCHANGED <<rec, asst, results, child, ran, iter, cur, value, left, ctxDone, mem>>
      /\ pc = "input" /\ pc' \in {"provider", "finish"}
  BY DEF AppendInput, durable, loop, Goto, Fail
<1>2. faults'.count \in Nat
  BY Faulty DEF AppendInput, Fault, RecoveryInv, PlaceInv, ControlType
<1>3. ControlType'
  BY <1>1, <1>2 DEF RecoveryInv, PlaceInv, ControlType, LivePC
<1>4. DurableInv'
  BY <1>1, JournalKept DEF RecoveryInv
<1>5. mem = rec /\ mem # None
  BY <1>1 DEF RecoveryInv, PlaceInv, HeldInv, LoopPC
<1>6. CASE pc' = "finish"
  BY <1>1, <1>3, <1>4, <1>5, <1>6, FarPlace DEF RecoveryInv, LoopPC, AppendPC
<1>7. CASE pc' = "provider"
  BY <1>1, <1>3, <1>4, <1>5, <1>7, BetweenCalls DEF RecoveryInv
<1> QED BY <1>1, <1>6, <1>7

LEMMA ProviderPendingKeeps == RecoveryInv /\ ProviderPending => RecoveryInv'
<1> SUFFICES ASSUME RecoveryInv, ProviderPending PROVE RecoveryInv'
  OBVIOUS
<1> PICK r : r = SameBatch("provider_pending", iter)
  OBVIOUS
<1>1. UNCHANGED <<asst, results, child, ran, iter, cur, value, left, ctxDone>>
      /\ pc = "provider" /\ Checkpoint(r, "model", "error", "return")
  BY DEF ProviderPending, loop, SameBatch
<1>2. mem = rec /\ mem \in Record /\ mem # None /\ GoodBatch(mem.batch) /\ iter \in Nat
      /\ faults.count \in Nat
  BY <1>1 DEF RecoveryInv, PlaceInv, HeldInv, ControlType, LoopPC, DurableInv, DurableType, RecordInv
<1>3. r \in Record /\ r.batch = mem.batch
  BY <1>2, RecordUpdate DEF Phase, WorkPhase
<1>4. /\ DurableInv' /\ faults'.count \in Nat
      /\ \/ pc' = "model" /\ mem' = rec' /\ rec' # None
         \/ pc' = "return" /\ mem' = mem
  BY <1>1, <1>2, <1>3, CheckpointStep DEF RecoveryInv
<1>5. ControlType'
  BY <1>1, <1>4 DEF RecoveryInv, PlaceInv, ControlType, LivePC
<1>6. CASE pc' = "model" /\ mem' = rec' /\ rec' # None
  BY <1>4, <1>5, <1>6, BetweenCalls DEF RecoveryInv
<1>7. CASE pc' = "return" /\ mem' = mem
  BY <1>2, <1>4, <1>5, <1>7, FarPlace DEF RecoveryInv, LoopPC, AppendPC
<1> QED BY <1>4, <1>6, <1>7

\* The message at hand and its calls.
LEMMA CallsAtHand ==
  ASSUME DurableType, n > 0
  PROVE  /\ n \in Nat /\ Calls \in Seq(Kind) /\ Len(Calls) \in Nat
         /\ DOMAIN Calls = 1..Len(Calls)
         /\ \A i \in Nat : Call(i) \in CallRef /\ Call(i)[1] <= n
<1>1. asst \in Seq(Response) /\ n \in Nat /\ n \in DOMAIN asst
  BY DEF DurableType, n
<1>2. Calls \in Response
  BY <1>1 DEF Calls
<1> QED BY <1>1, <1>2, RecoveryAssumption DEF Call, CallRef

LEMMA CallModelKeeps == RecoveryInv /\ CallModel => RecoveryInv'
<1> SUFFICES ASSUME RecoveryInv, CallModel PROVE RecoveryInv'
  OBVIOUS
<1>1. UNCHANGED <<rec, results, child, ran, iter, cur, value, left, ctxDone, mem>> /\ pc = "model"
  BY DEF CallModel, loop
<1>2. mem = rec /\ mem # None
  BY <1>1 DEF RecoveryInv, PlaceInv, HeldInv, LoopPC
<1>3. faults'.count \in Nat
  BY Faulty DEF CallModel, Fault, RecoveryInv, PlaceInv, ControlType
<1>4. \/ (\E m \in Response : asst' = Append(asst, m)) /\ pc' \in {"persisted", "return"}
      \/ asst' = asst /\ pc' = "return"
  BY DEF CallModel, Goto, Fail
<1>5. ControlType'
  BY <1>1, <1>3, <1>4 DEF RecoveryInv, PlaceInv, ControlType, LivePC
<1>6. CASE asst' = asst /\ pc' = "return"
  <2>1. DurableInv'
    BY <1>1, <1>6, JournalKept DEF RecoveryInv
  <2> QED BY <1>1, <1>2, <1>5, <1>6, <2>1, FarPlace DEF RecoveryInv, LoopPC, AppendPC
<1>7. CASE (\E m \in Response : asst' = Append(asst, m)) /\ pc' \in {"persisted", "return"}
  <2>1. /\ DurableInv' /\ n' = n + 1 /\ n \in Nat /\ (\A i : ~ Answered(<<n, i>>))'
    BY <1>1, <1>7, MessageAdded DEF RecoveryInv
  <2>2. CASE pc' = "return"
    BY <1>1, <1>2, <1>5, <2>1, <2>2, FarPlace DEF RecoveryInv, LoopPC, AppendPC
  <2>3. CASE pc' = "persisted"
    <3>1. HeldInv'
      BY <1>1, <1>2, <2>3 DEF HeldInv
    <3>2. LivePlace' /\ RecoveredPlace'
      BY <2>1, <2>3 DEF LivePlace, RecoveredPlace, AppendPC, Unanswered
    <3> QED BY <1>5, <2>1, <3>1, <3>2 DEF RecoveryInv, PlaceInv
  <2> QED BY <1>7, <2>2, <2>3
<1> QED BY <1>4, <1>6, <1>7

LEMMA AssistantPersistedKeeps == RecoveryInv /\ AssistantPersisted => RecoveryInv'
<1> SUFFICES ASSUME RecoveryInv, AssistantPersisted PROVE RecoveryInv'
  OBVIOUS
<1> PICK r : r = OtherIteration(iter)
  OBVIOUS
<1>1. UNCHANGED <<asst, results, child, ran, ctxDone>> /\ pc = "persisted"
      /\ \/ Written(r)
         \/ NotWritten(r, TRUE) /\ pc' = "return" /\ UNCHANGED <<iter, cur, value>>
  BY DEF AssistantPersisted, OtherIteration, Goto, Fail, loop
<1>2. /\ mem = rec /\ mem \in Record /\ mem # None /\ GoodBatch(mem.batch) /\ iter \in Nat
      /\ faults.count \in Nat /\ n > 0 /\ Unanswered(1)
  BY <1>1 DEF RecoveryInv, PlaceInv, HeldInv, LivePlace, ControlType, LoopPC, DurableInv,
              DurableType, RecordInv
<1>3. r \in Record /\ r.batch = mem.batch
  <2>1. mem.phase \in Phase /\ mem.batch \in Batch \cup {None}
    BY <1>2, RecordFields
  <2> QED BY <1>2, <2>1, RecordUpdate
<1>4. CASE NotWritten(r, TRUE) /\ pc' = "return" /\ UNCHANGED <<iter, cur, value>>
  <2>1. DurableInv' /\ mem' = mem /\ faults'.count \in Nat
    BY <1>1, <1>2, <1>3, <1>4, NotUpdated DEF RecoveryInv
  <2>2. ControlType'
    BY <1>1, <1>4, <2>1 DEF RecoveryInv, PlaceInv, ControlType, LivePC
  <2> QED BY <1>2, <1>4, <2>1, <2>2, FarPlace DEF RecoveryInv, LoopPC, AppendPC
<1>5. CASE Written(r)
  <2>1. DurableInv' /\ rec' # None /\ mem' = rec' /\ UNCHANGED faults
    BY <1>1, <1>2, <1>3, <1>5, Updated DEF RecoveryInv
  <2>2. \/ pc' \in {"finalize", "return"} /\ UNCHANGED <<iter, cur, value>>
        \/ pc' = "pending" /\ iter' = iter + 1 /\ cur' = 1 /\ Calls # <<>> /\ UNCHANGED value
    BY DEF AssistantPersisted, Goto, Fail, loop
  <2>3. ControlType'
    BY <1>1, <1>2, <2>1, <2>2 DEF RecoveryInv, PlaceInv, ControlType, LivePC
  <2>4. CASE pc' = "finalize"
    BY <2>1, <2>3, <2>4, BetweenCalls DEF RecoveryInv
  <2>5. CASE pc' = "return"
    BY <2>1, <2>3, <2>5, FarPlace DEF RecoveryInv, LoopPC, AppendPC
  <2>6. CASE pc' = "pending" /\ cur' = 1 /\ Calls # <<>>
    <3>1. n' = n /\ Calls' = Calls
      BY <1>1 DEF n, Calls
    <3>2. 1 \in DOMAIN Calls
      BY <1>2, <2>6, CallsAtHand DEF RecoveryInv, DurableInv
    <3>3. AtCall'
      BY <1>2, <2>6, <3>1, <3>2 DEF AtCall
    <3>4. (Unanswered(cur))'
      BY <1>1, <1>2, <2>6, <3>1 DEF Unanswered, Answered
    <3>5. HeldInv'
      BY <2>1, <2>6 DEF HeldInv
    <3>6. LivePlace' /\ RecoveredPlace'
      BY <2>6, <3>3, <3>4 DEF LivePlace, RecoveredPlace, AppendPC
    <3> QED BY <2>1, <2>3, <3>5, <3>6 DEF RecoveryInv, PlaceInv
  <2> QED BY <2>2, <2>4, <2>5, <2>6
<1> QED BY <1>1, <1>4, <1>5

LEMMA ToolsPendingKeeps == RecoveryInv /\ ToolsPending => RecoveryInv'
<1> SUFFICES ASSUME RecoveryInv, ToolsPending PROVE RecoveryInv'
  OBVIOUS
<1> DEFINE b == [assistant |-> n, calls |-> Checkpointed]
           next == IF ParallelSafe THEN "bodies" ELSE "call"
<1> PICK r, s : r = SameBatch("provider_pending", iter) /\ s = NextRecord("tool_pending", iter, b)
  OBVIOUS
<1>1. UNCHANGED <<asst, results, child, ran, iter, cur, value, ctxDone>> /\ pc = "pending"
      /\ left' = (IF ParallelSafe /\ pc' = "bodies" THEN DOMAIN Calls ELSE left)
  BY DEF ToolsPending
<1>2. \/ Checkpoint(r, "pending", "error", "return")
      \/ Checkpoint(s, next, "error", "return")
  BY DEF ToolsPending, SameBatch, NextRecord
<1>3. /\ mem = rec /\ mem \in Record /\ mem # None /\ GoodBatch(mem.batch) /\ iter \in Nat
      /\ faults.count \in Nat /\ AtCall /\ Unanswered(cur) /\ cur \in Nat /\ n > 0
  BY <1>1 DEF RecoveryInv, PlaceInv, HeldInv, LivePlace, ControlType, LoopPC, DurableInv,
              DurableType, RecordInv, AtCall
<1>4. n \in Nat /\ n' = n /\ Calls' = Calls /\ ParallelSafe' = ParallelSafe
      /\ AtCall' = AtCall /\ \A i : Call(i)' = Call(i)
  BY <1>1, <1>3, CallsAtHand DEF RecoveryInv, DurableInv, n, Calls, ParallelSafe, AtCall, Call
<1>5. (Unanswered(cur))'
  BY <1>1, <1>3, <1>4 DEF Unanswered, Answered
<1>6. CASE Checkpoint(r, "pending", "error", "return")
  <2>1. r \in Record /\ r.batch = mem.batch
    <3>1. "provider_pending" \in Phase /\ mem.batch \in Batch \cup {None}
      BY <1>3, RecordFields DEF Phase, WorkPhase
    <3> QED BY <1>3, <3>1, RecordUpdate
  <2>2. /\ DurableInv' /\ faults'.count \in Nat
        /\ \/ pc' = "pending" /\ mem' = rec' /\ rec' # None
           \/ pc' = "return" /\ mem' = mem
    BY <1>1, <1>3, <1>6, <2>1, CheckpointStep DEF RecoveryInv
  <2>3. ControlType'
    BY <1>1, <2>2 DEF RecoveryInv, PlaceInv, ControlType, LivePC
  <2>4. CASE pc' = "return" /\ mem' = mem
    BY <1>3, <2>2, <2>3, <2>4, FarPlace DEF RecoveryInv, LoopPC, AppendPC
  <2>5. CASE pc' = "pending" /\ mem' = rec' /\ rec' # None
    <3>1. HeldInv'
      BY <2>5 DEF HeldInv
    <3>2. LivePlace' /\ RecoveredPlace'
      BY <1>3, <1>4, <1>5, <2>5 DEF LivePlace, RecoveredPlace, AppendPC
    <3> QED BY <2>2, <2>3, <3>1, <3>2 DEF RecoveryInv, PlaceInv
  <2> QED BY <2>2, <2>4, <2>5
<1>7. CASE Checkpoint(s, next, "error", "return")
  <2>1. /\ Checkpointed \in Seq(CallRecord)
        /\ \A k \in DOMAIN Checkpointed :
             Checkpointed[k].outcome = "requested" /\ Checkpointed[k].id[1] = n
        /\ ~ ParallelSafe => Len(Checkpointed) = 1 /\ Checkpointed[1].id = Call(cur)
        /\ ParallelSafe => \A i \in DOMAIN Calls : i \in DOMAIN Checkpointed
                                                   /\ Checkpointed[i].id = Call(i)
    BY <1>3, CheckpointedCalls DEF RecoveryInv, DurableInv
  <2>2. b \in Batch /\ GoodBatch(b) /\ b.calls = Checkpointed
    BY <1>4, <2>1, RequestedBatch
  <2> HIDE DEF b, next
  <2>3. s \in Record /\ s.batch = b
    <3>1. "tool_pending" \in Phase
      BY DEF Phase, WorkPhase
    <3> QED BY <1>3, <2>2, <3>1, RecordUpdate
  <2>4. /\ DurableInv' /\ faults'.count \in Nat
        /\ \/ pc' = next /\ mem' = rec' /\ rec' # None /\ rec'.batch = b
           \/ pc' = "return" /\ mem' = mem
    BY <1>1, <1>3, <1>7, <2>2, <2>3, CheckpointStep DEF RecoveryInv
  <2>5. ControlType'
    BY <1>1, <2>4 DEF RecoveryInv, PlaceInv, ControlType, LivePC, next
  <2>6. CASE pc' = "return" /\ mem' = mem
    BY <1>3, <2>4, <2>5, <2>6, FarPlace DEF RecoveryInv, LoopPC, AppendPC
  <2>7. CASE pc' = next /\ mem' = rec' /\ rec' # None /\ rec'.batch = b
    <3>1. HeldInv'
      BY <2>7 DEF HeldInv, next
    <3>2. b # None
      BY <2>2
    <3>3. CASE ParallelSafe
      <4>1. \A i \in DOMAIN Calls : OnRecord(Call(i))'
        BY <1>4, <2>1, <2>2, <2>7, <3>2, <3>3 DEF OnRecord
      <4>2. pc' = "bodies" /\ left' \subseteq DOMAIN Calls
        BY <1>1, <2>7, <3>3 DEF next
      <4> QED BY <1>3, <1>4, <1>5, <2>4, <2>5, <3>1, <3>3, <4>1, <4>2
              DEF RecoveryInv, PlaceInv, LivePlace, RecoveredPlace, AppendPC
    <3>4. CASE ~ ParallelSafe
      <4>1. pc' = "call"
        BY <2>7, <3>4 DEF next
      <4>2. rec'.batch # None /\ Len(rec'.batch.calls) = 1 /\ rec'.batch.calls[1].id = Call(cur)'
        BY <1>1, <1>4, <2>1, <2>2, <2>7, <3>2, <3>4 DEF Call
      <4> QED BY <1>3, <1>4, <1>5, <2>4, <2>5, <3>1, <3>4, <4>1, <4>2
              DEF RecoveryInv, PlaceInv, LivePlace, RecoveredPlace, AppendPC
    <3> QED BY <3>3, <3>4
  <2> QED BY <2>4, <2>6, <2>7
<1> QED BY <1>2, <1>6, <1>7

\* A body runs, or a result is at hand: the transcript, the record and the
\* call are as they were.
LEMMA StillAtCall ==
  ASSUME RecoveryInv, pc \in {"bodies"} \cup AppendPC, DurableInv', ControlType',
         UNCHANGED <<rec, asst, results, mem, cur>>, DOMAIN child \subseteq DOMAIN child',
         \/ pc = "bodies" /\ pc' = "bodies" /\ left' \subseteq DOMAIN Calls
         \/ pc' = "append"
         \/ pc = "call" /\ pc' = "admitted" /\ Call(cur) \in DOMAIN child'
  PROVE  RecoveryInv'
<1>1. n' = n /\ Calls' = Calls /\ ParallelSafe' = ParallelSafe /\ AtCall' = AtCall
      /\ \A i : Call(i)' = Call(i)
  BY DEF n, Calls, ParallelSafe, AtCall, Call
<1>2. \A c : OnRecord(c)' <=> OnRecord(c)
  BY DEF OnRecord
<1>3. mem = rec /\ mem # None /\ AtCall /\ Unanswered(cur)
  BY DEF RecoveryInv, PlaceInv, HeldInv, LivePlace, LoopPC, AppendPC
<1>4. (Unanswered(cur))'
  BY <1>1, <1>3 DEF Unanswered, Answered
<1>5. HeldInv'
  BY <1>3 DEF HeldInv
<1>6. RecoveredPlace'
  BY DEF RecoveredPlace, AppendPC
<1>7. CASE pc = "bodies" /\ pc' = "bodies" /\ left' \subseteq DOMAIN Calls
  <2>1. ParallelSafe /\ \A i \in DOMAIN Calls : OnRecord(Call(i))
    BY <1>7 DEF RecoveryInv, PlaceInv, LivePlace
  <2>2. LivePlace'
    BY <1>1, <1>2, <1>3, <1>4, <1>7, <2>1 DEF LivePlace, AppendPC
  <2> QED BY <1>5, <1>6, <2>2 DEF RecoveryInv, PlaceInv
<1>8. CASE pc' = "append"
  <2>1. OnRecord(Call(cur)) /\ (ParallelSafe => \A i \in DOMAIN Calls : OnRecord(Call(i)))
    <3>1. CASE pc = "bodies" \/ pc = "append"
      BY <1>3, <3>1 DEF RecoveryInv, PlaceInv, LivePlace, AtCall
    <3>2. CASE pc \in {"call", "admitted", "await"}
      <4>1. ~ ParallelSafe /\ rec.batch # None /\ Len(rec.batch.calls) = 1
            /\ rec.batch.calls[1].id = Call(cur)
        BY <3>2 DEF RecoveryInv, PlaceInv, LivePlace
      <4>2. 1 \in DOMAIN rec.batch.calls
        <5>1. rec.batch \in Batch
          BY <1>3, <4>1, RecordFields DEF RecoveryInv, DurableInv, DurableType
        <5> QED BY <4>1, <5>1, BatchFields
      <4> QED BY <1>3, <4>1, <4>2 DEF OnRecord
    <3> QED BY <3>1, <3>2 DEF AppendPC
  <2>2. LivePlace'
    BY <1>1, <1>2, <1>3, <1>4, <1>8, <2>1 DEF LivePlace, AppendPC
  <2> QED BY <1>5, <1>6, <2>2 DEF RecoveryInv, PlaceInv
<1>9. CASE pc = "call" /\ pc' = "admitted" /\ Call(cur) \in DOMAIN child'
  <2>1. ~ ParallelSafe /\ rec.batch # None /\ Len(rec.batch.calls) = 1
        /\ rec.batch.calls[1].id = Call(cur)
    BY <1>9 DEF RecoveryInv, PlaceInv, LivePlace
  <2>2. Call(cur)' = Call(cur)
    BY <1>1 DEF Call
  <2>3. LivePlace'
    BY <1>1, <1>3, <1>4, <1>9, <2>1, <2>2 DEF LivePlace, AppendPC
  <2> QED BY <1>5, <1>6, <2>3 DEF RecoveryInv, PlaceInv
<1> QED BY <1>7, <1>8, <1>9

LEMMA ParallelBodyKeeps == RecoveryInv /\ ParallelBody => RecoveryInv'
<1> SUFFICES ASSUME RecoveryInv, ParallelBody PROVE RecoveryInv'
  OBVIOUS
<1>1. UNCHANGED <<rec, asst, results, child, iter, cur, value, pc, mem, ctxDone, faults>>
      /\ pc = "bodies"
  BY DEF ParallelBody, bounds
<1>2. PICK i \in left : left' = left \ {i} /\ (ran' = Append(ran, Call(i)) \/ UNCHANGED ran)
  BY DEF ParallelBody
<1>3. /\ left \subseteq DOMAIN Calls /\ n > 0
      /\ OnRecord(Call(i)) /\ i \in DOMAIN Calls
  BY <1>1, <1>2 DEF RecoveryInv, PlaceInv, LivePlace, AtCall, AppendPC
<1>4. Call(i) \in CallRef /\ Call(i)[1] <= n
  BY <1>3, CallsAtHand DEF RecoveryInv, DurableInv
<1>5. DurableInv'
  BY <1>1, <1>2, <1>3, <1>4, CallStarted, JournalKept DEF RecoveryInv
<1>6. ControlType'
  BY <1>1 DEF RecoveryInv, PlaceInv, ControlType
<1>7. left' \subseteq DOMAIN Calls
  BY <1>2, <1>3
<1> QED BY <1>1, <1>5, <1>6, <1>7, StillAtCall

LEMMA ParallelDoneKeeps == RecoveryInv /\ (ParallelDone \/ DenyTool) => RecoveryInv'
<1> SUFFICES ASSUME RecoveryInv, ParallelDone \/ DenyTool PROVE RecoveryInv'
  OBVIOUS
<1>1. UNCHANGED <<rec, asst, results, child, ran, iter, cur, mem, ctxDone, faults>>
      /\ pc \in {"bodies", "call"} /\ pc' = "append" /\ value' = "output"
  BY DEF ParallelDone, DenyTool, bounds, durable, Goto
<1>2. DurableInv'
  BY <1>1, JournalKept DEF RecoveryInv
<1>3. ControlType'
  BY <1>1 DEF RecoveryInv, PlaceInv, ControlType, LivePC, Value
<1> QED BY <1>1, <1>2, <1>3, StillAtCall DEF AppendPC

\* The call at hand is on record and is one of the transcript's.
LEMMA CallOnRecord ==
  ASSUME RecoveryInv, pc \in {"call", "admitted", "await"}
  PROVE  /\ OnRecord(Call(cur)) /\ Call(cur) \in CallRef /\ Call(cur)[1] <= n
         /\ mem = rec /\ mem \in Record /\ mem.batch # None /\ Len(mem.batch.calls) = 1
         /\ mem.batch.calls[1].id = Call(cur) /\ GoodBatch(mem.batch) /\ ~ ParallelSafe
<1>1. /\ mem = rec /\ mem # None /\ rec.batch # None /\ Len(rec.batch.calls) = 1
      /\ rec.batch.calls[1].id = Call(cur) /\ ~ ParallelSafe /\ n > 0 /\ cur \in Nat
  BY DEF RecoveryInv, PlaceInv, HeldInv, LivePlace, LoopPC, AppendPC, AtCall, ControlType
<1>2. mem \in Record /\ GoodBatch(mem.batch)
  BY <1>1 DEF RecoveryInv, DurableInv, RecordInv
<1>3. rec.batch \in Batch
  BY <1>1, <1>2, RecordFields
<1>4. 1 \in DOMAIN rec.batch.calls
  BY <1>1, <1>3, BatchFields
<1>5. Call(cur) \in CallRef /\ Call(cur)[1] <= n
  BY <1>1, CallsAtHand DEF RecoveryInv, DurableInv
<1> QED BY <1>1, <1>2, <1>4, <1>5 DEF OnRecord

LEMMA InvokeToolKeeps == RecoveryInv /\ InvokeTool => RecoveryInv'
<1> SUFFICES ASSUME RecoveryInv, InvokeTool PROVE RecoveryInv'
  OBVIOUS
<1>1. UNCHANGED <<rec, asst, results, child, iter, cur, mem, ctxDone, faults>>
      /\ pc = "call" /\ pc' = "append" /\ value' = "output" /\ ran' = Append(ran, Call(cur))
  BY DEF InvokeTool, bounds, Goto
<1>2. DurableInv'
  BY <1>1, CallOnRecord, CallStarted DEF RecoveryInv
<1>3. ControlType'
  BY <1>1 DEF RecoveryInv, PlaceInv, ControlType, LivePC, Value
<1> QED BY <1>1, <1>2, <1>3, StillAtCall DEF AppendPC

LEMMA SpawnChildKeeps == RecoveryInv /\ SpawnChild => RecoveryInv'
<1> SUFFICES ASSUME RecoveryInv, SpawnChild PROVE RecoveryInv'
  OBVIOUS
<1> DEFINE c == Call(cur)
           admitted == [d \in DOMAIN child \cup {c} |-> IF d = c THEN "running" ELSE child[d]]
<1>1. UNCHANGED <<rec, asst, results, ran, iter, cur, mem, ctxDone>> /\ pc = "call"
  BY DEF SpawnChild
<1>2. \/ child' = admitted /\ pc' = "admitted" /\ UNCHANGED value
      \/ child' \in {child, admitted} /\ pc' = "append" /\ value' = "not_admitted"
  BY DEF SpawnChild, Goto
<1>3. faults'.count \in Nat
  BY Faulty DEF SpawnChild, Fault, RecoveryInv, PlaceInv, ControlType
<1>4. DurableInv' /\ DOMAIN child \subseteq DOMAIN child'
      /\ (child' = admitted => c \in DOMAIN child')
  <2>1. CASE child' = child
    BY <1>1, <2>1, JournalKept, CallOnRecord, CallStarted DEF RecoveryInv
  <2>2. CASE child' = admitted
    BY <1>1, <2>2, CallOnRecord, CallStarted DEF RecoveryInv
  <2> QED BY <1>2, <2>1, <2>2
<1>5. ControlType'
  BY <1>1, <1>2, <1>3 DEF RecoveryInv, PlaceInv, ControlType, LivePC, Value
<1> HIDE DEF admitted
<1> QED BY <1>1, <1>2, <1>4, <1>5, StillAtCall DEF AppendPC

LEMMA ExternalAdmittedKeeps == RecoveryInv /\ ExternalAdmitted => RecoveryInv'
<1> SUFFICES ASSUME RecoveryInv, ExternalAdmitted PROVE RecoveryInv'
  OBVIOUS
<1> DEFINE c == Call(cur)
<1> PICK x : x = [id |-> c, outcome |-> "admitted", external |-> c, result |-> None]
  OBVIOUS
<1> PICK r : r = SameIteration("waiting_external_child", WithCall(1, x))
  OBVIOUS
<1>1. UNCHANGED <<asst, results, child, ran, iter, cur, value, left, ctxDone>> /\ pc = "admitted"
      /\ Checkpoint(r, "await", "uncertain", "return")
  BY DEF ExternalAdmitted, loop, SameIteration
<1>2. /\ mem = rec /\ mem \in Record /\ mem # None /\ AtCall /\ Unanswered(cur)
      /\ c \in DOMAIN child /\ faults.count \in Nat
  BY <1>1, CallOnRecord DEF RecoveryInv, PlaceInv, HeldInv, LivePlace, LoopPC, AppendPC, ControlType
<1>3. /\ r \in Record /\ GoodBatch(r.batch) /\ r.batch # None
      /\ Len(r.batch.calls) = 1 /\ r.batch.calls[1].id = c
  BY <1>1, <1>2, CallOnRecord, AdmittedRecord
<1>4. /\ DurableInv' /\ faults'.count \in Nat
      /\ \/ pc' = "await" /\ mem' = rec' /\ rec' # None /\ rec'.batch = r.batch
         \/ pc' = "return" /\ mem' = mem
  BY <1>1, <1>2, <1>3, CheckpointStep DEF RecoveryInv
<1>5. ControlType'
  BY <1>1, <1>4 DEF RecoveryInv, PlaceInv, ControlType, LivePC
<1>6. CASE pc' = "return" /\ mem' = mem
  BY <1>2, <1>4, <1>5, <1>6, FarPlace DEF RecoveryInv, LoopPC, AppendPC
<1>7. CASE pc' = "await" /\ mem' = rec' /\ rec' # None /\ rec'.batch = r.batch
  <2>1. n' = n /\ AtCall' = AtCall /\ ParallelSafe' = ParallelSafe /\ c' = c
    BY <1>1 DEF n, AtCall, Calls, ParallelSafe, Call
  <2>2. (Unanswered(cur))'
    BY <1>1, <1>2, <2>1 DEF Unanswered, Answered
  <2>3. ~ ParallelSafe
    BY <1>1, CallOnRecord
  <2>4. HeldInv'
    BY <1>7 DEF HeldInv
  <2>5. LivePlace'
    BY <1>1, <1>2, <1>3, <1>7, <2>1, <2>2, <2>3 DEF LivePlace, AppendPC
  <2>6. RecoveredPlace'
    BY <1>7 DEF RecoveredPlace
  <2> QED BY <1>4, <1>5, <2>4, <2>5, <2>6 DEF RecoveryInv, PlaceInv
<1> QED BY <1>4, <1>6, <1>7

LEMMA AwaitChildKeeps == RecoveryInv /\ AwaitChild => RecoveryInv'
<1> SUFFICES ASSUME RecoveryInv, AwaitChild PROVE RecoveryInv'
  OBVIOUS
<1>1. UNCHANGED <<rec, asst, results, child, ran, iter, cur, mem, ctxDone>>
      /\ pc = "await" /\ pc' = "append"
  BY DEF AwaitChild, durable, Goto
<1>2. faults'.count \in Nat
  BY Faulty DEF AwaitChild, Fault, RecoveryInv, PlaceInv, ControlType
<1>3. child[Call(cur)] \in ChildStatus
  BY <1>1 DEF RecoveryInv, PlaceInv, LivePlace, DurableInv, DurableType
<1>4. value' \in Value
  BY <1>3 DEF AwaitChild, Value, ChildStatus
<1>5. DurableInv'
  BY <1>1, JournalKept DEF RecoveryInv
<1>6. ControlType'
  BY <1>1, <1>2, <1>4 DEF RecoveryInv, PlaceInv, ControlType, LivePC
<1> QED BY <1>1, <1>5, <1>6, StillAtCall DEF AppendPC

LEMMA AppendResultKeeps == RecoveryInv /\ AppendResult => RecoveryInv'
<1> SUFFICES ASSUME RecoveryInv, AppendResult PROVE RecoveryInv'
  OBVIOUS
<1> DEFINE c == Call(cur)
           a == [call |-> c, value |-> value]
<1>1. UNCHANGED <<rec, asst, child, ran, iter, cur, value, left, mem, ctxDone>> /\ pc = "append"
  BY DEF AppendResult, loop
<1>2. \/ results' = Append(results, a) /\ pc' \in {"confirm", "return"}
      \/ results' = results /\ pc' = "return"
  BY DEF AppendResult, Goto, Fail
<1>3. faults'.count \in Nat
  BY Faulty DEF AppendResult, Fault, RecoveryInv, PlaceInv, ControlType
<1>4. ControlType'
  BY <1>1, <1>2, <1>3 DEF RecoveryInv, PlaceInv, ControlType, LivePC
<1>5. /\ mem = rec /\ mem # None /\ AtCall /\ Unanswered(cur) /\ OnRecord(c)
      /\ (ParallelSafe => \A i \in DOMAIN Calls : OnRecord(Call(i)))
      /\ cur \in Nat /\ value \in Value /\ n > 0
  BY <1>1 DEF RecoveryInv, PlaceInv, HeldInv, LivePlace, LoopPC, AppendPC, ControlType, AtCall
<1>6. c \in CallRef /\ c[1] <= n /\ n \in Nat
  BY <1>5, CallsAtHand DEF RecoveryInv, DurableInv
<1>7. ~ Answered(c)
  BY <1>5 DEF Unanswered, Call
<1>8. CASE results' = results /\ pc' = "return"
  <2>1. DurableInv'
    BY <1>1, <1>8, JournalKept DEF RecoveryInv
  <2> QED BY <1>1, <1>4, <1>5, <1>8, <2>1, FarPlace DEF RecoveryInv, LoopPC, AppendPC
<1>9. CASE results' = Append(results, a) /\ pc' \in {"confirm", "return"}
  <2>1. /\ DurableInv' /\ \E j \in DOMAIN results' : results'[j] = a
        /\ \A d : Answered(d)' => d = c \/ Answered(d)
    BY <1>1, <1>5, <1>6, <1>7, <1>9, ResultAdded DEF RecoveryInv
  <2>2. CASE pc' = "return"
    BY <1>1, <1>4, <1>5, <2>1, <2>2, FarPlace DEF RecoveryInv, LoopPC, AppendPC
  <2>3. CASE pc' = "confirm"
    <3>1. n' = n /\ Calls' = Calls /\ ParallelSafe' = ParallelSafe /\ AtCall' = AtCall
          /\ \A i : Call(i)' = Call(i)
      BY <1>1 DEF n, Calls, ParallelSafe, AtCall, Call
    <3>2. \A d : OnRecord(d)' <=> OnRecord(d)
      BY <1>1 DEF OnRecord
    <3>3. ASSUME NEW i \in Nat, i >= cur + 1, NEW d, d = <<n, i>>, Answered(d)' PROVE FALSE
      <4>1. d = <<n, cur>> \/ Answered(<<n, i>>)
        BY <2>1, <3>3 DEF Call
      <4>2. i # cur /\ i >= cur
        BY <1>5, <3>3
      <4>3. d # <<n, cur>>
        BY <3>3, <4>2
      <4> QED BY <1>5, <4>1, <4>2, <4>3 DEF Unanswered
    <3>4. (Unanswered(cur + 1))'
      BY <1>1, <3>1, <3>3 DEF Unanswered, Answered
    <3>5. \E j \in DOMAIN results' : results'[j] = [call |-> Call(cur)', value |-> value']
      BY <1>1, <2>1, <3>1
    <3>6. HeldInv'
      BY <1>1, <1>5, <2>3 DEF HeldInv
    <3>7. LivePlace'
      BY <1>1, <1>5, <2>3, <3>1, <3>2, <3>4, <3>5 DEF LivePlace, AppendPC, Call
    <3>8. RecoveredPlace'
      BY <2>3 DEF RecoveredPlace
    <3> QED BY <1>4, <2>1, <3>6, <3>7, <3>8 DEF RecoveryInv, PlaceInv
  <2> QED BY <1>9, <2>2, <2>3
<1> QED BY <1>2, <1>8, <1>9

LEMMA ToolConfirmedKeeps == RecoveryInv /\ ToolConfirmed => RecoveryInv'
<1> SUFFICES ASSUME RecoveryInv, ToolConfirmed PROVE RecoveryInv'
  OBVIOUS
<1> DEFINE c == Call(cur)
           last == cur = Len(Calls)
           next == CASE last -> "provider"
                     [] ~ last /\ ParallelSafe -> "append"
                     [] OTHER -> "pending"
           r == Confirmed(c, value)
<1>1. UNCHANGED <<asst, results, child, ran, iter, value, left, ctxDone>> /\ pc = "confirm"
      /\ Checkpoint(r, next, "error", "return") /\ cur' = IF last THEN 0 ELSE cur + 1
  BY DEF ToolConfirmed
<1>2. /\ mem = rec /\ mem # None /\ AtCall /\ Unanswered(cur + 1) /\ OnRecord(c)
      /\ (ParallelSafe => \A i \in DOMAIN Calls : OnRecord(Call(i)))
      /\ (\E j \in DOMAIN results : results[j] = [call |-> c, value |-> value])
      /\ cur \in Nat /\ iter \in Nat /\ value \in Value /\ faults.count \in Nat /\ n > 0
  BY <1>1 DEF RecoveryInv, PlaceInv, HeldInv, LivePlace, LoopPC, AppendPC, ControlType, AtCall
<1>3. /\ c \in CallRef /\ n \in Nat /\ DOMAIN Calls = 1..Len(Calls) /\ Len(Calls) \in Nat
  BY <1>2, CallsAtHand DEF RecoveryInv, DurableInv
<1>4. mem \in Record /\ mem.batch # None /\ GoodBatch(mem.batch)
      /\ \E k \in DOMAIN mem.batch.calls : mem.batch.calls[k].id = c
  BY <1>2 DEF RecoveryInv, DurableInv, RecordInv, OnRecord
<1>5. /\ r \in Record /\ GoodBatch(r.batch) /\ r.batch # None
      /\ DOMAIN r.batch.calls = DOMAIN mem.batch.calls
      /\ \A i \in DOMAIN mem.batch.calls : r.batch.calls[i].id = mem.batch.calls[i].id
  BY <1>2, <1>3, <1>4, ConfirmedRecord
<1> HIDE DEF r, next
<1>6. /\ DurableInv' /\ faults'.count \in Nat
      /\ \/ pc' = next /\ mem' = rec' /\ rec' # None /\ rec'.batch = r.batch
         \/ pc' = "return" /\ mem' = mem
  BY <1>1, <1>2, <1>5, CheckpointStep DEF RecoveryInv
<1>7. ControlType'
  BY <1>1, <1>2, <1>6 DEF RecoveryInv, PlaceInv, ControlType, LivePC, next
<1>8. CASE pc' = "return" /\ mem' = mem
  BY <1>2, <1>6, <1>7, <1>8, FarPlace DEF RecoveryInv, LoopPC, AppendPC
<1>9. CASE pc' = next /\ mem' = rec' /\ rec' # None /\ rec'.batch = r.batch
  <2>1. CASE last
    BY <1>6, <1>7, <1>9, <2>1, BetweenCalls DEF RecoveryInv, next
  <2>2. CASE ~ last
    <3>1. n' = n /\ Calls' = Calls /\ ParallelSafe' = ParallelSafe /\ \A i : Call(i)' = <<n, i>>
      BY <1>1 DEF n, Calls, ParallelSafe, Call
    <3>2. cur' = cur + 1 /\ cur + 1 \in DOMAIN Calls
      BY <1>1, <1>2, <1>3, <2>2 DEF AtCall
    <3>3. AtCall'
      BY <1>2, <3>1, <3>2 DEF AtCall
    <3>4. (Unanswered(cur))'
      BY <1>1, <1>2, <3>1, <3>2 DEF Unanswered, Answered
    <3>5. HeldInv'
      BY <1>9 DEF HeldInv
    <3>6. RecoveredPlace'
      BY <1>9, <2>2 DEF RecoveredPlace, next
    <3>7. CASE ParallelSafe
      <4>1. ASSUME NEW i \in DOMAIN Calls PROVE OnRecord(Call(i))'
        <5>1. OnRecord(Call(i))
          BY <1>2, <3>7
        <5>2. PICK k \in DOMAIN mem.batch.calls : mem.batch.calls[k].id = Call(i)
          BY <1>2, <5>1 DEF OnRecord
        <5> QED BY <1>5, <1>9, <3>1, <5>2 DEF OnRecord, Call
      <4>2. pc' = "append"
        BY <1>9, <2>2, <3>7 DEF next
      <4>3. OnRecord(Call(cur))'
        BY <3>1, <3>2, <4>1 DEF OnRecord, Call
      <4>4. LivePlace'
        BY <3>1, <3>3, <3>4, <3>7, <4>1, <4>2, <4>3 DEF LivePlace, AppendPC
      <4> QED BY <1>6, <1>7, <3>5, <3>6, <4>4 DEF RecoveryInv, PlaceInv
    <3>8. CASE ~ ParallelSafe
      <4>1. pc' = "pending"
        BY <1>9, <2>2, <3>8 DEF next
      <4>2. LivePlace'
        BY <3>3, <3>4, <4>1 DEF LivePlace, AppendPC
      <4> QED BY <1>6, <1>7, <3>5, <3>6, <4>2 DEF RecoveryInv, PlaceInv
    <3> QED BY <3>7, <3>8
  <2> QED BY <2>1, <2>2
<1> QED BY <1>6, <1>8, <1>9

LEMMA LoopEndsKeeps == RecoveryInv /\ (Finalize \/ LoopFailed) => RecoveryInv'
<1> SUFFICES ASSUME RecoveryInv, Finalize \/ LoopFailed PROVE RecoveryInv'
  OBVIOUS
<1>1. UNCHANGED <<rec, asst, results, child, ran, iter, cur, value, left, mem, ctxDone>>
      /\ pc \in {"finalize", "return"} /\ pc' = "finish"
  BY DEF Finalize, LoopFailed, durable, loop, Goto, Fail
<1>2. faults'.count \in Nat
  BY Faulty DEF Finalize, LoopFailed, Fault, bounds, RecoveryInv, PlaceInv, ControlType
<1>3. mem # None
  BY <1>1 DEF RecoveryInv, PlaceInv, HeldInv, LoopPC
<1>4. DurableInv'
  BY <1>1, JournalKept DEF RecoveryInv
<1>5. ControlType'
  BY <1>1, <1>2 DEF RecoveryInv, PlaceInv, ControlType, LivePC
<1> QED BY <1>1, <1>3, <1>4, <1>5, FarPlace DEF RecoveryInv, LoopPC, AppendPC

LEMMA FinishTurnKeeps == RecoveryInv /\ FinishTurn => RecoveryInv'
<1> SUFFICES ASSUME RecoveryInv, FinishTurn PROVE RecoveryInv'
  OBVIOUS
<1>1. UNCHANGED <<asst, results, child, ran, iter, cur, value, left, ctxDone>>
      /\ pc = "finish" /\ pc' = "settle" /\ (Written(Finished) \/ NotWritten(Finished, FALSE))
  BY DEF FinishTurn, loop, Goto
<1>2. mem \in Record /\ GoodBatch(mem.batch) /\ faults.count \in Nat
  BY <1>1 DEF RecoveryInv, PlaceInv, HeldInv, ControlType, DurableInv, RecordInv
<1>3. Finished \in Record /\ GoodBatch(Finished.batch)
  BY <1>2, FinishedRecord
<1>4. DurableInv' /\ faults'.count \in Nat
  BY <1>1, <1>2, <1>3, Updated, NotUpdated DEF RecoveryInv
<1>5. ControlType'
  BY <1>1, <1>4 DEF RecoveryInv, PlaceInv, ControlType, LivePC
<1> QED BY <1>1, <1>4, <1>5, FarPlace DEF RecoveryInv, LoopPC, AppendPC

LEMMA SettleTaskKeeps == RecoveryInv /\ SettleTask => RecoveryInv'
<1> SUFFICES ASSUME RecoveryInv, SettleTask PROVE RecoveryInv'
  OBVIOUS
<1>1. UNCHANGED <<rec, asst, results, child, ran, iter, cur, value, left, mem, ctxDone>>
      /\ pc' \in {"idle", "ack", "interrupt"}
  BY DEF SettleTask, loop, Goto
<1>2. faults'.count \in Nat
  BY Faulty DEF SettleTask, HostMoved, HostNotMoved, Fault, RecoveryInv, PlaceInv, ControlType
<1>3. DurableInv'
  BY <1>1, JournalKept DEF RecoveryInv
<1>4. ControlType'
  BY <1>1, <1>2 DEF RecoveryInv, PlaceInv, ControlType, LivePC, RecoveryPC
<1> QED BY <1>1, <1>3, <1>4, FarPlace DEF RecoveryInv, LoopPC, AppendPC

LEMMA AcknowledgedRecord ==
  ASSUME rec \in Record, PendingTerminal(rec), GoodBatch(rec.batch),
         NEW r, r = [rec EXCEPT !.phase = AcknowledgedPhase(rec.phase)]
  PROVE  r \in Record /\ r.batch = rec.batch /\ r.phase = AcknowledgedPhase(rec.phase)
         /\ r.rev = rec.rev /\ r.iter = rec.iter
<1>1. AcknowledgedPhase(rec.phase) \in Phase
  BY DEF PendingTerminal, AcknowledgedPhase, PendingPhase, TerminalPhase, Phase
<1>2. rec = [rev |-> rec.rev, phase |-> rec.phase, iter |-> rec.iter, reason |-> rec.reason,
             batch |-> rec.batch]
  BY RecordFields
<1>3. PICK rv, ph, it, re, bt :
        rec = [rev |-> rv, phase |-> ph, iter |-> it, reason |-> re, batch |-> bt]
  BY <1>2
<1>4. r = [rev |-> rv, phase |-> AcknowledgedPhase(rec.phase), iter |-> it, reason |-> re, batch |-> bt]
  BY <1>3
<1>5. rec.rev = rv /\ rec.iter = it /\ rec.reason = re /\ rec.batch = bt
  BY <1>3
<1>6. rec.rev \in Nat /\ rec.iter \in Nat /\ rec.reason \in BOOLEAN /\ rec.batch \in Batch \cup {None}
  BY RecordFields
<1> QED BY <1>1, <1>4, <1>5, <1>6 DEF Record

LEMMA AcknowledgeTaskKeeps == RecoveryInv /\ AcknowledgeTask => RecoveryInv'
<1> SUFFICES ASSUME RecoveryInv, AcknowledgeTask PROVE RecoveryInv'
  OBVIOUS
<1> PICK r : r = [rec EXCEPT !.phase = AcknowledgedPhase(rec.phase)]
  OBVIOUS
<1>1. UNCHANGED <<asst, results, child, ran, iter, cur, value, left, ctxDone>> /\ pc' = "idle"
      /\ \/ rec # None /\ PendingTerminal(rec) /\ (Written(r) \/ NotWritten(r, FALSE))
         \/ UNCHANGED <<rec, mem, faults>>
  BY DEF AcknowledgeTask, loop, Goto
<1>2. faults.count \in Nat
  BY DEF RecoveryInv, PlaceInv, ControlType
<1>3. DurableInv' /\ faults'.count \in Nat
  <2>1. CASE UNCHANGED <<rec, mem, faults>>
    BY <1>1, <1>2, <2>1, JournalKept DEF RecoveryInv
  <2>2. CASE rec # None /\ PendingTerminal(rec) /\ (Written(r) \/ NotWritten(r, FALSE))
    <3>1. rec \in Record /\ GoodBatch(rec.batch)
      BY <2>2 DEF RecoveryInv, DurableInv, DurableType, RecordInv
    <3>2. r \in Record /\ GoodBatch(r.batch)
      BY <2>2, <3>1, AcknowledgedRecord
    <3> QED BY <1>1, <1>2, <2>2, <3>2, Updated, NotUpdated DEF RecoveryInv
  <2> QED BY <1>1, <2>1, <2>2
<1>4. ControlType'
  BY <1>1, <1>3 DEF RecoveryInv, PlaceInv, ControlType, LivePC
<1> QED BY <1>1, <1>3, <1>4, FarPlace DEF RecoveryInv, LoopPC, AppendPC

LEMMA ScanKeeps == RecoveryInv /\ (LookupTask \/ ReconcilePending \/ CloseUnrecoverable) => RecoveryInv'
<1> SUFFICES ASSUME RecoveryInv, LookupTask \/ ReconcilePending \/ CloseUnrecoverable
             PROVE  RecoveryInv'
  OBVIOUS
<1>1. UNCHANGED <<rec, asst, results, child, ran, iter, cur, value, left, mem, ctxDone>>
      /\ \/ pc' \in {"idle", "ack", "interrupt", "settle"}
         \/ pc' = "decide" /\ rec # None
  BY DEF LookupTask, ReconcilePending, CloseUnrecoverable, Open, durable, loop, Goto, Fail
<1>2. faults'.count \in Nat
  BY Faulty DEF LookupTask, ReconcilePending, CloseUnrecoverable, HostMoved, HostNotMoved, Fault,
                RecoveryInv, PlaceInv, ControlType
<1>3. DurableInv'
  BY <1>1, JournalKept DEF RecoveryInv
<1>4. ControlType'
  BY <1>1, <1>2 DEF RecoveryInv, PlaceInv, ControlType, LivePC, RecoveryPC
<1> QED BY <1>1, <1>3, <1>4, FarPlace DEF RecoveryInv, LoopPC, AppendPC

\* A turn that waits for a child has one call, admitted, and its child exists.
LEMMA WaitsForChild ==
  ASSUME DurableInv, rec # None, rec.phase = "waiting_external_child"
  PROVE  /\ rec.batch # None /\ Len(rec.batch.calls) = 1
         /\ rec.batch.calls[1].id \in DOMAIN child
<1>1. rec \in Record /\ Validate(rec) /\ GoodBatch(rec.batch)
  BY DEF DurableInv, DurableType, RecordInv
<1>2. rec.batch # None /\ batchFitsPhase(rec.batch, "waiting_external_child")
  BY <1>1 DEF Validate, validateToolBatchForPhase
<1>3. Len(rec.batch.calls) = 1 /\ Cardinality(CallsWith(rec.batch, "admitted")) = 1
  BY <1>2 DEF batchFitsPhase
<1>4. DOMAIN rec.batch.calls = {1}
  <2>1. rec.batch \in Batch
    BY <1>1, <1>2, RecordFields
  <2> QED BY <1>3, <2>1, BatchFields
<1>5. CallsWith(rec.batch, "admitted") # {}
  BY <1>3, FS_EmptySet
<1>6. rec.batch.calls[1].outcome = "admitted"
  BY <1>4, <1>5 DEF CallsWith
<1> QED BY <1>1, <1>2, <1>3, <1>4, <1>6 DEF GoodBatch

LEMMA ResumeTurnKeeps == RecoveryInv /\ ResumeTurn => RecoveryInv'
<1> SUFFICES ASSUME RecoveryInv, ResumeTurn PROVE RecoveryInv'
  OBVIOUS
<1> DEFINE r == Interrupted(rec, "interrupting")
<1>1. UNCHANGED <<asst, results, child, ran, cur, value, left, ctxDone>> /\ pc = "decide"
      /\ \/ /\ rec.phase \in ResumePhase
            /\ mem' = rec /\ iter' = rec.iter /\ UNCHANGED <<rec, faults>>
            /\ \/ rec.phase = "child_resolved" /\ pc' = "provider"
               \/ rec.phase # "child_resolved" /\ pc' = "recover"
         \/ (Written(r) \/ NotWritten(r, FALSE)) /\ pc' = "settle" /\ UNCHANGED iter
  BY DEF ResumeTurn, Goto, Fail
<1>2. rec # None /\ rec \in Record /\ GoodBatch(rec.batch) /\ faults.count \in Nat
  BY <1>1 DEF RecoveryInv, PlaceInv, HeldInv, ControlType, DurableInv, DurableType, RecordInv
<1>3. CASE (Written(r) \/ NotWritten(r, FALSE)) /\ pc' = "settle" /\ UNCHANGED iter
  <2>1. r \in Record /\ GoodBatch(r.batch)
    BY <1>2, InterruptedRecord DEF Phase, PendingPhase
  <2> HIDE DEF r
  <2>2. DurableInv' /\ faults'.count \in Nat
    BY <1>1, <1>2, <1>3, <2>1, Updated, NotUpdated DEF RecoveryInv
  <2>3. ControlType'
    BY <1>1, <1>3, <2>2 DEF RecoveryInv, PlaceInv, ControlType, LivePC
  <2> QED BY <1>3, <2>2, <2>3, FarPlace DEF RecoveryInv, LoopPC, AppendPC
<1>4. CASE /\ rec.phase \in ResumePhase
           /\ mem' = rec /\ iter' = rec.iter /\ UNCHANGED <<rec, faults>>
           /\ \/ rec.phase = "child_resolved" /\ pc' = "provider"
              \/ rec.phase # "child_resolved" /\ pc' = "recover"
  <2>1. DurableInv'
    BY <1>1, <1>4, JournalKept DEF RecoveryInv
  <2>2. rec.iter \in Nat
    BY <1>2, RecordFields
  <2>3. ControlType'
    BY <1>1, <1>4, <2>2 DEF RecoveryInv, PlaceInv, ControlType, LivePC, RecoveryPC
  <2>4. CASE pc' = "provider"
    BY <1>2, <1>4, <2>1, <2>3, <2>4, BetweenCalls DEF RecoveryInv
  <2>5. CASE rec.phase # "child_resolved" /\ pc' = "recover"
    <3>1. rec.batch # None /\ Len(rec.batch.calls) = 1 /\ rec.batch.calls[1].id \in DOMAIN child
      BY <1>2, <1>4, <2>5, WaitsForChild DEF RecoveryInv, ResumePhase
    <3>2. HeldInv'
      BY <1>2, <1>4, <2>5 DEF HeldInv
    <3>3. LivePlace'
      BY <2>5 DEF LivePlace, AppendPC
    <3>4. RecoveredPlace'
      BY <1>1, <1>4, <2>5, <3>1 DEF RecoveredPlace, RecoveredCall
    <3> QED BY <2>1, <2>3, <3>2, <3>3, <3>4 DEF RecoveryInv, PlaceInv
  <2> QED BY <1>4, <2>4, <2>5
<1> QED BY <1>1, <1>3, <1>4

\* The call recovery is at: the only one of the record, of the transcript.
LEMMA RecoveredOnRecord ==
  ASSUME RecoveryInv, pc \in {"recover", "append_once", "confirm_recovered"}
  PROVE  /\ mem = rec /\ mem \in Record /\ mem # None /\ mem.batch # None /\ GoodBatch(mem.batch)
         /\ Len(mem.batch.calls) = 1 /\ 1 \in DOMAIN mem.batch.calls
         /\ RecoveredCall \in CallRef /\ RecoveredCall[1] <= n
         /\ RecoveredCall[1] = mem.batch.assistant
         /\ value \in Value /\ faults.count \in Nat /\ iter \in Nat
<1>1. mem = rec /\ mem # None /\ mem.batch # None /\ Len(mem.batch.calls) = 1
      /\ value \in Value /\ faults.count \in Nat /\ iter \in Nat
  BY DEF RecoveryInv, PlaceInv, HeldInv, RecoveredPlace, LoopPC, ControlType
<1>2. mem \in Record /\ GoodBatch(mem.batch)
  BY <1>1 DEF RecoveryInv, DurableInv, RecordInv
<1>3. mem.batch \in Batch
  BY <1>1, <1>2, RecordFields
<1>4. 1 \in DOMAIN mem.batch.calls /\ mem.batch.calls[1] \in CallRecord
  BY <1>1, <1>3, BatchFields
<1>5. RecoveredCall \in CallRef
  BY <1>4, CallFields DEF RecoveredCall
<1>6. RecoveredCall[1] <= n /\ RecoveredCall[1] = mem.batch.assistant
  BY <1>1, <1>2, <1>4 DEF GoodBatch, RecoveredCall
<1> QED BY <1>1, <1>2, <1>4, <1>5, <1>6

LEMMA AwaitRecoveredKeeps == RecoveryInv /\ AwaitRecovered => RecoveryInv'
<1> SUFFICES ASSUME RecoveryInv, AwaitRecovered PROVE RecoveryInv'
  OBVIOUS
<1>1. UNCHANGED <<rec, asst, results, child, ran, iter, cur, left, mem, ctxDone>> /\ pc = "recover"
      /\ \/ value' = child[RecoveredCall] /\ pc' = "append_once"
         \/ value' = value /\ pc' = "finish"
  BY DEF AwaitRecovered, durable, Goto, Fail
<1>2. faults'.count \in Nat
  BY Faulty DEF AwaitRecovered, Fault, RecoveryInv, PlaceInv, ControlType
<1>3. child[RecoveredCall] \in ChildStatus
  BY <1>1 DEF RecoveryInv, PlaceInv, RecoveredPlace, DurableInv, DurableType
<1>4. value' \in Value
  BY <1>1, <1>3, RecoveredOnRecord DEF Value, ChildStatus
<1>5. DurableInv'
  BY <1>1, JournalKept DEF RecoveryInv
<1>6. ControlType'
  BY <1>1, <1>2, <1>4 DEF RecoveryInv, PlaceInv, ControlType, LivePC, RecoveryPC
<1>7. CASE pc' = "finish"
  BY <1>1, <1>5, <1>6, <1>7, FarPlace, RecoveredOnRecord DEF RecoveryInv, LoopPC, AppendPC
<1>8. CASE pc' = "append_once"
  <2>1. HeldInv'
    BY <1>1, <1>8, RecoveredOnRecord DEF HeldInv
  <2>2. LivePlace'
    BY <1>8 DEF LivePlace, AppendPC
  <2>3. RecoveredPlace'
    BY <1>1, <1>8, RecoveredOnRecord DEF RecoveredPlace
  <2> QED BY <1>5, <1>6, <2>1, <2>2, <2>3 DEF RecoveryInv, PlaceInv
<1> QED BY <1>1, <1>7, <1>8

LEMMA AppendRecoveredKeeps == RecoveryInv /\ AppendRecovered => RecoveryInv'
<1> SUFFICES ASSUME RecoveryInv, AppendRecovered PROVE RecoveryInv'
  OBVIOUS
<1> DEFINE c == RecoveredCall
           a == [call |-> c, value |-> value]
<1>1. UNCHANGED <<rec, asst, child, ran, iter, cur, value, left, mem, ctxDone>>
      /\ pc = "append_once" /\ pc' \in {"confirm_recovered", "finish"}
  BY DEF AppendRecovered, loop, Goto, Fail
<1>2. \/ AlreadyThere(c) /\ results' = results
      \/ results' = results /\ pc' = "finish"
      \/ Present(c) = {} /\ results' = Append(results, a)
  BY DEF AppendRecovered, AlreadyThere, Goto, Fail
<1>3. faults'.count \in Nat
  BY Faulty DEF AppendRecovered, Fault, RecoveryInv, PlaceInv, ControlType
<1>4. ControlType'
  BY <1>1, <1>3 DEF RecoveryInv, PlaceInv, ControlType, LivePC, RecoveryPC
<1>5. /\ DurableInv'
      /\ AlreadyThere(c) \/ pc' = "finish" \/ results' = Append(results, a) =>
           pc' = "finish" \/ \E j \in DOMAIN results' : results'[j] = a
  <2>1. CASE AlreadyThere(c) /\ results' = results
    <3>1. DurableInv'
      BY <1>1, <2>1, JournalKept DEF RecoveryInv
    <3>2. PICK j \in DOMAIN results : results[j].call = c /\ results[j].value = value
      BY <2>1 DEF AlreadyThere, Present
    <3>3. results[j] \in Answer
      BY DEF RecoveryInv, DurableInv, DurableType
    <3>4. results[j] = a
      BY <3>2, <3>3 DEF Answer
    <3> QED BY <2>1, <3>1, <3>4
  <2>2. CASE results' = results /\ pc' = "finish"
    BY <1>1, <2>2, JournalKept DEF RecoveryInv
  <2>3. CASE Present(c) = {} /\ results' = Append(results, a)
    <3>1. ~ Answered(c)
      BY <2>3 DEF Present, Answered
    <3> QED BY <1>1, <2>3, <3>1, RecoveredOnRecord, ResultAdded DEF RecoveryInv
  <2> QED BY <1>2, <2>1, <2>2, <2>3
<1>6. CASE pc' = "finish"
  BY <1>1, <1>4, <1>5, <1>6, FarPlace, RecoveredOnRecord DEF RecoveryInv, LoopPC, AppendPC
<1>7. CASE pc' = "confirm_recovered"
  <2>1. HeldInv'
    BY <1>1, <1>7, RecoveredOnRecord DEF HeldInv
  <2>2. LivePlace'
    BY <1>7 DEF LivePlace, AppendPC
  <2>3. \E j \in DOMAIN results' : results'[j] = a
    BY <1>2, <1>5, <1>7
  <2>4. c' = c /\ value' = value
    BY <1>1 DEF RecoveredCall
  <2>5. RecoveredPlace'
    BY <1>1, <1>7, <2>3, <2>4, RecoveredOnRecord DEF RecoveredPlace
  <2> QED BY <1>4, <1>5, <2>1, <2>2, <2>5 DEF RecoveryInv, PlaceInv
<1> QED BY <1>1, <1>6, <1>7

LEMMA ConfirmRecoveredKeeps == RecoveryInv /\ ConfirmRecovered => RecoveryInv'
<1> SUFFICES ASSUME RecoveryInv, ConfirmRecovered PROVE RecoveryInv'
  OBVIOUS
<1> DEFINE r == Confirmed(RecoveredCall, value)
           e == IF ctxDone THEN "canceled" ELSE "error"
<1>1. UNCHANGED <<asst, results, child, ran, iter, cur, value, left, ctxDone>>
      /\ pc = "confirm_recovered" /\ Checkpoint(r, "provider", e, "finish")
  BY DEF ConfirmRecovered, loop
<1>2. \E j \in DOMAIN results : results[j] = [call |-> RecoveredCall, value |-> value]
  BY <1>1 DEF RecoveryInv, PlaceInv, RecoveredPlace
<1>3. r \in Record /\ GoodBatch(r.batch)
  BY <1>1, <1>2, RecoveredOnRecord, ConfirmedRecord DEF RecoveredCall
<1> HIDE DEF r, e
<1>4. /\ DurableInv' /\ faults'.count \in Nat
      /\ \/ pc' = "provider" /\ mem' = rec' /\ rec' # None
         \/ pc' = "finish" /\ mem' = mem
  BY <1>1, <1>3, RecoveredOnRecord, CheckpointStep DEF RecoveryInv
<1>5. ControlType'
  BY <1>1, <1>4 DEF RecoveryInv, PlaceInv, ControlType, LivePC
<1>6. CASE pc' = "provider" /\ mem' = rec' /\ rec' # None
  BY <1>4, <1>5, <1>6, BetweenCalls DEF RecoveryInv
<1>7. CASE pc' = "finish" /\ mem' = mem
  BY <1>1, <1>4, <1>5, <1>7, FarPlace, RecoveredOnRecord DEF RecoveryInv, LoopPC, AppendPC
<1> QED BY <1>4, <1>6, <1>7

LEMMA InterruptTurnKeeps == RecoveryInv /\ InterruptTurn => RecoveryInv'
<1> SUFFICES ASSUME RecoveryInv, InterruptTurn PROVE RecoveryInv'
  OBVIOUS
<1> DEFINE r == Interrupted(rec, "interrupted")
<1>1. UNCHANGED <<asst, results, child, ran, iter, cur, value, left, ctxDone>> /\ pc' = "idle"
      /\ \/ UNCHANGED <<rec, mem, faults>>
         \/ Written(r)
         \/ \E b : NotWritten(r, b)
  BY DEF InterruptTurn, loop, Goto
<1>2. faults.count \in Nat
  BY DEF RecoveryInv, PlaceInv, ControlType
<1>3. rec # None => r \in Record /\ GoodBatch(r.batch)
  <2>1. rec # None => rec \in Record /\ GoodBatch(rec.batch)
    BY DEF RecoveryInv, DurableInv, DurableType, RecordInv
  <2> QED BY <2>1, InterruptedRecord DEF Phase, TerminalPhase
<1> HIDE DEF r
<1>4. DurableInv' /\ faults'.count \in Nat
  <2>1. CASE UNCHANGED <<rec, mem, faults>>
    BY <1>1, <1>2, <2>1, JournalKept DEF RecoveryInv
  <2>2. CASE Written(r)
    <3>1. rec # None
      BY <2>2 DEF Written, Accepted
    <3> QED BY <1>1, <1>2, <1>3, <2>2, <3>1, Updated DEF RecoveryInv
  <2>3. CASE \E b : NotWritten(r, b)
    BY <1>1, <1>2, <1>3, <2>3, NotUpdated DEF RecoveryInv
  <2> QED BY <1>1, <2>1, <2>2, <2>3
<1>5. ControlType'
  BY <1>1, <1>4 DEF RecoveryInv, PlaceInv, ControlType, LivePC
<1> QED BY <1>1, <1>4, <1>5, FarPlace DEF RecoveryInv, LoopPC, AppendPC

LEMMA ChildEndsKeeps == RecoveryInv /\ ChildEnds => RecoveryInv'
<1> SUFFICES ASSUME RecoveryInv, ChildEnds PROVE RecoveryInv'
  OBVIOUS
<1>1. UNCHANGED <<rec, asst, results, ran, iter, cur, value, left, pc, mem, ctxDone, faults>>
  BY DEF ChildEnds, loop, bounds
<1>2. PICK c \in DOMAIN child, s \in ChildStatus : child' = [child EXCEPT ![c] = s]
  BY DEF ChildEnds, ChildStatus
<1>3. DurableInv' /\ DOMAIN child' = DOMAIN child
  BY <1>1, <1>2, ChildEnded DEF RecoveryInv
<1>4. ctxDone' \in BOOLEAN /\ faults'.count \in Nat
  BY <1>1 DEF RecoveryInv, PlaceInv, ControlType
<1> QED BY <1>1, <1>3, <1>4, SamePlace DEF RecoveryInv

LEMMA SignalsKeep ==
  RecoveryInv /\ (UserCancel \/ CancelArrives \/ Shutdown \/ UNCHANGED vars) => RecoveryInv'
<1> SUFFICES ASSUME RecoveryInv, UserCancel \/ CancelArrives \/ Shutdown \/ UNCHANGED vars
             PROVE  RecoveryInv'
  OBVIOUS
<1>1. UNCHANGED <<rec, asst, results, child, ran, iter, cur, value, left, pc, mem, faults>>
      /\ ctxDone' \in {ctxDone, TRUE}
  BY DEF UserCancel, CancelArrives, Shutdown, vars, durable, loop, bounds
<1>2. ctxDone' \in BOOLEAN /\ faults'.count \in Nat
  BY <1>1 DEF RecoveryInv, PlaceInv, ControlType
<1>3. DurableInv'
  BY <1>1, JournalKept DEF RecoveryInv
<1> QED BY <1>1, <1>2, <1>3, SamePlace DEF RecoveryInv

LEMMA RestartsKeep == RecoveryInv /\ (Exit \/ Crash \/ Restart) => RecoveryInv'
<1> SUFFICES ASSUME RecoveryInv, Exit \/ Crash \/ Restart PROVE RecoveryInv'
  OBVIOUS
<1>1. UNCHANGED <<rec, asst, results, child, ran, faults>> /\ mem' \in {mem, None}
      /\ pc' \in {"down", "claim", "scan"}
  BY DEF Exit, Crash, Restart, Lose, durable, bounds, Goto
<1>2. iter' \in Nat /\ cur' \in Nat /\ value' \in Value /\ ctxDone' \in BOOLEAN
  <2>1. iter' \in {iter, 0} /\ cur' \in {cur, 0} /\ value' \in {value, None}
        /\ (ctxDone' = ctxDone \/ ctxDone' = FALSE)
    BY DEF Exit, Crash, Restart, Lose
  <2>2. None \in Value /\ iter \in Nat /\ cur \in Nat /\ value \in Value /\ ctxDone \in BOOLEAN
    BY DEF Value, RecoveryInv, PlaceInv, ControlType
  <2>3. ctxDone' \in BOOLEAN
    BY <2>1, <2>2, Zenon
  <2> QED BY <2>1, <2>2, <2>3
<1>3. DurableInv'
  BY <1>1, JournalKept DEF RecoveryInv
<1>4. ControlType'
  BY <1>1, <1>2 DEF RecoveryInv, PlaceInv, ControlType, LivePC, RecoveryPC
<1> QED BY <1>1, <1>3, <1>4, FarPlace DEF RecoveryInv, LoopPC, AppendPC

LEMMA StepKeeps == RecoveryInv /\ [Next]_vars => RecoveryInv'
<1> SUFFICES ASSUME RecoveryInv, [Next]_vars PROVE RecoveryInv'
  OBVIOUS
<1>1. CASE LiveStep
  BY <1>1, ClaimTaskKeeps, BeginExecutionKeeps, AppendInputKeeps, ProviderPendingKeeps,
     CallModelKeeps, AssistantPersistedKeeps, ToolsPendingKeeps, ParallelBodyKeeps,
     ParallelDoneKeeps, InvokeToolKeeps, SpawnChildKeeps, ExternalAdmittedKeeps, AwaitChildKeeps,
     AppendResultKeeps, ToolConfirmedKeeps, LoopEndsKeeps, FinishTurnKeeps, SettleTaskKeeps,
     AcknowledgeTaskKeeps DEF LiveStep
<1>2. CASE RecoveryStep
  BY <1>2, ScanKeeps, ResumeTurnKeeps, AwaitRecoveredKeeps, AppendRecoveredKeeps,
     ConfirmRecoveredKeeps, InterruptTurnKeeps DEF RecoveryStep
<1>3. CASE EnvStep \/ Quiet \/ UNCHANGED vars
  BY <1>3, ChildEndsKeeps, SignalsKeep, RestartsKeep DEF EnvStep, Quiet
<1> QED BY <1>1, <1>2, <1>3 DEF Next

LEMMA DurableKeepsCalls == DurableInv => CallsKept
<1> SUFFICES ASSUME DurableInv PROVE CallsKept
  OBVIOUS
<1>1. StartedIsOnRecord
  BY DEF StartedIsOnRecord, DurableInv, DurableType, CallsInv, Touched
<1>2. ChildIsOnRecord
  <2> SUFFICES ASSUME NEW c \in DOMAIN child, ~ Answered(c)
               PROVE  /\ OnRecord(c)
                      /\ \A k \in DOMAIN rec.batch.calls :
                           rec.batch.calls[k].id = c /\ rec.batch.calls[k].outcome = "admitted"
                             => rec.batch.calls[k].external = c
    BY DEF ChildIsOnRecord
  <2>1. OnRecord(c)
    BY DEF DurableInv, DurableType, CallsInv, Touched
  <2>2. GoodBatch(rec.batch) /\ rec.batch # None
    BY <2>1 DEF OnRecord, DurableInv, RecordInv
  <2> QED BY <2>1, <2>2 DEF GoodBatch
<1>3. ConfirmedIsDurable
  BY DEF ConfirmedIsDurable, CallsWith, DurableInv, DurableType, RecordInv, GoodBatch
<1> QED BY <1>1, <1>2, <1>3 DEF CallsKept, DurableInv, CallsInv

(***************************************************************************)
(* toolsPending, toolConfirmed and resolveRecoveredExternalTool, across any*)
(* number of crashes, restarts, failed writes and lost replies: a call     *)
(* whose body started, or whose child was admitted, is answered or on      *)
(* record; a confirmed result is in the transcript; no call has two.       *)
(***************************************************************************)
THEOREM CallsSurviveCrashes == Spec => []CallsKept
<1>1. RecoveryInv => CallsKept
  BY DurableKeepsCalls DEF RecoveryInv
<1> QED BY <1>1, InitHolds, StepKeeps, PTL DEF Spec

-----------------------------------------------------------------------------
(* The outcome.  As long as no update was applied and yet reported as      *)
(* failed, the record says completed or failed only of a task the host has *)
(* in that state: the intent is written first, and closed only where the   *)
(* host was seen to have the same outcome.                                 *)

TaskStatus == {"queued", "running", "completed", "failed", "cancelled"}
Working == LoopPC \cup {"return", "finish"}

OutcomePlace ==
  /\ task = "queued" => rec = None /\ pc \in {"claim", "idle", "down"}
  /\ pc \in {"claim", "create"} => rec = None
  /\ pc \in Working => rec # None /\ rec.phase \in WorkPhase
  /\ pc = "settle" /\ rec # None =>
       /\ rec.phase = "completing" => err = "none"
       /\ rec.phase = "failing" => err # "none"
  /\ pc = "ack" /\ rec # None =>
       /\ rec.phase = "completing" => task = "completed"
       /\ rec.phase = "failing" => task = "failed"
  /\ pc = "decide" /\ info \in {"completed", "failed", "cancelled"} => task = info

OutcomeInv ==
  /\ task \in TaskStatus
  /\ faults.lost \/ (OutcomeMatchesTask /\ OutcomePlace)

LEMMA FailingKeepsLost ==
  ASSUME NEW lost \in BOOLEAN, Failing(lost)
  PROVE  (faults.lost => faults'.lost) /\ (lost => faults'.lost)
<1>1. faults' = [count |-> faults.count + 1, lost |-> faults.lost \/ lost]
  BY DEF Failing
<1>2. faults'.lost = (faults.lost \/ lost)
  BY <1>1
<1> QED BY <1>2, Zenon

LEMMA FaultKeepsLost ==
  ASSUME Fault \/ UNCHANGED faults
  PROVE  faults.lost => faults'.lost
BY FailingKeepsLost DEF Fault

LEMMA NotWrittenLoses ==
  ASSUME NEW r, NEW b, NotWritten(r, b)
  PROVE  (faults.lost => faults'.lost) /\ (faults'.lost \/ rec' = rec)
<1>1. CASE (Fault \/ UNCHANGED faults) /\ rec' = rec
  BY <1>1, FaultKeepsLost
<1>2. CASE Failing(TRUE)
  BY <1>2, FailingKeepsLost
<1> QED BY <1>1, <1>2 DEF NotWritten

\* The turn works on.
LEMMA WorkGoesOn ==
  ASSUME OutcomeInv, pc \in Working, pc' \in Working, task' = task,
         faults.lost => faults'.lost,
         faults'.lost \/ rec' = rec \/ (rec' # None /\ rec'.phase \in WorkPhase)
  PROVE  OutcomeInv'
<1>1. CASE faults'.lost
  BY <1>1 DEF OutcomeInv
<1>2. CASE ~ faults'.lost
  <2>1. OutcomeMatchesTask /\ OutcomePlace
    BY <1>2 DEF OutcomeInv
  <2>2. rec' # None /\ rec'.phase \in WorkPhase
    BY <1>2, <2>1 DEF OutcomePlace
  <2>3. OutcomeMatchesTask'
    BY <2>2 DEF OutcomeMatchesTask, WorkPhase
  <2>4. OutcomePlace'
    BY <2>1, <2>2 DEF OutcomePlace, Working, LoopPC, AppendPC
  <2> QED BY <2>3, <2>4 DEF OutcomeInv
<1> QED BY <1>1, <1>2

LEMMA CheckpointWorksOn ==
  ASSUME RecoveryInv, OutcomeInv, UNCHANGED <<task, asst, results, child, ran>>,
         NEW r \in Record, GoodBatch(r.batch), r.phase \in WorkPhase,
         NEW p \in Working, NEW e, NEW q \in Working, Checkpoint(r, p, e, q), pc \in Working
  PROVE  OutcomeInv'
<1>1. CASE Written(r) /\ Goto(p)
  BY <1>1, Updated, WorkGoesOn DEF Goto, RecoveryInv
<1>2. CASE NotWritten(r, TRUE) /\ Fail(e, q)
  <2>1. (faults.lost => faults'.lost) /\ (faults'.lost \/ rec' = rec)
    BY <1>2, NotWrittenLoses
  <2> QED BY <1>2, <2>1, WorkGoesOn DEF Fail, Goto
<1> QED BY <1>1, <1>2 DEF Checkpoint

\* The steps of the loop that leave the record alone.
LEMMA QuietWork ==
  RecoveryInv /\ OutcomeInv
  /\ (AppendInput \/ CallModel \/ ParallelBody \/ ParallelDone \/ DenyTool \/ InvokeTool
      \/ SpawnChild \/ AwaitChild \/ AppendResult \/ Finalize \/ LoopFailed
      \/ AwaitRecovered \/ AppendRecovered)
  => OutcomeInv'
<1> SUFFICES ASSUME OutcomeInv,
                    AppendInput \/ CallModel \/ ParallelBody \/ ParallelDone \/ DenyTool
                    \/ InvokeTool \/ SpawnChild \/ AwaitChild \/ AppendResult \/ Finalize
                    \/ LoopFailed \/ AwaitRecovered \/ AppendRecovered
             PROVE  OutcomeInv'
  OBVIOUS
<1>1. /\ UNCHANGED <<task, rec>> /\ pc \in Working /\ pc' \in Working
      /\ Fault \/ UNCHANGED faults
  <2> USE DEF Goto, Fail, durable, bounds, Working, LoopPC, AppendPC
  <2>1. CASE AppendInput \/ CallModel \/ ParallelBody \/ ParallelDone \/ DenyTool
    BY <2>1 DEF AppendInput, CallModel, ParallelBody, ParallelDone, DenyTool
  <2>2. CASE InvokeTool \/ SpawnChild \/ AwaitChild \/ AppendResult
    BY <2>2 DEF InvokeTool, SpawnChild, AwaitChild, AppendResult
  <2>3. CASE Finalize \/ LoopFailed \/ AwaitRecovered \/ AppendRecovered
    BY <2>3 DEF Finalize, LoopFailed, AwaitRecovered, AppendRecovered
  <2> QED BY <2>1, <2>2, <2>3
<1> QED BY <1>1, FaultKeepsLost, WorkGoesOn

LEMMA HeldRecord ==
  ASSUME RecoveryInv, pc \in LoopPC
  PROVE  /\ mem = rec /\ mem # None /\ mem \in Record /\ GoodBatch(mem.batch)
         /\ mem.phase \in Phase /\ mem.batch \in Batch \cup {None}
         /\ iter \in Nat /\ faults.count \in Nat
<1>1. mem = rec /\ mem # None /\ mem \in Record /\ GoodBatch(mem.batch)
      /\ iter \in Nat /\ faults.count \in Nat
  BY DEF RecoveryInv, PlaceInv, HeldInv, ControlType, DurableInv, RecordInv
<1> QED BY <1>1, RecordFields

LEMMA CheckpointWork ==
  RecoveryInv /\ OutcomeInv /\ (ProviderPending \/ ExternalAdmitted \/ ConfirmRecovered) => OutcomeInv'
<1> SUFFICES ASSUME RecoveryInv, OutcomeInv,
                    ProviderPending \/ ExternalAdmitted \/ ConfirmRecovered
             PROVE  OutcomeInv'
  OBVIOUS
<1> USE DEF Working, LoopPC, AppendPC
<1>1. CASE ProviderPending
  <2> PICK r : r = SameBatch("provider_pending", iter)
    OBVIOUS
  <2>1. UNCHANGED <<task, asst, results, child, ran>> /\ pc = "provider"
        /\ Checkpoint(r, "model", "error", "return")
    BY <1>1 DEF ProviderPending, SameBatch
  <2>2. /\ mem \in Record /\ GoodBatch(mem.batch) /\ mem.batch \in Batch \cup {None} /\ iter \in Nat
        /\ "provider_pending" \in Phase /\ "provider_pending" \in WorkPhase
    BY <2>1, HeldRecord DEF Phase, WorkPhase
  <2>3. r \in Record /\ r.batch = mem.batch /\ r.phase \in WorkPhase
    BY <2>2, RecordUpdate
  <2> QED BY <2>1, <2>2, <2>3, CheckpointWorksOn
<1>2. CASE ExternalAdmitted
  <2> PICK x : x = [id |-> Call(cur), outcome |-> "admitted", external |-> Call(cur), result |-> None]
    OBVIOUS
  <2> PICK r : r = SameIteration("waiting_external_child", WithCall(1, x))
    OBVIOUS
  <2>1. UNCHANGED <<task, asst, results, child, ran>> /\ pc = "admitted"
        /\ Checkpoint(r, "await", "uncertain", "return")
    BY <1>2 DEF ExternalAdmitted, SameIteration
  <2>2. Call(cur) \in DOMAIN child
    BY <2>1 DEF RecoveryInv, PlaceInv, LivePlace
  <2>3. r \in Record /\ GoodBatch(r.batch) /\ r.phase \in WorkPhase
    BY <2>1, <2>2, CallOnRecord, AdmittedRecord DEF WorkPhase
  <2> QED BY <2>1, <2>3, CheckpointWorksOn
<1>3. CASE ConfirmRecovered
  <2> DEFINE r == Confirmed(RecoveredCall, value)
             e == IF ctxDone THEN "canceled" ELSE "error"
  <2>1. UNCHANGED <<task, asst, results, child, ran>> /\ pc = "confirm_recovered"
        /\ Checkpoint(r, "provider", e, "finish")
    BY <1>3 DEF ConfirmRecovered
  <2>2. \E j \in DOMAIN results : results[j] = [call |-> RecoveredCall, value |-> value]
    BY <2>1 DEF RecoveryInv, PlaceInv, RecoveredPlace
  <2>3. r \in Record /\ GoodBatch(r.batch) /\ r.phase \in WorkPhase
    BY <2>1, <2>2, RecoveredOnRecord, ConfirmedRecord DEF RecoveredCall
  <2> HIDE DEF r, e
  <2> QED BY <2>1, <2>3, CheckpointWorksOn
<1> QED BY <1>1, <1>2, <1>3

LEMMA PersistedWork == RecoveryInv /\ OutcomeInv /\ AssistantPersisted => OutcomeInv'
<1> SUFFICES ASSUME RecoveryInv, OutcomeInv, AssistantPersisted PROVE OutcomeInv'
  OBVIOUS
<1> PICK r : r = OtherIteration(iter)
  OBVIOUS
<1>1. UNCHANGED <<task, asst, results, child, ran>> /\ pc = "persisted"
      /\ pc' \in {"return", "finalize", "pending"}
      /\ (Written(r) \/ NotWritten(r, TRUE))
  BY DEF AssistantPersisted, OtherIteration, Goto, Fail
<1>2. pc \in Working /\ pc' \in Working
  BY <1>1 DEF Working, LoopPC
<1>3. r \in Record /\ GoodBatch(r.batch) /\ r.phase = rec.phase
  BY <1>1, HeldRecord, RecordUpdate DEF LoopPC
<1>4. faults.lost \/ rec.phase \in WorkPhase
  BY <1>2 DEF OutcomeInv, OutcomePlace
<1>5. CASE Written(r)
  <2>1. rec' # None /\ rec'.phase = rec.phase /\ UNCHANGED faults
    BY <1>1, <1>3, <1>5, Updated DEF RecoveryInv
  <2> QED BY <1>1, <1>2, <1>4, <2>1, WorkGoesOn
<1>6. CASE NotWritten(r, TRUE)
  BY <1>1, <1>2, <1>6, NotWrittenLoses, WorkGoesOn
<1> QED BY <1>1, <1>5, <1>6

LEMMA PendingWork == RecoveryInv /\ OutcomeInv /\ ToolsPending => OutcomeInv'
<1> SUFFICES ASSUME RecoveryInv, OutcomeInv, ToolsPending PROVE OutcomeInv'
  OBVIOUS
<1> USE DEF Working, LoopPC, AppendPC
<1> DEFINE b == [assistant |-> n, calls |-> Checkpointed]
           next == IF ParallelSafe THEN "bodies" ELSE "call"
<1> PICK r, s : r = SameBatch("provider_pending", iter) /\ s = NextRecord("tool_pending", iter, b)
  OBVIOUS
<1>1. UNCHANGED <<task, asst, results, child, ran>> /\ pc = "pending" /\ next \in Working
      /\ \/ Checkpoint(r, "pending", "error", "return")
         \/ Checkpoint(s, next, "error", "return")
  BY DEF ToolsPending, SameBatch, NextRecord
<1>2. r \in Record /\ GoodBatch(r.batch) /\ r.phase \in WorkPhase
  BY <1>1, HeldRecord, RecordUpdate DEF Phase, WorkPhase
<1>3. b \in Batch /\ GoodBatch(b)
  <2>1. AtCall /\ cur \in Nat /\ n > 0
    BY <1>1 DEF RecoveryInv, PlaceInv, LivePlace, ControlType, AtCall
  <2>2. n \in Nat
    BY <2>1, CallsAtHand DEF RecoveryInv, DurableInv
  <2>3. /\ Checkpointed \in Seq(CallRecord)
        /\ \A k \in DOMAIN Checkpointed :
             Checkpointed[k].outcome = "requested" /\ Checkpointed[k].id[1] = n
    BY <2>1, CheckpointedCalls DEF RecoveryInv, DurableInv
  <2> QED BY <2>2, <2>3, RequestedBatch
<1> HIDE DEF b, next
<1>4. s \in Record /\ GoodBatch(s.batch) /\ s.phase \in WorkPhase
  <2>1. mem \in Record /\ iter \in Nat /\ "tool_pending" \in Phase /\ "tool_pending" \in WorkPhase
    BY <1>1, HeldRecord DEF Phase, WorkPhase
  <2>2. s \in Record /\ s.batch = b /\ s.phase = "tool_pending"
    BY <1>3, <2>1, RecordUpdate
  <2> QED BY <1>3, <2>1, <2>2
<1> QED BY <1>1, <1>2, <1>4, CheckpointWorksOn

LEMMA ConfirmedWork == RecoveryInv /\ OutcomeInv /\ ToolConfirmed => OutcomeInv'
<1> SUFFICES ASSUME RecoveryInv, OutcomeInv, ToolConfirmed PROVE OutcomeInv'
  OBVIOUS
<1> USE DEF Working, LoopPC, AppendPC
<1> DEFINE c == Call(cur)
           next == CASE cur = Len(Calls) -> "provider"
                     [] cur # Len(Calls) /\ ParallelSafe -> "append"
                     [] OTHER -> "pending"
           r == Confirmed(c, value)
<1>1. UNCHANGED <<task, asst, results, child, ran>> /\ pc = "confirm" /\ next \in Working
      /\ Checkpoint(r, next, "error", "return")
  BY DEF ToolConfirmed
<1>2. /\ OnRecord(c) /\ cur \in Nat /\ value \in Value /\ n > 0
      /\ \E j \in DOMAIN results : results[j] = [call |-> c, value |-> value]
  BY <1>1 DEF RecoveryInv, PlaceInv, LivePlace, ControlType, AtCall
<1>3. c \in CallRef
  BY <1>2, CallsAtHand DEF RecoveryInv, DurableInv
<1>4. mem.batch # None /\ \E k \in DOMAIN mem.batch.calls : mem.batch.calls[k].id = c
  BY <1>1, <1>2, HeldRecord DEF OnRecord
<1>5. r \in Record /\ GoodBatch(r.batch) /\ r.phase \in WorkPhase
  BY <1>1, <1>2, <1>3, <1>4, HeldRecord, ConfirmedRecord
<1> HIDE DEF r, next
<1> QED BY <1>1, <1>5, CheckpointWorksOn

\* The task of a record that says completed, or failed, is over and stays so.
LEMMA TaskMoves ==
  ASSUME task \in TaskStatus, OutcomeMatchesTask, rec' = rec, NEW s \in {"running", "completed", "failed"},
         HostMoved(s) \/ HostNotMoved(s)
  PROVE  /\ task' \in TaskStatus /\ OutcomeMatchesTask' /\ (faults.lost => faults'.lost)
         /\ (task' = "queued" => task = "queued")
         /\ (HostMoved(s) => task' = s)
         /\ (task \in {"completed", "failed", "cancelled"} => task' = task)
<1>1. Fault \/ UNCHANGED faults
  BY DEF HostMoved, HostNotMoved
<1>2. task' = task \/ ((TaskActive \/ task = s) /\ task' = s)
  BY DEF HostMoved, HostNotMoved
<1>3. task' \in TaskStatus /\ OutcomeMatchesTask'
  BY <1>2 DEF TaskStatus, TaskActive, OutcomeMatchesTask
<1>4. HostMoved(s) => task' = s
  BY DEF HostMoved
<1> QED BY <1>1, <1>2, <1>3, <1>4, FaultKeepsLost DEF TaskStatus, TaskActive

LEMMA ClaimOutcome == OutcomeInv /\ ClaimTask => OutcomeInv'
<1> SUFFICES ASSUME OutcomeInv, ClaimTask PROVE OutcomeInv'
  OBVIOUS
<1>1. /\ rec' = rec /\ pc = "claim"
      /\ \/ HostMoved("running") /\ pc' = "create"
         \/ HostNotMoved("running") /\ pc' = "idle"
  BY DEF ClaimTask, Goto
<1>2. task \in TaskStatus
  BY DEF OutcomeInv
<1>3. Fault \/ UNCHANGED faults
  BY <1>1 DEF HostMoved, HostNotMoved
<1>4. task' \in TaskStatus
  BY <1>1, <1>2 DEF HostMoved, HostNotMoved, TaskStatus
<1>5. CASE faults.lost
  BY <1>3, <1>4, <1>5, FaultKeepsLost DEF OutcomeInv
<1>6. CASE ~ faults.lost
  <2>1. OutcomeMatchesTask /\ OutcomePlace /\ rec = None
    BY <1>1, <1>6 DEF OutcomeInv, OutcomePlace
  <2>2. OutcomeMatchesTask' /\ (HostMoved("running") => task' = "running")
    BY <1>1, <1>2, <2>1, TaskMoves
  <2>3. OutcomePlace'
    BY <1>1, <2>1, <2>2 DEF OutcomePlace, Working, LoopPC, AppendPC
  <2> QED BY <1>4, <2>2, <2>3 DEF OutcomeInv
<1> QED BY <1>5, <1>6

LEMMA BeginOutcome == OutcomeInv /\ BeginExecution => OutcomeInv'
<1> SUFFICES ASSUME OutcomeInv, BeginExecution PROVE OutcomeInv'
  OBVIOUS
<1>1. /\ task' = task /\ pc = "create" /\ (Fault \/ UNCHANGED faults)
      /\ \/ rec' = PreparedRecord /\ pc' \in {"input", "settle"}
         \/ rec' = rec /\ pc' = "settle"
  BY DEF BeginExecution, Goto, Fail
<1>2. CASE faults.lost
  BY <1>1, <1>2, FaultKeepsLost DEF OutcomeInv
<1>3. CASE ~ faults.lost
  <2>1. OutcomeMatchesTask /\ OutcomePlace /\ rec = None /\ task # "queued" /\ task \in TaskStatus
    BY <1>1, <1>3 DEF OutcomeInv, OutcomePlace
  <2>2. PreparedRecord.phase = "prepared" /\ (rec' = PreparedRecord => rec' # None)
    <3>1. PreparedRecord \in Record
      BY DEF PreparedRecord, Record, Phase, WorkPhase
    <3> QED BY <3>1 DEF PreparedRecord
  <2>3. rec' # None => rec'.phase = "prepared"
    BY <1>1, <2>1, <2>2
  <2>4. OutcomeMatchesTask'
    BY <2>3 DEF OutcomeMatchesTask
  <2>5. OutcomePlace'
    BY <1>1, <2>1, <2>2, <2>3 DEF OutcomePlace, Working, LoopPC, AppendPC, WorkPhase
  <2> QED BY <1>1, <2>1, <2>4, <2>5 DEF OutcomeInv
<1> QED BY <1>2, <1>3

LEMMA FinishOutcome == RecoveryInv /\ OutcomeInv /\ FinishTurn => OutcomeInv'
<1> SUFFICES ASSUME RecoveryInv, OutcomeInv, FinishTurn PROVE OutcomeInv'
  OBVIOUS
<1>1. UNCHANGED <<task, asst, results, child, ran>> /\ pc = "finish" /\ pc' = "settle"
      /\ \/ Written(Finished) /\ err' = err
         \/ NotWritten(Finished, FALSE)
  BY DEF FinishTurn, Goto
<1>2. mem \in Record /\ GoodBatch(mem.batch)
  BY <1>1 DEF RecoveryInv, PlaceInv, HeldInv, DurableInv, RecordInv
<1>3. /\ Finished \in Record /\ GoodBatch(Finished.batch)
      /\ Finished.phase \in PendingPhase \cup {"interrupted"}
      /\ (err = "none" => Finished.phase = "completing")
      /\ (err # "none" => Finished.phase # "completing")
  BY <1>2, FinishedRecord
<1>4. (faults.lost => faults'.lost)
      /\ (faults'.lost \/ rec' = rec \/ (rec' # None /\ rec'.phase = Finished.phase /\ err' = err))
  <2>1. CASE Written(Finished) /\ err' = err
    BY <1>1, <1>3, <2>1, Updated DEF RecoveryInv
  <2>2. CASE NotWritten(Finished, FALSE)
    BY <2>2, NotWrittenLoses
  <2> QED BY <1>1, <2>1, <2>2
<1>5. CASE faults'.lost
  BY <1>1, <1>5 DEF OutcomeInv
<1>6. CASE ~ faults'.lost
  <2>1. OutcomeMatchesTask /\ OutcomePlace /\ rec # None /\ rec.phase \in WorkPhase /\ task # "queued"
    BY <1>1, <1>4, <1>6 DEF OutcomeInv, OutcomePlace, Working
  <2>2. rec'.phase \notin {"completed", "failed"}
    BY <1>3, <1>4, <1>6, <2>1 DEF WorkPhase, PendingPhase
  <2>3. (rec'.phase = "completing" => err' = "none") /\ (rec'.phase = "failing" => err' # "none")
    BY <1>3, <1>4, <1>6, <2>1 DEF WorkPhase
  <2>4. OutcomeMatchesTask'
    BY <2>2 DEF OutcomeMatchesTask
  <2>5. OutcomePlace'
    BY <1>1, <2>1, <2>3 DEF OutcomePlace, Working, LoopPC, AppendPC
  <2> QED BY <1>1, <2>4, <2>5 DEF OutcomeInv
<1> QED BY <1>5, <1>6

LEMMA SettleOutcome == OutcomeInv /\ SettleTask => OutcomeInv'
<1> SUFFICES ASSUME OutcomeInv, SettleTask PROVE OutcomeInv'
  OBVIOUS
<1> DEFINE s == IF err = "none" THEN "completed" ELSE "failed"
<1>1. /\ rec' = rec /\ pc = "settle" /\ err' = err
      /\ \/ UNCHANGED <<task, faults>> /\ pc' = "idle"
         \/ HostMoved(s) /\ pc' \in {"ack", "interrupt"}
         \/ HostNotMoved(s) /\ pc' = "idle"
  BY DEF SettleTask, Goto
<1>2. task \in TaskStatus /\ s \in {"running", "completed", "failed"}
  BY DEF OutcomeInv
<1>3. Fault \/ UNCHANGED faults
  BY <1>1 DEF HostMoved, HostNotMoved
<1>4. task' \in TaskStatus
  BY <1>1, <1>2 DEF HostMoved, HostNotMoved, TaskStatus
<1>5. CASE faults.lost
  BY <1>3, <1>4, <1>5, FaultKeepsLost DEF OutcomeInv
<1>6. CASE ~ faults.lost
  <2>1. OutcomeMatchesTask /\ OutcomePlace /\ task # "queued"
    BY <1>1, <1>6 DEF OutcomeInv, OutcomePlace
  <2>2. OutcomeMatchesTask' /\ task' # "queued" /\ (HostMoved(s) => task' = s)
    <3>1. CASE UNCHANGED <<task, faults>> /\ pc' = "idle"
      BY <1>1, <2>1, <3>1 DEF OutcomeMatchesTask, HostMoved
    <3>2. CASE HostMoved(s) \/ HostNotMoved(s)
      BY <1>1, <1>2, <2>1, <3>2, TaskMoves
    <3> QED BY <1>1, <3>1, <3>2
  <2>3. OutcomePlace'
    BY <1>1, <2>1, <2>2 DEF OutcomePlace, Working, LoopPC, AppendPC
  <2> QED BY <1>4, <2>2, <2>3 DEF OutcomeInv
<1> QED BY <1>5, <1>6

LEMMA AcknowledgeOutcome == RecoveryInv /\ OutcomeInv /\ AcknowledgeTask => OutcomeInv'
<1> SUFFICES ASSUME RecoveryInv, OutcomeInv, AcknowledgeTask PROVE OutcomeInv'
  OBVIOUS
<1> PICK r : r = [rec EXCEPT !.phase = AcknowledgedPhase(rec.phase)]
  OBVIOUS
<1>1. UNCHANGED <<task, asst, results, child, ran>> /\ pc = "ack" /\ pc' = "idle"
      /\ \/ rec # None /\ PendingTerminal(rec) /\ (Written(r) \/ NotWritten(r, FALSE))
         \/ UNCHANGED <<rec, faults>>
  BY DEF AcknowledgeTask, Goto
<1>2. (faults.lost => faults'.lost)
      /\ (faults'.lost \/ rec' = rec
          \/ (rec # None /\ PendingTerminal(rec) /\ rec' # None /\ rec'.phase = AcknowledgedPhase(rec.phase)))
  <2>1. CASE rec # None /\ PendingTerminal(rec) /\ Written(r)
    <3>1. rec \in Record /\ GoodBatch(rec.batch)
      BY <2>1 DEF RecoveryInv, DurableInv, DurableType, RecordInv
    <3>2. r \in Record /\ GoodBatch(r.batch) /\ r.phase = AcknowledgedPhase(rec.phase)
      BY <2>1, <3>1, AcknowledgedRecord
    <3> QED BY <1>1, <2>1, <3>2, Updated DEF RecoveryInv
  <2>2. CASE NotWritten(r, FALSE)
    BY <2>2, NotWrittenLoses
  <2> QED BY <1>1, <2>1, <2>2
<1>3. CASE faults'.lost
  BY <1>1, <1>3 DEF OutcomeInv
<1>4. CASE ~ faults'.lost
  <2>1. OutcomeMatchesTask /\ OutcomePlace
    BY <1>2, <1>4 DEF OutcomeInv
  <2>2. OutcomeMatchesTask'
    <3>1. CASE rec' = rec
      BY <1>1, <2>1, <3>1 DEF OutcomeMatchesTask
    <3>2. CASE rec # None /\ PendingTerminal(rec) /\ rec'.phase = AcknowledgedPhase(rec.phase)
      BY <1>1, <2>1, <3>2
         DEF OutcomeMatchesTask, OutcomePlace, PendingTerminal, PendingPhase, AcknowledgedPhase
    <3> QED BY <1>2, <1>4, <3>1, <3>2
  <2>3. task # "queued"
    BY <1>1, <2>1 DEF OutcomePlace
  <2>4. OutcomePlace'
    BY <1>1, <2>3 DEF OutcomePlace, Working, LoopPC, AppendPC
  <2> QED BY <1>1, <2>2, <2>4 DEF OutcomeInv
<1> QED BY <1>3, <1>4

\* A step of recovery that writes at most an interruption, or nothing.
LEMMA InterruptedOutcome ==
  ASSUME OutcomeInv, task' = task, task # "queued" \/ rec # None,
         pc' \notin Working \cup {"claim", "create", "ack", "decide"},
         faults.lost => faults'.lost,
         faults'.lost \/ rec' = rec
           \/ (rec' # None /\ rec'.phase \in {"interrupting", "interrupted"}),
         pc' = "settle" /\ rec # None => ~ PendingTerminal(rec)
  PROVE  OutcomeInv'
<1>1. CASE faults'.lost
  BY <1>1 DEF OutcomeInv
<1>2. CASE ~ faults'.lost
  <2>1. OutcomeMatchesTask /\ OutcomePlace
    BY <1>2 DEF OutcomeInv
  <2>2. OutcomeMatchesTask'
    BY <1>2, <2>1 DEF OutcomeMatchesTask
  <2>3. task # "queued"
    BY <2>1 DEF OutcomePlace
  <2>4. pc' = "settle" /\ rec' # None => rec'.phase \notin {"completing", "failing"}
    BY <1>2 DEF PendingTerminal, PendingPhase
  <2>5. OutcomePlace'
    BY <2>3, <2>4 DEF OutcomePlace
  <2> QED BY <2>2, <2>5 DEF OutcomeInv
<1> QED BY <1>1, <1>2

LEMMA LookupOutcome == OutcomeInv /\ LookupTask => OutcomeInv'
<1> SUFFICES ASSUME OutcomeInv, LookupTask PROVE OutcomeInv'
  OBVIOUS
<1>1. UNCHANGED <<task, rec>> /\ pc = "scan" /\ (Fault \/ UNCHANGED faults)
      /\ \/ pc' = "decide" /\ info' = task
         \/ pc' = "idle"
  BY DEF LookupTask, durable, Goto
<1>2. CASE faults.lost
  BY <1>1, <1>2, FaultKeepsLost DEF OutcomeInv
<1>3. CASE ~ faults.lost
  <2>1. OutcomeMatchesTask /\ OutcomePlace
    BY <1>3 DEF OutcomeInv
  <2>2. OutcomePlace' /\ OutcomeMatchesTask'
    BY <1>1, <2>1 DEF OutcomePlace, OutcomeMatchesTask, Working, LoopPC, AppendPC
  <2> QED BY <1>1, <2>2 DEF OutcomeInv
<1> QED BY <1>2, <1>3

LEMMA ReconcileOutcome == OutcomeInv /\ ReconcilePending => OutcomeInv'
<1> SUFFICES ASSUME OutcomeInv, ReconcilePending PROVE OutcomeInv'
  OBVIOUS
<1> DEFINE desired == IF rec.phase = "completing" THEN "completed" ELSE "failed"
<1>1. /\ rec' = rec /\ pc = "decide" /\ PendingTerminal(rec)
      /\ \/ info = desired /\ pc' = "ack" /\ UNCHANGED <<task, faults>>
         \/ pc' = "interrupt" /\ UNCHANGED <<task, faults>>
         \/ HostMoved(desired) /\ pc' = "ack"
         \/ HostNotMoved(desired) /\ pc' = "idle"
  BY DEF ReconcilePending, Goto
<1>2. task \in TaskStatus /\ desired \in {"running", "completed", "failed"}
  BY DEF OutcomeInv
<1>3. Fault \/ UNCHANGED faults
  BY <1>1 DEF HostMoved, HostNotMoved
<1>4. task' \in TaskStatus
  BY <1>1, <1>2 DEF HostMoved, HostNotMoved, TaskStatus
<1>5. CASE faults.lost
  BY <1>3, <1>4, <1>5, FaultKeepsLost DEF OutcomeInv
<1>6. CASE ~ faults.lost
  <2>1. OutcomeMatchesTask /\ OutcomePlace /\ task # "queued"
    BY <1>1, <1>6 DEF OutcomeInv, OutcomePlace
  <2>2. OutcomeMatchesTask' /\ task' # "queued" /\ (pc' = "ack" => task' = desired)
    <3>1. CASE info = desired /\ pc' = "ack" /\ UNCHANGED <<task, faults>>
      BY <1>1, <2>1, <3>1 DEF OutcomeMatchesTask, OutcomePlace
    <3>2. CASE pc' = "interrupt" /\ UNCHANGED <<task, faults>>
      BY <1>1, <2>1, <3>2 DEF OutcomeMatchesTask
    <3>3. CASE \/ HostMoved(desired) /\ pc' = "ack"
               \/ HostNotMoved(desired) /\ pc' = "idle"
      BY <1>1, <1>2, <2>1, <3>3, TaskMoves
    <3> QED BY <1>1, <3>1, <3>2, <3>3
  <2>3. OutcomePlace'
    BY <1>1, <2>1, <2>2 DEF OutcomePlace, Working, LoopPC, AppendPC
  <2> QED BY <1>4, <2>2, <2>3 DEF OutcomeInv
<1> QED BY <1>5, <1>6

LEMMA CloseOutcome == RecoveryInv /\ OutcomeInv /\ CloseUnrecoverable => OutcomeInv'
<1> SUFFICES ASSUME RecoveryInv, OutcomeInv, CloseUnrecoverable PROVE OutcomeInv'
  OBVIOUS
<1>1. UNCHANGED <<task, rec>> /\ pc = "decide" /\ ~ PendingTerminal(rec)
      /\ pc' \in {"interrupt", "settle"} /\ (Fault \/ UNCHANGED faults)
  BY DEF CloseUnrecoverable, durable, Goto, Fail
<1>2. rec # None
  BY <1>1 DEF RecoveryInv, PlaceInv, HeldInv
<1> QED BY <1>1, <1>2, FaultKeepsLost, InterruptedOutcome DEF Working, LoopPC, AppendPC

LEMMA ResumeOutcome == RecoveryInv /\ OutcomeInv /\ ResumeTurn => OutcomeInv'
<1> SUFFICES ASSUME RecoveryInv, OutcomeInv, ResumeTurn PROVE OutcomeInv'
  OBVIOUS
<1> DEFINE r == Interrupted(rec, "interrupting")
<1>1. UNCHANGED <<task, asst, results, child, ran>> /\ pc = "decide" /\ ~ PendingTerminal(rec)
      /\ \/ /\ rec.phase \in ResumePhase /\ UNCHANGED <<rec, faults>>
            /\ pc' \in {"provider", "recover"}
         \/ (Written(r) \/ NotWritten(r, FALSE)) /\ pc' = "settle"
  BY DEF ResumeTurn, Goto, Fail
<1>2. rec # None /\ rec \in Record /\ GoodBatch(rec.batch)
  BY <1>1 DEF RecoveryInv, PlaceInv, HeldInv, DurableInv, DurableType, RecordInv
<1>3. CASE (Written(r) \/ NotWritten(r, FALSE)) /\ pc' = "settle"
  <2>1. r \in Record /\ GoodBatch(r.batch) /\ r.phase = "interrupting"
    BY <1>2, InterruptedRecord DEF Phase, PendingPhase
  <2> HIDE DEF r
  <2>2. (faults.lost => faults'.lost)
        /\ (faults'.lost \/ rec' = rec \/ (rec' # None /\ rec'.phase = "interrupting"))
    <3>1. CASE Written(r)
      BY <1>1, <2>1, <3>1, Updated DEF RecoveryInv
    <3>2. CASE NotWritten(r, FALSE)
      BY <3>2, NotWrittenLoses
    <3> QED BY <1>3, <3>1, <3>2
  <2> QED BY <1>1, <1>2, <1>3, <2>2, InterruptedOutcome DEF Working, LoopPC, AppendPC
<1>4. CASE /\ rec.phase \in ResumePhase /\ UNCHANGED <<rec, faults>>
           /\ pc' \in {"provider", "recover"}
  <2>1. CASE faults.lost
    BY <1>1, <1>4, <2>1 DEF OutcomeInv
  <2>2. CASE ~ faults.lost
    <3>1. OutcomeMatchesTask /\ OutcomePlace
      BY <2>2 DEF OutcomeInv
    <3>2. OutcomeMatchesTask'
      BY <1>1, <1>4, <3>1 DEF OutcomeMatchesTask
    <3>3. OutcomePlace'
      BY <1>1, <1>2, <1>4, <3>1 DEF OutcomePlace, ResumePhase, WorkPhase
    <3> QED BY <1>1, <3>2, <3>3 DEF OutcomeInv
  <2> QED BY <2>1, <2>2
<1> QED BY <1>1, <1>3, <1>4

LEMMA InterruptOutcome == RecoveryInv /\ OutcomeInv /\ InterruptTurn => OutcomeInv'
<1> SUFFICES ASSUME RecoveryInv, OutcomeInv, InterruptTurn PROVE OutcomeInv'
  OBVIOUS
<1> DEFINE r == Interrupted(rec, "interrupted")
<1>1. UNCHANGED <<task, asst, results, child, ran>> /\ pc = "interrupt" /\ pc' = "idle"
      /\ \/ UNCHANGED <<rec, faults>>
         \/ Written(r)
         \/ \E b : NotWritten(r, b)
  BY DEF InterruptTurn, Goto
<1>2. rec # None => r \in Record /\ GoodBatch(r.batch) /\ r.phase = "interrupted"
  <2>1. rec # None => rec \in Record /\ GoodBatch(rec.batch)
    BY DEF RecoveryInv, DurableInv, DurableType, RecordInv
  <2> QED BY <2>1, InterruptedRecord DEF Phase, TerminalPhase
<1> HIDE DEF r
<1>3. (faults.lost => faults'.lost)
      /\ (faults'.lost \/ rec' = rec \/ (rec' # None /\ rec'.phase = "interrupted"))
  <2>1. CASE Written(r)
    <3>1. rec # None
      BY <2>1 DEF Written, Accepted
    <3> QED BY <1>1, <1>2, <2>1, <3>1, Updated DEF RecoveryInv
  <2>2. CASE \E b : NotWritten(r, b)
    BY <2>2, NotWrittenLoses
  <2> QED BY <1>1, <2>1, <2>2
<1>4. CASE faults.lost
  BY <1>1, <1>3, <1>4 DEF OutcomeInv
<1>5. CASE ~ faults.lost
  <2>1. task # "queued"
    BY <1>1, <1>5 DEF OutcomeInv, OutcomePlace
  <2> QED BY <1>1, <1>3, <2>1, InterruptedOutcome DEF Working, LoopPC, AppendPC
<1> QED BY <1>4, <1>5

LEMMA EnvironmentOutcome == OutcomeInv /\ (EnvStep \/ UNCHANGED vars) => OutcomeInv'
<1> SUFFICES ASSUME OutcomeInv, EnvStep \/ UNCHANGED vars PROVE OutcomeInv'
  OBVIOUS
<1>1. /\ UNCHANGED <<rec, faults>>
      /\ \/ UNCHANGED <<task, pc, err, info>>
         \/ TaskActive /\ task' = "cancelled" /\ UNCHANGED <<pc, err, info>>
         \/ task' = task /\ pc' = "down"
         \/ task' = task /\ pc' = IF task = "queued" THEN "claim" ELSE "scan"
  <2>1. CASE ChildEnds \/ CancelArrives \/ Shutdown \/ UNCHANGED vars
    BY <2>1 DEF ChildEnds, CancelArrives, Shutdown, vars, durable, bounds
  <2>2. CASE UserCancel
    BY <2>2 DEF UserCancel, bounds
  <2>3. CASE Exit \/ Crash
    BY <2>3 DEF Exit, Crash, Lose, durable, bounds
  <2>4. CASE Restart
    BY <2>4 DEF Restart, Goto, durable, bounds
  <2> QED BY <2>1, <2>2, <2>3, <2>4 DEF EnvStep
<1>2. task \in TaskStatus /\ task' \in TaskStatus
  BY <1>1 DEF OutcomeInv, TaskStatus
<1>3. CASE faults.lost
  BY <1>1, <1>2, <1>3 DEF OutcomeInv
<1>4. CASE ~ faults.lost
  <2>1. OutcomeMatchesTask /\ OutcomePlace
    BY <1>4 DEF OutcomeInv
  <2>2. OutcomeMatchesTask'
    BY <1>1, <2>1 DEF OutcomeMatchesTask, TaskActive
  <2>3. OutcomePlace'
    <3>1. CASE UNCHANGED <<task, pc, err, info>>
      BY <1>1, <2>1, <3>1 DEF OutcomePlace
    <3>2. CASE TaskActive /\ task' = "cancelled" /\ UNCHANGED <<pc, err, info>>
      BY <1>1, <2>1, <3>2 DEF OutcomePlace, TaskActive
    <3>3. CASE task' = task /\ pc' = "down"
      BY <1>1, <2>1, <3>3 DEF OutcomePlace, Working, LoopPC, AppendPC
    <3>4. CASE task' = task /\ pc' = IF task = "queued" THEN "claim" ELSE "scan"
      BY <1>1, <2>1, <3>4 DEF OutcomePlace, Working, LoopPC, AppendPC
    <3> QED BY <1>1, <3>1, <3>2, <3>3, <3>4
  <2> QED BY <1>2, <2>2, <2>3 DEF OutcomeInv
<1> QED BY <1>3, <1>4

LEMMA OutcomeStep == RecoveryInv /\ OutcomeInv /\ [Next]_vars => OutcomeInv'
<1> SUFFICES ASSUME RecoveryInv, OutcomeInv, [Next]_vars PROVE OutcomeInv'
  OBVIOUS
<1>1. CASE LiveStep
  BY <1>1, ClaimOutcome, BeginOutcome, QuietWork, CheckpointWork, PersistedWork, PendingWork,
     ConfirmedWork, FinishOutcome, SettleOutcome, AcknowledgeOutcome DEF LiveStep
<1>2. CASE RecoveryStep
  BY <1>2, LookupOutcome, ReconcileOutcome, CloseOutcome, ResumeOutcome, QuietWork, CheckpointWork,
     InterruptOutcome DEF RecoveryStep
<1>3. CASE EnvStep \/ Quiet \/ UNCHANGED vars
  BY <1>3, EnvironmentOutcome DEF Quiet
<1> QED BY <1>1, <1>2, <1>3 DEF Next

(***************************************************************************)
(* turn_execution.go:299 AcknowledgeTaskTerminal, and the startup scan: the*)
(* record of a turn is closed as completed, or as failed, only when the    *)
(* task host has its task in that state, whatever crashed, was cancelled or*)
(* failed before, unless a failed update had been applied.                 *)
(***************************************************************************)
THEOREM OutcomesAgree == Spec => []OutcomeKept
<1>1. Init => OutcomeInv
  BY DEF Init, OutcomeInv, OutcomeMatchesTask, OutcomePlace, TaskStatus, Working, LoopPC, AppendPC
<1>2. OutcomeInv => OutcomeKept
  BY DEF OutcomeInv, OutcomeKept
<1> QED BY <1>1, <1>2, InitHolds, StepKeeps, OutcomeStep, PTL DEF Spec

-----------------------------------------------------------------------------
(* What the model is shown.  A turn that waits for a child, or has its      *)
(* result, is at the last call of its message, so that it goes on with all  *)
(* calls answered: this is where a message must spawn last.                 *)

\* The one hypothesis of the last theorem.
SpawnsComeLast == \A m \in Response : \A i \in DOMAIN m : m[i] = "spawn" => i = Len(m)

AnsweredTo(k) == \A i \in DOMAIN Calls : i <= k => Answered(<<n, i>>)

\* The messages before the last one have no open call.
SeenBefore == \A m \in DOMAIN asst : m < n => \A i \in DOMAIN asst[m] : Answered(<<m, i>>)

AtLastCall ==
  rec # None /\ rec.phase \in ResumePhase =>
    /\ n > 0 /\ rec.batch.calls[1].id = <<n, Len(Calls)>>
    /\ AnsweredTo(Len(Calls) - 1)
    /\ rec.phase = "child_resolved" => AnsweredTo(Len(Calls))

AnswersPlace ==
  /\ task = "queued" => asst = <<>> /\ pc \in {"claim", "idle", "down"}
  /\ pc \in {"claim", "create", "input"} => asst = <<>>
  /\ pc \in {"provider", "model"} /\ n > 0 => AnsweredTo(Len(Calls))
  /\ pc \in {"model", "persisted"} => rec.phase = "provider_pending"
  /\ pc \in {"pending", "bodies"} \cup AppendPC => AnsweredTo(cur - 1)
  /\ pc = "admitted" => Calls[cur] = "spawn"
  /\ pc = "confirm" => AnsweredTo(cur)
  /\ pc \in {"recover", "append_once", "confirm_recovered"} => rec.phase \in ResumePhase

AnswersInv == SeenBefore /\ AtLastCall /\ AnswersPlace

LEMMA AnsweredToStays ==
  ASSUME asst' = asst, \A d : Answered(d) => Answered(d)', NEW k, AnsweredTo(k)
  PROVE  AnsweredTo(k)'
BY DEF AnsweredTo, Answered, Calls, n

\* What is durable of the answers, under a step that adds no message.
LEMMA AnswersStay ==
  ASSUME SeenBefore, AtLastCall, asst' = asst, \A d : Answered(d) => Answered(d)',
         rec' = rec \/ (rec' # None /\ rec'.phase \notin ResumePhase)
  PROVE  SeenBefore' /\ AtLastCall'
<1>1. n' = n /\ Calls' = Calls
  BY DEF n, Calls
<1>2. SeenBefore'
  BY <1>1 DEF SeenBefore, Answered
<1>3. CASE rec' = rec
  <2>1. \A k : AnsweredTo(k) => AnsweredTo(k)'
    BY AnsweredToStays
  <2> QED BY <1>1, <1>2, <1>3, <2>1 DEF AtLastCall, AnsweredTo
<1>4. CASE rec' # None /\ rec'.phase \notin ResumePhase
  BY <1>2, <1>4 DEF AtLastCall
<1> QED BY <1>3, <1>4

FarPC == {"return", "finish", "settle", "ack", "idle", "down", "scan", "decide", "interrupt", "finalize"}

\* Far from the calls nothing is asked of the answers but what is durable.
LEMMA AnswersFar ==
  ASSUME AnswersInv, asst' = asst, \A d : Answered(d) => Answered(d)',
         rec' = rec \/ (rec' # None /\ rec'.phase \notin ResumePhase),
         pc' \in FarPC, task' # "queued" \/ (asst = <<>> /\ pc' \in {"idle", "down"})
  PROVE  AnswersInv'
<1>1. SeenBefore' /\ AtLastCall'
  BY AnswersStay DEF AnswersInv
<1>2. AnswersPlace'
  BY DEF AnswersPlace, FarPC, AppendPC
<1> QED BY <1>1, <1>2 DEF AnswersInv

\* What the journal may hold after an update.
LEMMA RecordWritten ==
  ASSUME NEW r, rec # None => r \in Record, NEW b, Written(r) \/ NotWritten(r, b)
  PROVE  \/ rec' = rec
         \/ /\ rec # None /\ rec' # None /\ rec'.phase = r.phase /\ rec'.batch = r.batch
            /\ allowedPhaseTransition(rec.phase, r.phase)
<1> SUFFICES ASSUME Accepted(r), rec' = Stamped(r)
             PROVE  /\ rec # None /\ rec' # None /\ rec'.phase = r.phase /\ rec'.batch = r.batch
                    /\ allowedPhaseTransition(rec.phase, r.phase)
  BY DEF Written, NotWritten
<1>1. rec # None /\ Replaces(rec, r)
  BY DEF Accepted
<1>2. Stamped(r) \in Record /\ Stamped(r).phase = r.phase /\ Stamped(r).batch = r.batch
  BY <1>1, StampedFields
<1>3. validateTransition(rec, Stamped(r))
  BY <1>1 DEF Replaces
<1> QED BY <1>1, <1>2, <1>3 DEF validateTransition

LEMMA CheckpointRecord ==
  ASSUME NEW r \in Record, NEW p, NEW e, NEW q, Checkpoint(r, p, e, q)
  PROVE  /\ pc' = p \/ pc' = q
         /\ \/ pc' = q /\ rec' = rec
            \/ /\ rec # None /\ rec' # None /\ rec'.phase = r.phase /\ rec'.batch = r.batch
               /\ allowedPhaseTransition(rec.phase, r.phase)
<1>1. CASE Written(r) /\ Goto(p)
  <2>1. Accepted(r) /\ rec' = Stamped(r)
    BY <1>1 DEF Written
  <2>2. Stamped(r) \in Record /\ Stamped(r).phase = r.phase /\ Stamped(r).batch = r.batch
    BY StampedFields
  <2>3. rec # None /\ allowedPhaseTransition(rec.phase, Stamped(r).phase)
    BY <2>1 DEF Accepted, Replaces, validateTransition
  <2> QED BY <1>1, <2>1, <2>2, <2>3 DEF Goto
<1>2. CASE NotWritten(r, TRUE) /\ Fail(e, q)
  BY <1>2, RecordWritten DEF Fail, Goto
<1> QED BY <1>1, <1>2 DEF Checkpoint

\* The host's task never becomes queued again.
LEMMA NeverQueuedAgain == [Next]_vars /\ task' = "queued" => task = "queued"
<1> SUFFICES ASSUME [Next]_vars, task' # task PROVE task' # "queued"
  OBVIOUS
<1>1. CASE ClaimTask \/ SettleTask
  BY <1>1 DEF ClaimTask, SettleTask, HostMoved, HostNotMoved
<1>2. CASE ReconcilePending
  BY <1>2 DEF ReconcilePending, HostMoved, HostNotMoved
<1>3. CASE UserCancel
  BY <1>3 DEF UserCancel
<1>4. CASE \/ BeginExecution \/ AppendInput \/ ProviderPending \/ CallModel \/ AssistantPersisted
           \/ ToolsPending \/ ParallelBody \/ ParallelDone \/ DenyTool \/ InvokeTool \/ SpawnChild
  BY <1>4 DEF BeginExecution, AppendInput, ProviderPending, CallModel, AssistantPersisted,
              ToolsPending, ParallelBody, ParallelDone, DenyTool, InvokeTool, SpawnChild, durable
<1>5. CASE \/ ExternalAdmitted \/ AwaitChild \/ AppendResult \/ ToolConfirmed \/ Finalize \/ LoopFailed
           \/ FinishTurn \/ AcknowledgeTask
  BY <1>5 DEF ExternalAdmitted, AwaitChild, AppendResult, ToolConfirmed, Finalize, LoopFailed,
              FinishTurn, AcknowledgeTask, durable
<1>6. CASE \/ LookupTask \/ CloseUnrecoverable \/ ResumeTurn \/ AwaitRecovered \/ AppendRecovered
           \/ ConfirmRecovered \/ InterruptTurn
  BY <1>6 DEF LookupTask, CloseUnrecoverable, ResumeTurn, AwaitRecovered, AppendRecovered,
              ConfirmRecovered, InterruptTurn, durable
<1>7. CASE \/ ChildEnds \/ CancelArrives \/ Shutdown \/ Exit \/ Crash \/ Restart \/ Quiet
           \/ UNCHANGED vars
  BY <1>7 DEF ChildEnds, CancelArrives, Shutdown, Exit, Crash, Restart, Quiet, vars, durable
<1> QED BY <1>1, <1>2, <1>3, <1>4, <1>5, <1>6, <1>7 DEF Next, LiveStep, RecoveryStep, EnvStep

\* Away from the first steps of a turn, its task is not waiting to be assigned.
LEMMA NoLongerQueued ==
  ASSUME AnswersInv, pc \notin {"claim", "idle", "down"}, task' = "queued" => task = "queued"
  PROVE  task' # "queued"
BY DEF AnswersInv, AnswersPlace

LEMMA AnswersStart ==
  ASSUME AnswersInv, ClaimTask \/ BeginExecution \/ AppendInput, task' = "queued" => task = "queued"
  PROVE  AnswersInv'
<1>1. UNCHANGED <<asst, results>>
  BY DEF ClaimTask, BeginExecution, AppendInput, durable
<1>2. \A d : Answered(d) => Answered(d)'
  BY <1>1 DEF Answered
<1>3. asst = <<>> /\ n' = 0 /\ asst' = <<>>
  <2>1. asst = <<>>
    BY DEF ClaimTask, BeginExecution, AppendInput, AnswersInv, AnswersPlace
  <2> QED BY <1>1, <2>1 DEF n
<1>4. rec' = rec \/ (rec' # None /\ rec'.phase \notin ResumePhase)
  <2>1. rec' = rec \/ rec' = PreparedRecord
    BY DEF ClaimTask, BeginExecution, AppendInput, durable
  <2>2. PreparedRecord \in Record /\ PreparedRecord.phase = "prepared"
    BY DEF PreparedRecord, Record, Phase, WorkPhase
  <2> QED BY <2>1, <2>2 DEF ResumePhase
<1>5. SeenBefore' /\ AtLastCall'
  BY <1>1, <1>2, <1>4, AnswersStay DEF AnswersInv
<1>6. CASE ClaimTask
  <2>1. \/ pc' = "create" /\ task' = "running"
        \/ pc' = "idle"
    BY <1>6 DEF ClaimTask, HostMoved, Goto
  <2>2. AnswersPlace'
    BY <1>3, <2>1 DEF AnswersPlace, AppendPC
  <2> QED BY <1>5, <2>2 DEF AnswersInv
<1>7. CASE BeginExecution \/ AppendInput
  <2>1. pc' \in {"input", "settle", "provider", "finish"} /\ pc \in {"create", "input"}
    BY <1>7 DEF BeginExecution, AppendInput, Goto, Fail
  <2>2. task' # "queued"
    BY <2>1, NoLongerQueued
  <2>3. AnswersPlace'
    BY <1>3, <2>1, <2>2 DEF AnswersPlace, AppendPC
  <2> QED BY <1>5, <2>3 DEF AnswersInv
<1> QED BY <1>6, <1>7

\* The record the loop works from.
LEMMA LoopRecord ==
  ASSUME RecoveryInv, pc \in LoopPC
  PROVE  rec = mem /\ rec # None /\ mem \in Record /\ mem.phase \in Phase
         /\ mem.batch \in Batch \cup {None} /\ iter \in Nat
<1>1. rec = mem /\ rec # None /\ mem \in Record /\ iter \in Nat
  BY DEF RecoveryInv, PlaceInv, HeldInv, ControlType, DurableInv, RecordInv
<1> QED BY <1>1, RecordFields

LEMMA AnswersProvider ==
  ASSUME RecoveryInv, AnswersInv, ProviderPending, task' = "queued" => task = "queued"
  PROVE  AnswersInv'
<1> PICK r : r = SameBatch("provider_pending", iter)
  OBVIOUS
<1>1. UNCHANGED <<asst, results>> /\ pc = "provider" /\ Checkpoint(r, "model", "error", "return")
  BY DEF ProviderPending, SameBatch
<1>2. r \in Record /\ r.phase = "provider_pending"
  <2>1. mem \in Record /\ iter \in Nat /\ mem.batch \in Batch \cup {None}
    BY <1>1, LoopRecord DEF LoopPC
  <2> QED BY <2>1, RecordUpdate DEF Phase, WorkPhase
<1>3. /\ pc' = "model" \/ pc' = "return"
      /\ \/ pc' = "return" /\ rec' = rec
         \/ rec' # None /\ rec'.phase = "provider_pending"
  BY <1>1, <1>2, CheckpointRecord
<1>4. \A d : Answered(d) => Answered(d)'
  BY <1>1 DEF Answered
<1>5. SeenBefore' /\ AtLastCall'
  BY <1>1, <1>3, <1>4, AnswersStay DEF AnswersInv, ResumePhase
<1>6. task' # "queued"
  BY <1>1, NoLongerQueued
<1>7. n' = n /\ Calls' = Calls /\ \A k : AnsweredTo(k) => AnsweredTo(k)'
  BY <1>1, <1>4, AnsweredToStays DEF n, Calls
<1>8. pc' = "model" /\ n' > 0 => (AnsweredTo(Len(Calls)))'
  BY <1>1, <1>7 DEF AnswersInv, AnswersPlace, AnsweredTo
<1>9. AnswersPlace'
  BY <1>3, <1>6, <1>8 DEF AnswersPlace, AppendPC
<1> QED BY <1>5, <1>9 DEF AnswersInv

LEMMA AnswersModel ==
  ASSUME RecoveryInv, AnswersInv, CallModel, task' = "queued" => task = "queued"
  PROVE  AnswersInv'
<1>1. UNCHANGED <<rec, results, child, ran, mem>> /\ pc = "model"
  BY DEF CallModel
<1>2. \/ (\E m \in Response : asst' = Append(asst, m)) /\ pc' \in {"persisted", "return"}
      \/ asst' = asst /\ pc' = "return"
  BY DEF CallModel, Goto, Fail
<1>3. task' # "queued"
  BY <1>1, NoLongerQueued
<1>4. \A d : Answered(d) => Answered(d)'
  BY <1>1 DEF Answered
<1>5. CASE asst' = asst /\ pc' = "return"
  BY <1>1, <1>3, <1>4, <1>5, AnswersFar DEF FarPC
<1>6. CASE (\E m \in Response : asst' = Append(asst, m)) /\ pc' \in {"persisted", "return"}
  <2>1. asst \in Seq(Response) /\ n \in Nat /\ n' = n + 1
    BY <1>1, <1>6, MessageAdded DEF RecoveryInv, DurableInv, DurableType
  <2>2. DOMAIN asst = 1..n /\ DOMAIN asst' = 1..(n + 1) /\ \A m \in 1..n : asst'[m] = asst[m]
    BY <1>6, <2>1 DEF n
  <2>3. rec # None /\ rec.phase = "provider_pending" /\ (n > 0 => AnsweredTo(Len(Calls)))
    BY <1>1, LoopRecord DEF AnswersInv, AnswersPlace, LoopPC
  <2>4. ASSUME NEW m \in 1..n, NEW i \in DOMAIN asst[m] PROVE Answered(<<m, i>>)
    <3>1. CASE m < n
      BY <2>2, <3>1 DEF AnswersInv, SeenBefore
    <3>2. CASE m = n
      <4>1. n > 0 /\ i \in DOMAIN Calls
        BY <2>1, <2>4, <3>2 DEF Calls
      <4>2. i <= Len(Calls)
        BY <4>1, CallsAtHand DEF RecoveryInv, DurableInv
      <4> QED BY <2>3, <3>2, <4>1, <4>2 DEF AnsweredTo
    <3> QED BY <2>1, <3>1, <3>2
  <2>5. SeenBefore'
    <3> SUFFICES ASSUME NEW m \in DOMAIN asst', m < n', NEW i \in DOMAIN asst'[m]
                 PROVE  Answered(<<m, i>>)'
      BY DEF SeenBefore
    <3>1. m \in 1..n /\ i \in DOMAIN asst[m]
      BY <2>1, <2>2
    <3> QED BY <1>1, <2>4, <3>1 DEF Answered
  <2>6. AtLastCall'
    BY <1>1, <2>3 DEF AtLastCall, ResumePhase
  <2>7. AnswersPlace'
    BY <1>1, <1>3, <1>6, <2>3 DEF AnswersPlace, AppendPC
  <2> QED BY <2>5, <2>6, <2>7 DEF AnswersInv
<1> QED BY <1>2, <1>5, <1>6

LEMMA AnswersPersisted ==
  ASSUME RecoveryInv, AnswersInv, AssistantPersisted, task' = "queued" => task = "queued"
  PROVE  AnswersInv'
<1> PICK r : r = OtherIteration(iter)
  OBVIOUS
<1>1. UNCHANGED <<asst, results>> /\ pc = "persisted" /\ (Written(r) \/ NotWritten(r, TRUE))
  BY DEF AssistantPersisted, OtherIteration
<1>2. r \in Record /\ r.phase = "provider_pending"
  <2>1. rec.phase = "provider_pending"
    BY <1>1 DEF AnswersInv, AnswersPlace
  <2> QED BY <1>1, <2>1, LoopRecord, RecordUpdate DEF LoopPC
<1>3. rec' = rec \/ (rec' # None /\ rec'.phase \notin ResumePhase)
  BY <1>1, <1>2, RecordWritten DEF ResumePhase
<1>4. \A d : Answered(d) => Answered(d)'
  BY <1>1 DEF Answered
<1>5. SeenBefore' /\ AtLastCall'
  BY <1>1, <1>3, <1>4, AnswersStay DEF AnswersInv
<1>6. task' # "queued"
  BY <1>1, NoLongerQueued
<1>7. \/ pc' \in {"finalize", "return"}
      \/ pc' = "pending" /\ cur' = 1
  BY DEF AssistantPersisted, Goto, Fail
<1>8. pc' = "pending" => (AnsweredTo(cur - 1))'
  <2>1. n' > 0 /\ (DOMAIN Calls)' = 1..Len(Calls)
    <3>1. n > 0
      BY <1>1 DEF RecoveryInv, PlaceInv, LivePlace
    <3> QED BY <1>1, <3>1, CallsAtHand DEF RecoveryInv, DurableInv, n, Calls
  <2> QED BY <1>7, <2>1 DEF AnsweredTo
<1>9. AnswersPlace'
  BY <1>6, <1>7, <1>8 DEF AnswersPlace, AppendPC
<1> QED BY <1>5, <1>9 DEF AnswersInv

LEMMA AnswersPending ==
  ASSUME RecoveryInv, AnswersInv, ToolsPending, task' = "queued" => task = "queued"
  PROVE  AnswersInv'
<1> DEFINE b == [assistant |-> n, calls |-> Checkpointed]
           next == IF ParallelSafe THEN "bodies" ELSE "call"
<1> PICK r, s : r = SameBatch("provider_pending", iter) /\ s = NextRecord("tool_pending", iter, b)
  OBVIOUS
<1>1. UNCHANGED <<asst, results, cur>> /\ pc = "pending"
      /\ \/ Checkpoint(r, "pending", "error", "return")
         \/ Checkpoint(s, next, "error", "return")
  BY DEF ToolsPending, SameBatch, NextRecord
<1>2. AtCall /\ n > 0 /\ cur \in Nat
  BY <1>1 DEF RecoveryInv, PlaceInv, LivePlace, AtCall, ControlType
<1>3. b \in Batch
  <2>1. Checkpointed \in Seq(CallRecord) /\ n \in Nat
    BY <1>2, CheckpointedCalls, CallsAtHand DEF RecoveryInv, DurableInv
  <2> QED BY <2>1 DEF Batch
<1> HIDE DEF b
<1>4. r \in Record /\ s \in Record /\ r.phase = "provider_pending" /\ s.phase = "tool_pending"
  BY <1>1, <1>3, LoopRecord, RecordUpdate DEF LoopPC, Phase, WorkPhase
<1>5. /\ pc' \in {"pending", "bodies", "call", "return"}
      /\ rec' = rec \/ (rec' # None /\ rec'.phase \notin ResumePhase)
  <2>1. next \in {"bodies", "call"}
    OBVIOUS
  <2> HIDE DEF next
  <2> QED BY <1>1, <1>4, <2>1, CheckpointRecord DEF ResumePhase
<1>6. \A d : Answered(d) => Answered(d)'
  BY <1>1 DEF Answered
<1>7. SeenBefore' /\ AtLastCall'
  BY <1>1, <1>5, <1>6, AnswersStay DEF AnswersInv
<1>8. task' # "queued"
  BY <1>1, NoLongerQueued
<1>9. (AnsweredTo(cur - 1))'
  <2>1. AnsweredTo(cur - 1)
    BY <1>1 DEF AnswersInv, AnswersPlace
  <2> QED BY <1>1, <1>6, <2>1 DEF AnsweredTo, Calls, n
<1>10. AnswersPlace'
  BY <1>5, <1>8, <1>9 DEF AnswersPlace, AppendPC
<1> QED BY <1>7, <1>10 DEF AnswersInv

\* Bodies run and children are admitted and awaited between the answers.
LEMMA AnswersCall ==
  ASSUME AnswersInv, task' = "queued" => task = "queued",
         \/ ParallelBody \/ ParallelDone \/ DenyTool \/ InvokeTool \/ SpawnChild \/ AwaitChild
  PROVE  AnswersInv'
<1>1. UNCHANGED <<rec, asst, results, cur>>
  BY DEF ParallelBody, ParallelDone, DenyTool, InvokeTool, SpawnChild, AwaitChild, durable
<1>2. /\ pc \in {"bodies"} \cup AppendPC
      /\ pc' \in {"bodies", "append"} \/ (pc' = "admitted" /\ Calls[cur] = "spawn")
  BY DEF ParallelBody, ParallelDone, DenyTool, InvokeTool, SpawnChild, AwaitChild, AppendPC, Goto
<1>3. \A d : Answered(d) => Answered(d)'
  BY <1>1 DEF Answered
<1>4. SeenBefore' /\ AtLastCall'
  BY <1>1, <1>3, AnswersStay DEF AnswersInv
<1>5. task' # "queued"
  BY <1>2, NoLongerQueued DEF AppendPC
<1>6. (AnsweredTo(cur - 1))' /\ (Calls[cur])' = Calls[cur]
  <2>1. AnsweredTo(cur - 1)
    BY <1>2 DEF AnswersInv, AnswersPlace
  <2> QED BY <1>1, <1>3, <2>1 DEF AnsweredTo, Calls, n
<1>7. AnswersPlace'
  BY <1>2, <1>5, <1>6 DEF AnswersPlace, AppendPC
<1> QED BY <1>4, <1>7 DEF AnswersInv

LEMMA AnswersAdmitted ==
  ASSUME SpawnsComeLast, RecoveryInv, AnswersInv, ExternalAdmitted, task' = "queued" => task = "queued"
  PROVE  AnswersInv'
<1> DEFINE c == Call(cur)
<1> PICK x : x = [id |-> c, outcome |-> "admitted", external |-> c, result |-> None]
  OBVIOUS
<1> PICK r : r = SameIteration("waiting_external_child", WithCall(1, x))
  OBVIOUS
<1>1. UNCHANGED <<asst, results, cur>> /\ pc = "admitted"
      /\ Checkpoint(r, "await", "uncertain", "return")
  BY DEF ExternalAdmitted, loop, SameIteration
<1>2. /\ mem \in Record /\ AtCall /\ c \in DOMAIN child /\ n > 0
  BY <1>1, CallOnRecord DEF RecoveryInv, PlaceInv, LivePlace, AppendPC, AtCall
<1>3. /\ r \in Record /\ r.batch.calls[1].id = c /\ r.phase = "waiting_external_child"
  BY <1>1, <1>2, CallOnRecord, AdmittedRecord
<1>4. cur = Len(Calls)
  <2>1. Calls[cur] = "spawn" /\ cur \in DOMAIN Calls
    BY <1>1, <1>2 DEF AnswersInv, AnswersPlace, AtCall
  <2>2. Calls \in Response
    <3>1. asst \in Seq(Response) /\ n \in Nat /\ n \in DOMAIN asst
      BY <1>2 DEF RecoveryInv, DurableInv, DurableType, n
    <3> QED BY <3>1 DEF Calls
  <2> QED BY <2>1, <2>2 DEF SpawnsComeLast
<1>5. AnsweredTo(cur - 1)
  BY <1>1 DEF AnswersInv, AnswersPlace, AppendPC
<1>6. n' = n /\ Calls' = Calls /\ (AnsweredTo(cur - 1))'
  BY <1>1, <1>5 DEF n, Calls, AnsweredTo, Answered
<1>7. /\ pc' \in {"await", "return"}
      /\ \/ rec' = rec
         \/ rec' # None /\ rec'.phase = "waiting_external_child" /\ rec'.batch = r.batch
  BY <1>1, <1>3, CheckpointRecord
<1>8. \A d : Answered(d) => Answered(d)'
  BY <1>1 DEF Answered
<1>9. SeenBefore'
  BY <1>6, <1>8, <1>1 DEF AnswersInv, SeenBefore, Answered
<1>10. AtLastCall'
  <2>1. CASE rec' = rec
    BY <1>1, <1>8, <2>1, AnswersStay DEF AnswersInv
  <2>2. CASE rec' # None /\ rec'.phase = "waiting_external_child" /\ rec'.batch = r.batch
    <3>1. n' > 0 /\ rec'.batch.calls[1].id = <<n', Len(Calls')>>
      BY <1>2, <1>3, <1>4, <1>6, <2>2 DEF Call
    <3>2. (AnsweredTo(Len(Calls) - 1))'
      BY <1>1, <1>4, <1>6 DEF AnsweredTo
    <3> QED BY <2>2, <3>1, <3>2 DEF AtLastCall
  <2> QED BY <1>7, <2>1, <2>2
<1>11. task' # "queued"
  BY <1>1, NoLongerQueued
<1>12. AnswersPlace'
  BY <1>6, <1>7, <1>11 DEF AnswersPlace, AppendPC
<1> QED BY <1>9, <1>10, <1>12 DEF AnswersInv

\* A result that is added to the transcript takes none away.
LEMMA AnswersGrow ==
  ASSUME results \in Seq(Answer), NEW c \in CallRef, NEW v \in Value,
         results' = Append(results, [call |-> c, value |-> v])
  PROVE  (\A d : Answered(d) => Answered(d)') /\ Answered(c)'
<1> DEFINE a == [call |-> c, value |-> v]
           last == Len(results) + 1
<1>1. a \in Answer /\ a.call = c
  BY DEF Answer
<1>2. /\ DOMAIN results' = DOMAIN results \cup {last} /\ results'[last] = a
      /\ \A k \in DOMAIN results : results'[k] = results[k]
  BY <1>1
<1> HIDE DEF a, last
<1> QED BY <1>1, <1>2 DEF Answered

LEMMA AnswersAppended ==
  ASSUME RecoveryInv, AnswersInv, AppendResult, task' = "queued" => task = "queued"
  PROVE  AnswersInv'
<1> DEFINE c == Call(cur)
           a == [call |-> c, value |-> value]
<1>1. UNCHANGED <<rec, asst, cur>> /\ pc = "append"
  BY DEF AppendResult, loop
<1>2. \/ results' = Append(results, a) /\ pc' \in {"confirm", "return"}
      \/ results' = results /\ pc' = "return"
  BY DEF AppendResult, Goto, Fail
<1>3. c \in CallRef /\ value \in Value /\ results \in Seq(Answer) /\ n > 0 /\ cur \in Nat
      /\ DOMAIN Calls = 1..Len(Calls) /\ Len(Calls) \in Nat
  <2>1. n > 0 /\ cur \in Nat /\ value \in Value
    BY <1>1 DEF RecoveryInv, PlaceInv, LivePlace, AppendPC, AtCall, ControlType
  <2> QED BY <2>1, CallsAtHand DEF RecoveryInv, DurableInv, DurableType
<1>4. /\ \A d : Answered(d) => Answered(d)'
      /\ pc' = "confirm" => Answered(c)'
  <2>1. CASE results' = Append(results, a)
    <3> PICK d, v : d = c /\ v = value
      OBVIOUS
    <3>1. (\A e : Answered(e) => Answered(e)') /\ Answered(d)'
      BY <1>3, <2>1, AnswersGrow
    <3>2. c' = d
      BY <1>1 DEF Call, n
    <3> QED BY <3>1, <3>2 DEF Answered
  <2>2. CASE results' = results /\ pc' = "return"
    BY <2>2 DEF Answered
  <2> QED BY <1>2, <2>1, <2>2
<1>5. SeenBefore' /\ AtLastCall'
  BY <1>1, <1>4, AnswersStay DEF AnswersInv
<1>6. task' # "queued"
  BY <1>1, NoLongerQueued
<1>7. pc' = "confirm" => (AnsweredTo(cur))'
  <2> SUFFICES ASSUME pc' = "confirm", NEW i \in DOMAIN Calls, i <= cur, NEW d, d = <<n, i>>
               PROVE  Answered(d)'
    BY <1>1 DEF AnsweredTo, Calls, n, Answered
  <2>1. CASE i = cur
    <3>1. d = c
      BY <2>1 DEF Call
    <3> QED BY <1>1, <1>4, <3>1 DEF Answered, Call, n
  <2>2. CASE i <= cur - 1
    <3>1. Answered(d)
      BY <1>1, <2>2 DEF AnswersInv, AnswersPlace, AnsweredTo, AppendPC
    <3> QED BY <1>4, <3>1
  <2> QED BY <1>3, <2>1, <2>2
<1>8. AnswersPlace'
  BY <1>2, <1>6, <1>7 DEF AnswersPlace, AppendPC
<1> QED BY <1>5, <1>8 DEF AnswersInv

\* A turn that waits for a child, or has its result, has one call on record.
LEMMA ResumesOneCall ==
  ASSUME RecoveryInv, rec # None, rec.phase \in ResumePhase
  PROVE  rec.batch # None /\ DOMAIN rec.batch.calls = {1}
<1>1. rec \in Record /\ Validate(rec)
  BY DEF RecoveryInv, DurableInv, DurableType, RecordInv
<1>2. rec.batch # None /\ batchFitsPhase(rec.batch, rec.phase)
  BY <1>1 DEF Validate, validateToolBatchForPhase, ResumePhase
<1>3. Len(rec.batch.calls) = 1
  BY <1>2 DEF batchFitsPhase, ResumePhase
<1>4. rec.batch \in Batch
  BY <1>1, <1>2, RecordFields
<1> QED BY <1>2, <1>3, <1>4, BatchFields

\* A confirmed call of a turn that may resume is the last of its message.
LEMMA ConfirmedLast ==
  ASSUME RecoveryInv, AnswersInv, asst' = asst, \A d : Answered(d) => Answered(d)',
         NEW r \in Record, NEW c \in CallRef, NEW v \in Value, r = Confirmed(c, v), rec = mem,
         \A i \in DOMAIN mem.batch.calls : r.batch.calls[i].id = mem.batch.calls[i].id,
         rec # None, rec' # None, rec'.phase = r.phase, rec'.batch = r.batch,
         allowedPhaseTransition(rec.phase, r.phase),
         rec.phase = "waiting_external_child" => AnsweredTo(Len(Calls))
  PROVE  AtLastCall'
<1> SUFFICES ASSUME r.phase \in ResumePhase PROVE AtLastCall'
  BY DEF AtLastCall
<1>1. r.phase = "child_resolved"
  <2>1. r.phase # "waiting_external_child"
    <3>1. mem \in Record
      BY DEF RecoveryInv, DurableInv, DurableType
    <3> DEFINE k == CHOOSE k \in DOMAIN mem.batch.calls : mem.batch.calls[k].id = c
    <3>2. r.phase = PhaseConfirmed(k)
      <4> PICK p, d : p = PhaseConfirmed(k)
               /\ d = WithCall(k, [id |-> c, outcome |-> "confirmed",
                                   external |-> mem.batch.calls[k].external,
                                   result |-> [call |-> c, value |-> v]])
        OBVIOUS
      <4>1. r = NextRecord(p, iter, d)
        BY DEF Confirmed, NextRecord
      <4>2. mem = [rev |-> mem.rev, phase |-> mem.phase, iter |-> mem.iter, reason |-> mem.reason,
                   batch |-> mem.batch]
        BY <3>1, RecordFields
      <4>3. r = [mem EXCEPT !.phase = p, !.iter = iter, !.batch = d]
        BY <4>1 DEF NextRecord
      <4>4. r.phase = p
        BY <4>2, <4>3
      <4> QED BY <4>4
    <3> QED BY <3>2 DEF PhaseConfirmed
  <2> QED BY <2>1 DEF ResumePhase
<1>2. rec.phase \in ResumePhase
  BY <1>1 DEF allowedPhaseTransition, ResumePhase, WorkPhase, PendingPhase
<1>3. /\ n > 0 /\ rec.batch.calls[1].id = <<n, Len(Calls)>>
      /\ AnsweredTo(Len(Calls) - 1) /\ AnsweredTo(Len(Calls))
  BY <1>2 DEF AnswersInv, AtLastCall, ResumePhase
<1>4. 1 \in DOMAIN mem.batch.calls
  BY <1>2, ResumesOneCall
<1>5. n' = n /\ Calls' = Calls
  BY DEF n, Calls
<1>6. (AnsweredTo(Len(Calls) - 1))' /\ (AnsweredTo(Len(Calls)))'
  BY <1>3, <1>5 DEF AnsweredTo, Answered
<1> QED BY <1>3, <1>4, <1>5, <1>6 DEF AtLastCall

LEMMA AnswersConfirmed ==
  ASSUME RecoveryInv, AnswersInv, ToolConfirmed, task' = "queued" => task = "queued"
  PROVE  AnswersInv'
<1> DEFINE last == cur = Len(Calls)
           next == CASE last -> "provider"
                     [] ~ last /\ ParallelSafe -> "append"
                     [] OTHER -> "pending"
<1> PICK c, v : c = Call(cur) /\ v = value
  OBVIOUS
<1> PICK r : r = Confirmed(c, v)
  OBVIOUS
<1>1. UNCHANGED <<asst, results>> /\ pc = "confirm"
      /\ Checkpoint(r, next, "error", "return") /\ cur' = IF last THEN 0 ELSE cur + 1
  BY DEF ToolConfirmed
<1>2. /\ mem = rec /\ mem # None /\ AtCall /\ OnRecord(c)
      /\ (\E j \in DOMAIN results : results[j] = [call |-> c, value |-> v])
      /\ cur \in Nat /\ iter \in Nat /\ v \in Value /\ n > 0
  BY <1>1 DEF RecoveryInv, PlaceInv, HeldInv, LivePlace, LoopPC, AppendPC, ControlType, AtCall
<1>3. /\ c \in CallRef /\ n \in Nat /\ DOMAIN Calls = 1..Len(Calls) /\ Len(Calls) \in Nat
  BY <1>2, CallsAtHand DEF RecoveryInv, DurableInv
<1>4. mem \in Record /\ mem.batch # None /\ GoodBatch(mem.batch)
      /\ \E k \in DOMAIN mem.batch.calls : mem.batch.calls[k].id = c
  BY <1>2 DEF RecoveryInv, DurableInv, RecordInv, OnRecord
<1>5. /\ r \in Record
      /\ \A i \in DOMAIN mem.batch.calls : r.batch.calls[i].id = mem.batch.calls[i].id
  BY <1>2, <1>3, <1>4, ConfirmedRecord
<1>6. /\ pc' = next \/ pc' = "return"
      /\ \/ pc' = "return" /\ rec' = rec
         \/ /\ rec # None /\ rec' # None /\ rec'.phase = r.phase /\ rec'.batch = r.batch
            /\ allowedPhaseTransition(rec.phase, r.phase)
  <2> HIDE DEF next
  <2> QED BY <1>1, <1>5, CheckpointRecord
<1>7. AnsweredTo(cur)
  BY <1>1 DEF AnswersInv, AnswersPlace
<1>8. \A d : Answered(d) => Answered(d)'
  BY <1>1 DEF Answered
<1>9. n' = n /\ Calls' = Calls
  BY <1>1 DEF n, Calls
<1>10. SeenBefore' /\ AtLastCall'
  <2>1. CASE rec' = rec
    BY <1>1, <1>8, <2>1, AnswersStay DEF AnswersInv
  <2>2. CASE /\ rec # None /\ rec' # None /\ rec'.phase = r.phase /\ rec'.batch = r.batch
             /\ allowedPhaseTransition(rec.phase, r.phase)
    <3>1. rec.phase = "waiting_external_child" => AnsweredTo(Len(Calls))
      <4> SUFFICES ASSUME rec.phase = "waiting_external_child" PROVE AnsweredTo(Len(Calls))
        OBVIOUS
      <4>1. rec.batch.calls[1].id = <<n, Len(Calls)>>
        BY <2>2 DEF AnswersInv, AtLastCall, ResumePhase
      <4>2. DOMAIN rec.batch.calls = {1}
        BY <2>2, ResumesOneCall DEF ResumePhase
      <4>3. <<n, cur>> = <<n, Len(Calls)>>
        BY <1>2, <1>4, <4>1, <4>2 DEF Call
      <4> QED BY <1>7, <4>3
    <3>2. AtLastCall'
      BY <1>1, <1>2, <1>3, <1>5, <1>8, <2>2, <3>1, ConfirmedLast
    <3>3. SeenBefore'
      BY <1>1, <1>8, <1>9 DEF AnswersInv, SeenBefore, Answered
    <3> QED BY <3>2, <3>3
  <2> QED BY <1>6, <2>1, <2>2
<1>11. task' # "queued"
  BY <1>1, NoLongerQueued
<1>12. /\ pc' = "provider" => (AnsweredTo(Len(Calls)))'
       /\ pc' \in {"pending", "append"} => (AnsweredTo(cur - 1))'
  <2>1. pc' = "provider" => cur = Len(Calls)
    BY <1>6 DEF next
  <2>2. pc' \in {"pending", "append"} => cur' - 1 = cur
    BY <1>1, <1>2, <1>6 DEF next
  <2>3. ASSUME cur = Len(Calls) PROVE (AnsweredTo(Len(Calls)))'
    BY <1>1, <1>7, <1>9, <2>3 DEF AnsweredTo, Answered
  <2>4. ASSUME cur' - 1 = cur PROVE (AnsweredTo(cur - 1))'
    BY <1>1, <1>7, <1>9, <2>4 DEF AnsweredTo, Answered
  <2> QED BY <2>1, <2>2, <2>3, <2>4
<1>13. pc' \in {"provider", "pending", "append", "return"}
  BY <1>6 DEF next
<1>14. AnswersPlace'
  BY <1>11, <1>12, <1>13 DEF AnswersPlace, AppendPC
<1> QED BY <1>10, <1>14 DEF AnswersInv

\* The steps that leave the transcript and the journal alone and end or look.
LEMMA AnswersEnd ==
  ASSUME AnswersInv, task' = "queued" => task = "queued",
         \/ Finalize \/ LoopFailed \/ SettleTask
         \/ LookupTask \/ ReconcilePending \/ CloseUnrecoverable
  PROVE  AnswersInv'
<1>1. UNCHANGED <<rec, asst, results>>
  BY DEF Finalize, LoopFailed, SettleTask, LookupTask, ReconcilePending, CloseUnrecoverable, durable
<1>2. pc \in {"finalize", "return", "settle", "scan", "decide"} /\ pc' \in FarPC
  BY DEF Finalize, LoopFailed, SettleTask, LookupTask, ReconcilePending, CloseUnrecoverable,
         Goto, Fail, FarPC
<1>3. task' # "queued"
  BY <1>2, NoLongerQueued
<1>4. \A d : Answered(d) => Answered(d)'
  BY <1>1 DEF Answered
<1> QED BY <1>1, <1>2, <1>3, <1>4, AnswersFar

\* The steps that write how the turn ended.
LEMMA AnswersClosed ==
  ASSUME RecoveryInv, AnswersInv, task' = "queued" => task = "queued",
         FinishTurn \/ AcknowledgeTask \/ InterruptTurn
  PROVE  AnswersInv'
<1>1. UNCHANGED <<asst, results>> /\ pc \in {"finish", "ack", "interrupt"} /\ pc' \in FarPC
  BY DEF FinishTurn, AcknowledgeTask, InterruptTurn, Goto, FarPC
<1>2. task' # "queued"
  BY <1>1, NoLongerQueued
<1>3. \A d : Answered(d) => Answered(d)'
  BY <1>1 DEF Answered
<1>4. rec # None => rec \in Record /\ GoodBatch(rec.batch)
  BY DEF RecoveryInv, DurableInv, DurableType, RecordInv
<1>5. rec' = rec \/ (rec' # None /\ rec'.phase \notin ResumePhase)
  <2>1. CASE FinishTurn
    <3>1. mem \in Record /\ GoodBatch(mem.batch)
      BY <2>1 DEF FinishTurn, RecoveryInv, PlaceInv, HeldInv, DurableInv, RecordInv
    <3>2. Finished \in Record /\ Finished.phase \in PendingPhase \cup {"interrupted"}
      BY <3>1, FinishedRecord
    <3> QED BY <2>1, <3>2, RecordWritten DEF FinishTurn, PendingPhase, ResumePhase
  <2>2. CASE AcknowledgeTask
    <3> PICK r : r = [rec EXCEPT !.phase = AcknowledgedPhase(rec.phase)]
      OBVIOUS
    <3>1. \/ rec # None /\ PendingTerminal(rec) /\ (Written(r) \/ NotWritten(r, FALSE))
          \/ UNCHANGED rec
      BY <2>2 DEF AcknowledgeTask
    <3>2. CASE rec # None /\ PendingTerminal(rec) /\ (Written(r) \/ NotWritten(r, FALSE))
      <4>1. r \in Record /\ r.phase = AcknowledgedPhase(rec.phase)
        BY <1>4, <3>2, AcknowledgedRecord
      <4>2. r.phase \notin ResumePhase
        BY <3>2, <4>1 DEF AcknowledgedPhase, PendingTerminal, PendingPhase, ResumePhase
      <4> QED BY <3>2, <4>1, <4>2, RecordWritten
    <3> QED BY <3>1, <3>2
  <2>3. CASE InterruptTurn
    <3> PICK r : r = Interrupted(rec, "interrupted")
      OBVIOUS
    <3>1. UNCHANGED rec \/ Written(r) \/ \E b : NotWritten(r, b)
      BY <2>3 DEF InterruptTurn
    <3>2. rec # None => r \in Record /\ r.phase = "interrupted"
      BY <1>4, InterruptedRecord DEF Phase, TerminalPhase
    <3>3. Written(r) \/ (\E b : NotWritten(r, b)) =>
            rec' = rec \/ (rec # None /\ rec' # None /\ rec'.phase = r.phase)
      BY <3>2, RecordWritten
    <3> QED BY <3>1, <3>2, <3>3 DEF ResumePhase
  <2> QED BY <2>1, <2>2, <2>3
<1> QED BY <1>1, <1>2, <1>3, <1>5, AnswersFar

LEMMA AnswersResumed ==
  ASSUME RecoveryInv, AnswersInv, ResumeTurn, task' = "queued" => task = "queued"
  PROVE  AnswersInv'
<1> PICK r : r = Interrupted(rec, "interrupting")
  OBVIOUS
<1>1. UNCHANGED <<asst, results>> /\ pc = "decide"
      /\ \/ /\ rec.phase \in ResumePhase /\ rec' = rec
            /\ \/ rec.phase = "child_resolved" /\ pc' = "provider"
               \/ rec.phase # "child_resolved" /\ pc' = "recover"
         \/ (Written(r) \/ NotWritten(r, FALSE)) /\ pc' = "settle"
  BY DEF ResumeTurn, Goto, Fail
<1>2. rec # None /\ rec \in Record /\ GoodBatch(rec.batch)
  BY <1>1 DEF RecoveryInv, PlaceInv, HeldInv, DurableInv, DurableType, RecordInv
<1>3. task' # "queued"
  BY <1>1, NoLongerQueued
<1>4. \A d : Answered(d) => Answered(d)'
  BY <1>1 DEF Answered
<1>5. CASE (Written(r) \/ NotWritten(r, FALSE)) /\ pc' = "settle"
  <2>1. r \in Record /\ r.phase = "interrupting"
    BY <1>2, InterruptedRecord DEF Phase, PendingPhase
  <2>2. rec' = rec \/ (rec' # None /\ rec'.phase \notin ResumePhase)
    BY <1>5, <2>1, RecordWritten DEF ResumePhase
  <2> QED BY <1>1, <1>3, <1>4, <1>5, <2>2, AnswersFar DEF FarPC
<1>6. CASE /\ rec.phase \in ResumePhase /\ rec' = rec
           /\ \/ rec.phase = "child_resolved" /\ pc' = "provider"
              \/ rec.phase # "child_resolved" /\ pc' = "recover"
  <2>1. SeenBefore' /\ AtLastCall'
    BY <1>1, <1>4, <1>6, AnswersStay DEF AnswersInv
  <2>2. pc' = "provider" => (AnsweredTo(Len(Calls)))'
    <3>1. pc' = "provider" => AnsweredTo(Len(Calls))
      BY <1>2, <1>6 DEF AnswersInv, AtLastCall
    <3> QED BY <1>1, <3>1 DEF AnsweredTo, Calls, n, Answered
  <2>3. AnswersPlace'
    BY <1>3, <1>6, <2>2 DEF AnswersPlace, AppendPC
  <2> QED BY <2>1, <2>3 DEF AnswersInv
<1> QED BY <1>1, <1>5, <1>6

LEMMA AnswersRecovered ==
  ASSUME RecoveryInv, AnswersInv, AwaitRecovered \/ AppendRecovered,
         task' = "queued" => task = "queued"
  PROVE  AnswersInv'
<1>1. UNCHANGED <<rec, asst>> /\ pc \in {"recover", "append_once"}
      /\ pc' \in {"append_once", "confirm_recovered", "finish"}
  BY DEF AwaitRecovered, AppendRecovered, durable, Goto, Fail
<1>2. PICK c, v : c = RecoveredCall /\ v = value
  OBVIOUS
<1>3. results' = results \/ results' = Append(results, [call |-> c, value |-> v])
  BY <1>2 DEF AwaitRecovered, AppendRecovered, durable
<1>4. c \in CallRef /\ v \in Value /\ results \in Seq(Answer)
  BY <1>1, <1>2, RecoveredOnRecord DEF RecoveryInv, DurableInv, DurableType
<1>5. \A d : Answered(d) => Answered(d)'
  <2>1. CASE results' = results
    BY <2>1 DEF Answered
  <2>2. CASE results' = Append(results, [call |-> c, value |-> v])
    BY <1>4, <2>2, AnswersGrow
  <2> QED BY <1>3, <2>1, <2>2
<1>6. SeenBefore' /\ AtLastCall'
  BY <1>1, <1>5, AnswersStay DEF AnswersInv
<1>7. task' # "queued" /\ rec.phase \in ResumePhase
  BY <1>1, NoLongerQueued DEF AnswersInv, AnswersPlace
<1>8. AnswersPlace'
  BY <1>1, <1>7 DEF AnswersPlace, AppendPC
<1> QED BY <1>6, <1>8 DEF AnswersInv

LEMMA AnswersRecoveredConfirmed ==
  ASSUME RecoveryInv, AnswersInv, ConfirmRecovered, task' = "queued" => task = "queued"
  PROVE  AnswersInv'
<1> PICK c, v, e : c = RecoveredCall /\ v = value /\ e = IF ctxDone THEN "canceled" ELSE "error"
  OBVIOUS
<1> PICK r : r = Confirmed(c, v)
  OBVIOUS
<1>1. UNCHANGED <<asst, results>> /\ pc = "confirm_recovered"
      /\ Checkpoint(r, "provider", e, "finish")
  BY DEF ConfirmRecovered
<1>2. /\ mem = rec /\ mem \in Record /\ mem # None /\ mem.batch # None /\ GoodBatch(mem.batch)
      /\ 1 \in DOMAIN mem.batch.calls /\ c \in CallRef /\ v \in Value /\ iter \in Nat
      /\ mem.batch.calls[1].id = c
  BY <1>1, RecoveredOnRecord DEF RecoveredCall
<1>3. \E j \in DOMAIN results : results[j] = [call |-> c, value |-> v]
  BY <1>1 DEF RecoveryInv, PlaceInv, RecoveredPlace
<1>4. /\ r \in Record
      /\ \A i \in DOMAIN mem.batch.calls : r.batch.calls[i].id = mem.batch.calls[i].id
  BY <1>2, <1>3, ConfirmedRecord
<1>5. /\ pc' = "provider" \/ pc' = "finish"
      /\ \/ pc' = "finish" /\ rec' = rec
         \/ /\ rec # None /\ rec' # None /\ rec'.phase = r.phase /\ rec'.batch = r.batch
            /\ allowedPhaseTransition(rec.phase, r.phase)
  BY <1>1, <1>4, CheckpointRecord
<1>6. AnsweredTo(Len(Calls)) /\ n > 0
  <2>1. c = <<n, Len(Calls)>> /\ AnsweredTo(Len(Calls) - 1) /\ n > 0
    BY <1>1, <1>2 DEF AnswersInv, AnswersPlace, AtLastCall
  <2>2. Answered(c)
    BY <1>3 DEF Answered
  <2>3. DOMAIN Calls = 1..Len(Calls) /\ Len(Calls) \in Nat
    BY <2>1, CallsAtHand DEF RecoveryInv, DurableInv
  <2>4. ASSUME NEW i \in DOMAIN Calls PROVE Answered(<<n, i>>)
    <3>1. CASE i = Len(Calls)
      BY <2>1, <2>2, <3>1
    <3>2. CASE i <= Len(Calls) - 1
      BY <2>1, <3>2 DEF AnsweredTo
    <3> QED BY <2>3, <3>1, <3>2
  <2> QED BY <2>1, <2>4 DEF AnsweredTo
<1>7. \A d : Answered(d) => Answered(d)'
  BY <1>1 DEF Answered
<1>8. n' = n /\ Calls' = Calls
  BY <1>1 DEF n, Calls
<1>9. SeenBefore' /\ AtLastCall'
  <2>1. CASE rec' = rec
    BY <1>1, <1>7, <2>1, AnswersStay DEF AnswersInv
  <2>2. CASE /\ rec # None /\ rec' # None /\ rec'.phase = r.phase /\ rec'.batch = r.batch
             /\ allowedPhaseTransition(rec.phase, r.phase)
    <3>1. AtLastCall'
      BY <1>1, <1>2, <1>4, <1>6, <1>7, <2>2, ConfirmedLast
    <3>2. SeenBefore'
      BY <1>1, <1>7, <1>8 DEF AnswersInv, SeenBefore, Answered
    <3> QED BY <3>1, <3>2
  <2> QED BY <1>5, <2>1, <2>2
<1>10. task' # "queued"
  BY <1>1, NoLongerQueued
<1>11. (AnsweredTo(Len(Calls)))'
  BY <1>1, <1>6, <1>8 DEF AnsweredTo, Answered
<1>12. AnswersPlace'
  BY <1>5, <1>10, <1>11 DEF AnswersPlace, AppendPC
<1> QED BY <1>9, <1>12 DEF AnswersInv

LEMMA AnswersAround ==
  ASSUME AnswersInv, EnvStep \/ Quiet \/ UNCHANGED vars, task' = "queued" => task = "queued"
  PROVE  AnswersInv'
<1>1. UNCHANGED <<rec, asst, results>>
  BY DEF EnvStep, ChildEnds, UserCancel, CancelArrives, Shutdown, Exit, Crash, Restart, Quiet,
         vars, durable
<1>2. \A d : Answered(d) => Answered(d)'
  BY <1>1 DEF Answered
<1>3. SeenBefore' /\ AtLastCall'
  BY <1>1, <1>2, AnswersStay DEF AnswersInv
<1>4. CASE Exit \/ Crash \/ Restart
  <2>1. task' = task /\ \/ pc' = "down"
                        \/ pc' = "scan" /\ task # "queued"
                        \/ pc' = "claim" /\ task = "queued"
    BY <1>4 DEF Exit, Crash, Restart, Lose, durable, Goto
  <2>2. AnswersPlace'
    BY <1>1, <2>1 DEF AnswersInv, AnswersPlace, AppendPC
  <2> QED BY <1>3, <2>2 DEF AnswersInv
<1>5. CASE ChildEnds \/ UserCancel \/ CancelArrives \/ Shutdown \/ Quiet \/ UNCHANGED vars
  <2>1. pc' = pc /\ cur' = cur
    BY <1>5 DEF ChildEnds, UserCancel, CancelArrives, Shutdown, Quiet, vars, loop
  <2>2. n' = n /\ Calls' = Calls /\ \A k : AnsweredTo(k)' <=> AnsweredTo(k)
    BY <1>1 DEF AnsweredTo, Answered, Calls, n
  <2>3. (AnsweredTo(cur - 1))' = AnsweredTo(cur - 1) /\ (AnsweredTo(cur))' = AnsweredTo(cur)
        /\ (AnsweredTo(Len(Calls)))' = AnsweredTo(Len(Calls)) /\ (Calls[cur])' = Calls[cur]
    BY <1>1, <2>1, <2>2 DEF AnsweredTo, Answered
  <2>4. AnswersPlace'
    BY <1>1, <2>1, <2>2, <2>3 DEF AnswersInv, AnswersPlace
  <2> QED BY <1>3, <2>4 DEF AnswersInv
<1> QED BY <1>4, <1>5 DEF EnvStep

LEMMA AnswersStep == SpawnsComeLast /\ RecoveryInv /\ AnswersInv /\ [Next]_vars => AnswersInv'
<1> SUFFICES ASSUME SpawnsComeLast, RecoveryInv, AnswersInv, [Next]_vars PROVE AnswersInv'
  OBVIOUS
<1>1. task' = "queued" => task = "queued"
  BY NeverQueuedAgain
<1>2. CASE LiveStep
  BY <1>1, <1>2, AnswersStart, AnswersProvider, AnswersModel, AnswersPersisted, AnswersPending,
     AnswersCall, AnswersAdmitted, AnswersAppended, AnswersConfirmed, AnswersEnd, AnswersClosed
     DEF LiveStep
<1>3. CASE RecoveryStep
  BY <1>1, <1>3, AnswersEnd, AnswersClosed, AnswersResumed, AnswersRecovered,
     AnswersRecoveredConfirmed DEF RecoveryStep
<1>4. CASE EnvStep \/ Quiet \/ UNCHANGED vars
  BY <1>1, <1>4, AnswersAround
<1> QED BY <1>2, <1>3, <1>4 DEF Next

(***************************************************************************)
(* tool_loop.go runProviderLoop, live and entered again by ResumeTurn: the *)
(* provider is called only with every call of every message answered, when *)
(* a child is spawned by the last call of its message.  Without that a turn*)
(* that resumes leaves the calls after the spawn unanswered; that the code *)
(* allows such messages is described in README.md, section 3.              *)
(***************************************************************************)
THEOREM ModelSeesEveryAnswer == SpawnsComeLast => (Spec => []ModelSeesAnswers)
<1> SUFFICES ASSUME SpawnsComeLast PROVE Spec => []ModelSeesAnswers
  OBVIOUS
<1>1. Init => AnswersInv
  BY DEF Init, AnswersInv, SeenBefore, AtLastCall, AnswersPlace, AppendPC
<1>2. RecoveryInv /\ AnswersInv => ModelSeesAnswers
  <2> SUFFICES ASSUME RecoveryInv, AnswersInv, pc = "model",
                      NEW m \in DOMAIN asst, NEW i \in DOMAIN asst[m]
               PROVE  Answered(<<m, i>>)
    BY DEF ModelSeesAnswers
  <2>1. asst \in Seq(Response) /\ n \in Nat /\ m \in 1..n
    BY DEF RecoveryInv, DurableInv, DurableType, n
  <2>2. CASE m < n
    BY <2>2 DEF AnswersInv, SeenBefore
  <2>3. CASE m = n
    <3>1. n > 0 /\ i \in DOMAIN Calls
      BY <2>1, <2>3 DEF Calls
    <3>2. i <= Len(Calls) /\ AnsweredTo(Len(Calls))
      BY <3>1, CallsAtHand DEF RecoveryInv, DurableInv, AnswersInv, AnswersPlace
    <3> QED BY <2>3, <3>1, <3>2 DEF AnsweredTo
  <2> QED BY <2>1, <2>2, <2>3
<1>3. RecoveryInv /\ AnswersInv /\ [Next]_vars => AnswersInv'
  BY AnswersStep
<1> QED BY <1>1, <1>2, <1>3, InitHolds, StepKeeps, PTL DEF Spec

-----------------------------------------------------------------------------
(* The rounds of a turn.  iter counts the messages whose calls were begun,  *)
(* and a record from which a turn may be resumed has the count with the     *)
(* message of its own batch, whichever process wrote it.                    *)

RoundPhase == {"tool_pending", "waiting_external_child", "child_resolved"}
CallPC == {"bodies", "confirm"} \cup AppendPC
RecoveredPC == {"recover", "append_once", "confirm_recovered"}

RecordRounds(r, R) ==
  r # None =>
    /\ r.iter <= MaxToolIterations
    /\ r.phase \in RoundPhase =>
         r.batch # None /\ Cardinality(R \cup {r.batch.assistant}) <= r.iter

RoundsPlace ==
  /\ pc \in LoopPC => Cardinality(Rounds) <= iter
  /\ pc \in CallPC \cup {"pending"} => Cardinality(Rounds \cup {n}) <= iter
  /\ pc \in CallPC => rec.batch # None /\ rec.batch.assistant = n /\ rec.iter = iter
  /\ pc \in RecoveredPC => rec.phase \in RoundPhase /\ rec.iter = iter
  /\ pc \in {"model", "persisted"} => rec.phase = "provider_pending"

RoundsInv ==
  /\ iter <= MaxToolIterations /\ RoundsBounded
  /\ rec = None => Rounds = {}
  /\ RecordRounds(rec, Rounds) /\ RecordRounds(mem, Rounds)
  /\ RoundsPlace

LEMMA RoundsFinite ==
  ASSUME RecoveryInv
  PROVE  /\ IsFiniteSet(Rounds) /\ Cardinality(Rounds) \in Nat
         /\ \A m : /\ IsFiniteSet(Rounds \cup {m}) /\ Cardinality(Rounds \cup {m}) \in Nat
                   /\ Cardinality(Rounds) <= Cardinality(Rounds \cup {m})
                   /\ Cardinality(Rounds \cup {m}) <= Cardinality(Rounds) + 1
<1>1. n \in Nat
  BY DEF RecoveryInv, DurableInv, DurableType, n
<1>2. ASSUME NEW m \in Rounds PROVE m \in 0..n
  <2>1. PICK c \in CallRef : c[1] = m /\ (Touched(c) \/ Answered(c))
    <3>1. CASE \E k \in DOMAIN ran : ran[k][1] = m
      BY <3>1 DEF RecoveryInv, DurableInv, DurableType, Touched
    <3>2. CASE \E c \in DOMAIN child : c[1] = m
      BY <3>2 DEF RecoveryInv, DurableInv, DurableType, Touched
    <3>3. CASE \E k \in DOMAIN results : results[k].call[1] = m
      <4>1. PICK k \in DOMAIN results : results[k].call[1] = m
        BY <3>3
      <4>2. results[k] \in Answer
        BY DEF RecoveryInv, DurableInv, DurableType
      <4>3. results[k].call \in CallRef
        BY <4>2 DEF Answer
      <4> QED BY <4>1, <4>3 DEF Answered
    <3> QED BY <1>2, <3>1, <3>2, <3>3 DEF Rounds
  <2>2. c[1] <= n
    BY <2>1 DEF RecoveryInv, DurableInv, CallsInv
  <2>3. c[1] \in Nat
    BY DEF CallRef
  <2> QED BY <1>1, <2>1, <2>2, <2>3
<1>3. IsFiniteSet(0..n)
  BY <1>1, FS_Interval
<1>4. IsFiniteSet(Rounds)
  BY <1>2, <1>3, FS_Subset
<1>5. Cardinality(Rounds) \in Nat
  BY <1>4, FS_CardinalityType
<1>6. ASSUME NEW m
      PROVE  /\ IsFiniteSet(Rounds \cup {m}) /\ Cardinality(Rounds \cup {m}) \in Nat
             /\ Cardinality(Rounds) <= Cardinality(Rounds \cup {m})
             /\ Cardinality(Rounds \cup {m}) <= Cardinality(Rounds) + 1
  <2>1. /\ IsFiniteSet(Rounds \cup {m})
        /\ \/ Cardinality(Rounds \cup {m}) = Cardinality(Rounds)
           \/ Cardinality(Rounds \cup {m}) = Cardinality(Rounds) + 1
    BY <1>4, FS_AddElement
  <2> QED BY <1>5, <2>1
<1> QED BY <1>4, <1>5, <1>6

LEMMA RoundsStay ==
  ASSUME UNCHANGED <<asst, results, ran>>, DOMAIN child' = DOMAIN child
  PROVE  Rounds' = Rounds /\ n' = n
BY DEF Rounds, n

\* A record is written, or an update fails, applied or not.
LEMMA RecordRoundsKept ==
  ASSUME NEW R, RecordRounds(rec, R), RecordRounds(mem, R),
         NEW r, rec # None => r \in Record /\ RecordRounds(r, R),
         NEW b, Written(r) \/ NotWritten(r, b)
  PROVE  /\ RecordRounds(rec', R) /\ RecordRounds(mem', R) /\ (rec' = None => rec = None)
         /\ Written(r) => /\ rec' # None /\ rec'.phase = r.phase /\ rec'.batch = r.batch
                          /\ rec'.iter = r.iter
<1>1. ASSUME Accepted(r)
      PROVE  /\ RecordRounds(Stamped(r), R) /\ Stamped(r) # None
             /\ Stamped(r).phase = r.phase /\ Stamped(r).batch = r.batch /\ Stamped(r).iter = r.iter
  <2>1. r \in Record /\ RecordRounds(r, R)
    BY <1>1 DEF Accepted
  <2>2. /\ Stamped(r) \in Record /\ Stamped(r).phase = r.phase /\ Stamped(r).batch = r.batch
        /\ Stamped(r).iter = r.iter
    BY <2>1, StampedFields
  <2> QED BY <2>1, <2>2 DEF RecordRounds
<1>2. CASE Written(r)
  BY <1>1, <1>2 DEF Written
<1>3. CASE NotWritten(r, b) /\ ~ Written(r)
  <2>1. mem' = mem /\ (rec' = rec \/ (Accepted(r) /\ rec' = Stamped(r)))
    BY <1>3 DEF NotWritten
  <2> QED BY <1>1, <1>3, <2>1
<1> QED BY <1>2, <1>3

\* Away from the loop only the records matter.
LEMMA RoundsAway ==
  ASSUME RoundsInv, Rounds' = Rounds, pc' \notin LoopPC, iter' <= MaxToolIterations,
         rec' = None => rec = None, RecordRounds(rec', Rounds), RecordRounds(mem', Rounds)
  PROVE  RoundsInv'
<1>1. pc' \notin CallPC \cup {"pending", "model", "persisted"} \cup RecoveredPC
  BY DEF CallPC, RecoveredPC, LoopPC
<1>2. RoundsPlace'
  BY <1>1 DEF RoundsPlace
<1> QED BY <1>2 DEF RoundsInv, RoundsBounded

\* A checkpoint of the loop is written, or its step fails.
LEMMA CheckpointRounds ==
  ASSUME RecoveryInv, RoundsInv, UNCHANGED <<asst, results, child, ran, iter>>,
         NEW r \in Record, RecordRounds(r, Rounds),
         NEW p, NEW e, NEW q, Checkpoint(r, p, e, q), q \notin LoopPC, p \notin RecoveredPC,
         p \in LoopPC => Cardinality(Rounds) <= iter,
         p \in CallPC \cup {"pending"} => Cardinality(Rounds \cup {n}) <= iter,
         p \in CallPC => r.batch # None /\ r.batch.assistant = n /\ r.iter = iter,
         p \in {"model", "persisted"} => r.phase = "provider_pending"
  PROVE  RoundsInv'
<1>1. Rounds' = Rounds /\ n' = n
  BY RoundsStay
<1>2. RecordRounds(rec, Rounds) /\ RecordRounds(mem, Rounds)
  BY DEF RoundsInv
<1>3. CASE Written(r) /\ Goto(p)
  <2>1. /\ RecordRounds(rec', Rounds) /\ RecordRounds(mem', Rounds)
        /\ rec' # None /\ rec'.phase = r.phase /\ rec'.batch = r.batch /\ rec'.iter = r.iter
    BY <1>2, <1>3, RecordRoundsKept
  <2>2. RoundsPlace'
    BY <1>1, <1>3, <2>1 DEF RoundsPlace, Goto
  <2> QED BY <1>1, <2>1, <2>2 DEF RoundsInv, RoundsBounded
<1>4. CASE NotWritten(r, TRUE) /\ Fail(e, q)
  <2>1. RecordRounds(rec', Rounds) /\ RecordRounds(mem', Rounds) /\ (rec' = None => rec = None)
    BY <1>2, <1>4, RecordRoundsKept
  <2> QED BY <1>1, <1>4, <2>1, RoundsAway DEF Fail, Goto, RoundsInv
<1> QED BY <1>3, <1>4 DEF Checkpoint

\* A call of the message at hand is begun or answered: its round is counted.
LEMMA RoundGrows ==
  ASSUME RecoveryInv, RoundsInv, UNCHANGED <<rec, mem, asst, iter>>,
         NEW m, Rounds' \subseteq Rounds \cup {m},
         \/ /\ pc \in CallPC /\ m = n
            /\ pc' \in CallPC \/ pc' \notin LoopPC
         \/ /\ pc \in RecoveredPC /\ m = rec.batch.assistant
            /\ pc' \in RecoveredPC \/ pc' \notin LoopPC
  PROVE  RoundsInv'
<1>1. pc \in LoopPC
  BY DEF CallPC, RecoveredPC, LoopPC, AppendPC
<1>2. mem = rec /\ mem # None /\ iter \in Nat
  BY <1>1, HeldRecord
<1>3. n' = n
  BY DEF n
<1>4. Cardinality(Rounds \cup {m}) <= iter
  BY <1>2 DEF RoundsInv, RoundsPlace, RecordRounds
<1>5. m = rec.batch.assistant /\ rec.iter = iter
  BY DEF RoundsInv, RoundsPlace
<1>6. /\ Rounds' \cup {m} \subseteq Rounds \cup {m} /\ IsFiniteSet(Rounds \cup {m})
      /\ Cardinality(Rounds \cup {m}) \in Nat
  BY RoundsFinite
<1>7. /\ Cardinality(Rounds' \cup {m}) <= Cardinality(Rounds \cup {m})
      /\ Cardinality(Rounds' \cup {m}) \in Nat
  BY <1>6, FS_Subset, FS_CardinalityType
<1>8. Cardinality(Rounds') <= Cardinality(Rounds \cup {m}) /\ Cardinality(Rounds') \in Nat
  BY <1>6, FS_Subset, FS_CardinalityType
<1>9. Cardinality(Rounds' \cup {m}) <= iter /\ Cardinality(Rounds') <= iter
  BY <1>2, <1>4, <1>6, <1>7, <1>8
<1>10. RecordRounds(rec', Rounds') /\ RecordRounds(mem', Rounds')
  BY <1>2, <1>5, <1>9 DEF RoundsInv, RecordRounds
<1>11. RoundsPlace'
  <2>1. pc' \notin {"pending", "model", "persisted"}
    BY DEF CallPC, RecoveredPC, AppendPC, LoopPC
  <2>2. pc' \in CallPC => pc \in CallPC
    BY DEF CallPC, RecoveredPC, AppendPC, LoopPC
  <2>3. pc' \in RecoveredPC => pc \in RecoveredPC
    BY DEF CallPC, RecoveredPC, AppendPC, LoopPC
  <2>4. pc' \in CallPC => m = n
    BY <2>2 DEF RoundsInv, RoundsPlace
  <2> QED BY <1>3, <1>9, <2>1, <2>2, <2>3, <2>4 DEF RoundsInv, RoundsPlace
<1>12. RoundsBounded' /\ iter' <= MaxToolIterations
  <2>1. MaxToolIterations \in Nat
    BY RecoveryAssumption
  <2> QED BY <1>2, <1>8, <1>9, <2>1 DEF RoundsInv, RoundsBounded
<1> QED BY <1>2, <1>10, <1>11, <1>12 DEF RoundsInv

\* Steps that write no record and begin no round.
LEMMA RoundsStart ==
  ASSUME RecoveryInv, RoundsInv, ClaimTask \/ BeginExecution \/ AppendInput
  PROVE  RoundsInv'
<1>1. Rounds' = Rounds /\ iter' = iter
  BY RoundsStay DEF ClaimTask, BeginExecution, AppendInput, durable, loop
<1>2. iter \in Nat
  BY DEF RecoveryInv, PlaceInv, ControlType
<1>3. CASE ClaimTask
  <2>1. rec' = rec /\ mem' = mem /\ pc' \in {"create", "idle"}
    BY <1>3 DEF ClaimTask, Goto
  <2> QED BY <1>1, <2>1, RoundsAway DEF RoundsInv, LoopPC, AppendPC
<1>4. CASE BeginExecution
  <2>1. \/ rec' = rec /\ mem' = mem /\ pc' = "settle"
        \/ rec = None /\ rec' = PreparedRecord /\ mem' = PreparedRecord /\ pc' = "input"
        \/ rec = None /\ rec' = PreparedRecord /\ mem' = mem /\ pc' = "settle"
    BY <1>4 DEF BeginExecution, Goto, Fail
  <2>2. PreparedRecord.phase = "prepared" /\ PreparedRecord.iter = 0
    BY DEF PreparedRecord
  <2>3. PreparedRecord # None
    <3>1. PreparedRecord \in Record
      BY DEF PreparedRecord, Record, Phase, WorkPhase
    <3> QED BY <3>1
  <2>4. RecordRounds(PreparedRecord, Rounds)
    BY <2>2, RecoveryAssumption DEF RecordRounds, RoundPhase
  <2>5. CASE pc' = "settle"
    BY <1>1, <2>1, <2>3, <2>4, <2>5, RoundsAway DEF RoundsInv, LoopPC, AppendPC
  <2>6. CASE rec = None /\ rec' = PreparedRecord /\ mem' = PreparedRecord /\ pc' = "input"
    <3>1. Cardinality(Rounds) = 0
      BY <2>6, FS_EmptySet DEF RoundsInv
    <3>2. RoundsPlace'
      BY <1>1, <1>2, <2>6, <3>1 DEF RoundsPlace, CallPC, RecoveredPC, AppendPC
    <3> QED BY <1>1, <2>3, <2>4, <2>6, <3>2 DEF RoundsInv, RoundsBounded
  <2> QED BY <2>1, <2>5, <2>6
<1>5. CASE AppendInput
  <2>1. rec' = rec /\ mem' = mem /\ pc = "input" /\ pc' \in {"provider", "finish"}
    BY <1>5 DEF AppendInput, durable, Goto, Fail
  <2>2. RoundsPlace'
    BY <1>1, <2>1 DEF RoundsInv, RoundsPlace, CallPC, RecoveredPC, AppendPC, LoopPC
  <2> QED BY <1>1, <2>1, <2>2 DEF RoundsInv, RoundsBounded
<1> QED BY <1>3, <1>4, <1>5

LEMMA RoundsProvider ==
  ASSUME RecoveryInv, RoundsInv, ProviderPending
  PROVE  RoundsInv'
<1> PICK r : r = SameBatch("provider_pending", iter)
  OBVIOUS
<1>1. UNCHANGED <<asst, results, child, ran, iter>> /\ pc = "provider"
      /\ Checkpoint(r, "model", "error", "return")
  BY DEF ProviderPending, loop, SameBatch
<1>2. r \in Record /\ r.phase = "provider_pending" /\ r.iter = iter
  <2>1. mem \in Record /\ iter \in Nat /\ mem.batch \in Batch \cup {None}
        /\ "provider_pending" \in Phase
    BY <1>1, HeldRecord DEF LoopPC, Phase, WorkPhase
  <2> QED BY <2>1, RecordUpdate
<1>3. RecordRounds(r, Rounds)
  BY <1>2 DEF RecordRounds, RoundPhase, RoundsInv
<1>4. Cardinality(Rounds) <= iter
  BY <1>1 DEF RoundsInv, RoundsPlace, LoopPC
<1>5. "return" \notin LoopPC /\ "model" \notin RecoveredPC \cup CallPC \cup {"pending"}
  BY DEF LoopPC, AppendPC, RecoveredPC, CallPC
<1> QED BY <1>1, <1>2, <1>3, <1>4, <1>5, CheckpointRounds

LEMMA RoundsModel ==
  ASSUME RecoveryInv, RoundsInv, CallModel
  PROVE  RoundsInv'
<1>1. UNCHANGED <<rec, results, child, ran, iter, mem>> /\ pc = "model"
      /\ pc' \in {"persisted", "return"}
  BY DEF CallModel, loop, Goto, Fail
<1>2. Rounds' = Rounds
  BY <1>1 DEF Rounds
<1>3. RoundsPlace'
  BY <1>1, <1>2 DEF RoundsInv, RoundsPlace, CallPC, RecoveredPC, AppendPC, LoopPC
<1> QED BY <1>1, <1>2, <1>3 DEF RoundsInv, RoundsBounded

\* The count goes up before the first call of a message, unless the limit is
\* reached.
LEMMA RoundsPersisted ==
  ASSUME RecoveryInv, RoundsInv, AssistantPersisted
  PROVE  RoundsInv'
<1> PICK r : r = OtherIteration(iter)
  OBVIOUS
<1>1. /\ UNCHANGED <<asst, results, child, ran>> /\ pc = "persisted"
      /\ \/ Written(r) /\ pc' \in {"finalize", "return"} /\ iter' = iter
         \/ Written(r) /\ pc' = "pending" /\ ~ Exhausted /\ iter' = iter + 1
         \/ NotWritten(r, TRUE) /\ pc' = "return" /\ iter' = iter
  BY DEF AssistantPersisted, OtherIteration, Goto, Fail, loop
<1>2. Rounds' = Rounds /\ n' = n
  BY <1>1, RoundsStay
<1>3. /\ mem \in Record /\ mem = rec /\ iter \in Nat /\ mem.phase = "provider_pending"
      /\ mem.batch \in Batch \cup {None} /\ mem.phase \in Phase
  BY <1>1, HeldRecord DEF LoopPC, RoundsInv, RoundsPlace
<1>4. r \in Record /\ r.phase = "provider_pending" /\ r.iter = iter
  BY <1>3, RecordUpdate
<1>5. RecordRounds(r, Rounds) /\ RecordRounds(rec, Rounds) /\ RecordRounds(mem, Rounds)
  BY <1>4 DEF RecordRounds, RoundPhase, RoundsInv
<1>6. /\ RecordRounds(rec', Rounds) /\ RecordRounds(mem', Rounds) /\ (rec' = None => rec = None)
      /\ Written(r) => rec' # None
  BY <1>1, <1>4, <1>5, RecordRoundsKept
<1>7. Cardinality(Rounds) <= iter /\ iter <= MaxToolIterations
  BY <1>1 DEF RoundsInv, RoundsPlace, LoopPC
<1>8. CASE pc' = "return" /\ iter' = iter
  BY <1>2, <1>6, <1>7, <1>8, RoundsAway DEF LoopPC, AppendPC
<1>9. CASE pc' = "finalize" /\ iter' = iter
  <2>1. RoundsPlace'
    BY <1>2, <1>7, <1>9 DEF RoundsPlace, CallPC, RecoveredPC, AppendPC
  <2> QED BY <1>2, <1>6, <1>7, <1>9, <2>1 DEF RoundsInv, RoundsBounded
<1>10. CASE pc' = "pending" /\ ~ Exhausted /\ iter' = iter + 1
  <2>1. iter' <= MaxToolIterations
    BY <1>3, <1>10, RecoveryAssumption DEF Exhausted
  <2>2. /\ Cardinality(Rounds) \in Nat /\ Cardinality(Rounds \cup {n}) \in Nat
        /\ Cardinality(Rounds \cup {n}) <= Cardinality(Rounds) + 1
    BY RoundsFinite
  <2>3. Cardinality(Rounds) <= iter' /\ Cardinality(Rounds \cup {n}) <= iter'
    BY <1>3, <1>7, <1>10, <2>2
  <2>4. RoundsPlace'
    BY <1>2, <1>10, <2>3 DEF RoundsPlace, CallPC, RecoveredPC, AppendPC
  <2> QED BY <1>2, <1>6, <2>1, <2>4 DEF RoundsInv, RoundsBounded
<1> QED BY <1>1, <1>8, <1>9, <1>10

\* The calls about to run are recorded with the count.
LEMMA RoundsPending ==
  ASSUME RecoveryInv, RoundsInv, ToolsPending
  PROVE  RoundsInv'
<1> PICK b, next : /\ b = [assistant |-> n, calls |-> Checkpointed]
                   /\ next = IF ParallelSafe THEN "bodies" ELSE "call"
  OBVIOUS
<1> PICK r, s : r = SameBatch("provider_pending", iter) /\ s = NextRecord("tool_pending", iter, b)
  OBVIOUS
<1>1. UNCHANGED <<asst, results, child, ran, iter>> /\ pc = "pending"
      /\ \/ Checkpoint(r, "pending", "error", "return")
         \/ Checkpoint(s, next, "error", "return")
  BY DEF ToolsPending, SameBatch, NextRecord
<1>2. /\ mem \in Record /\ iter \in Nat /\ mem.batch \in Batch \cup {None}
      /\ {"provider_pending", "tool_pending"} \subseteq Phase
  BY <1>1, HeldRecord DEF LoopPC, Phase, WorkPhase
<1>3. Cardinality(Rounds) <= iter /\ Cardinality(Rounds \cup {n}) <= iter
      /\ iter <= MaxToolIterations
  BY <1>1 DEF RoundsInv, RoundsPlace, LoopPC
<1>4. "return" \notin LoopPC /\ "pending" \notin RecoveredPC \cup CallPC
  BY DEF LoopPC, AppendPC, RecoveredPC, CallPC
<1>5. CASE Checkpoint(r, "pending", "error", "return")
  <2>1. r \in Record /\ r.phase = "provider_pending" /\ r.iter = iter
    BY <1>2, RecordUpdate
  <2>2. RecordRounds(r, Rounds)
    BY <1>3, <2>1 DEF RecordRounds, RoundPhase
  <2> QED BY <1>1, <1>3, <1>4, <1>5, <2>1, <2>2, CheckpointRounds
<1>6. CASE Checkpoint(s, next, "error", "return")
  <2>1. b \in Batch /\ b.assistant = n
    <3>1. AtCall /\ cur \in Nat /\ n > 0
      BY <1>1 DEF RecoveryInv, PlaceInv, LivePlace, ControlType, AtCall
    <3>2. n \in Nat
      BY <3>1, CallsAtHand DEF RecoveryInv, DurableInv
    <3>3. /\ Checkpointed \in Seq(CallRecord)
          /\ \A k \in DOMAIN Checkpointed :
               Checkpointed[k].outcome = "requested" /\ Checkpointed[k].id[1] = n
      BY <3>1, CheckpointedCalls DEF RecoveryInv, DurableInv
    <3> QED BY <3>2, <3>3, RequestedBatch
  <2>2. s \in Record /\ s.phase = "tool_pending" /\ s.iter = iter /\ s.batch = b
    BY <1>2, <2>1, RecordUpdate
  <2>3. b # None
    BY <2>1
  <2>4. RecordRounds(s, Rounds)
    BY <1>3, <2>1, <2>2, <2>3 DEF RecordRounds
  <2>5. next \notin RecoveredPC /\ next \notin {"model", "persisted"}
    BY DEF RecoveredPC
  <2> QED BY <1>1, <1>3, <1>4, <1>6, <2>1, <2>2, <2>3, <2>4, <2>5, CheckpointRounds
<1> QED BY <1>1, <1>5, <1>6

\* A body starts, a child is admitted, a result is appended.
LEMMA RoundsCall ==
  ASSUME RecoveryInv, RoundsInv,
         ParallelBody \/ ParallelDone \/ DenyTool \/ InvokeTool \/ SpawnChild \/ AwaitChild
         \/ AppendResult
  PROVE  RoundsInv'
<1> PICK m : m = n
  OBVIOUS
<1>1. UNCHANGED <<rec, mem, asst, iter>> /\ pc \in CallPC /\ (pc' \in CallPC \/ pc' \notin LoopPC)
  <2> USE DEF Goto, Fail, durable, CallPC, LoopPC, AppendPC
  <2>1. CASE ParallelBody \/ ParallelDone \/ DenyTool
    BY <2>1 DEF ParallelBody, ParallelDone, DenyTool
  <2>2. CASE InvokeTool \/ AwaitChild
    BY <2>2 DEF InvokeTool, AwaitChild
  <2>3. CASE SpawnChild
    BY <2>3 DEF SpawnChild
  <2>4. CASE AppendResult
    BY <2>4 DEF AppendResult, loop
  <2> QED BY <2>1, <2>2, <2>3, <2>4
<1>2. ran \in Seq(CallRef) /\ results \in Seq(Answer)
  BY DEF RecoveryInv, DurableInv, DurableType
<1>3. ASSUME NEW c, c[1] = m,
             \/ ran' = Append(ran, c) /\ UNCHANGED <<results, child>>
             \/ DOMAIN child' = DOMAIN child \cup {c} /\ UNCHANGED <<results, ran>>
             \/ (\E v : results' = Append(results, [call |-> c, value |-> v])) /\ UNCHANGED <<child, ran>>
             \/ UNCHANGED <<results, child, ran>>
      PROVE  Rounds' \subseteq Rounds \cup {m}
  <2>1. CASE ran' = Append(ran, c) /\ UNCHANGED <<results, child>>
    <3>1. \A k \in DOMAIN ran' : ran'[k] = c \/ (k \in DOMAIN ran /\ ran'[k] = ran[k])
      BY <1>2, <2>1
    <3> QED BY <1>3, <2>1, <3>1 DEF Rounds
  <2>2. CASE DOMAIN child' = DOMAIN child \cup {c} /\ UNCHANGED <<results, ran>>
    BY <1>3, <2>2 DEF Rounds
  <2>3. CASE (\E v : results' = Append(results, [call |-> c, value |-> v])) /\ UNCHANGED <<child, ran>>
    <3>1. PICK v : results' = Append(results, [call |-> c, value |-> v])
      BY <2>3
    <3>2. \A k \in DOMAIN results' :
            results'[k].call = c \/ (k \in DOMAIN results /\ results'[k] = results[k])
      BY <1>2, <3>1
    <3> QED BY <1>3, <2>3, <3>2 DEF Rounds
  <2>4. CASE UNCHANGED <<results, child, ran>>
    BY <2>4 DEF Rounds
  <2> QED BY <1>3, <2>1, <2>2, <2>3, <2>4
<1>4. Rounds' \subseteq Rounds \cup {m}
  <2>1. \A i : Call(i)[1] = m
    BY DEF Call
  <2>2. CASE ParallelBody
    <3>1. PICK i : (ran' = Append(ran, Call(i)) \/ UNCHANGED ran) /\ UNCHANGED <<results, child>>
      BY <2>2 DEF ParallelBody
    <3> QED BY <1>3, <2>1, <3>1
  <2>3. CASE ParallelDone \/ DenyTool \/ AwaitChild
    <3>1. UNCHANGED <<results, child, ran>>
      BY <2>3 DEF ParallelDone, DenyTool, AwaitChild, durable
    <3> QED BY <1>3, <2>1, <3>1
  <2>4. CASE InvokeTool
    <3>1. ran' = Append(ran, Call(cur)) /\ UNCHANGED <<results, child>>
      BY <2>4 DEF InvokeTool
    <3> QED BY <1>3, <2>1, <3>1
  <2>5. CASE SpawnChild
    <3>1. /\ UNCHANGED <<results, ran>>
          /\ child' = child \/ DOMAIN child' = DOMAIN child \cup {Call(cur)}
      BY <2>5 DEF SpawnChild
    <3> QED BY <1>3, <2>1, <3>1
  <2>6. CASE AppendResult
    <3>1. /\ UNCHANGED <<child, ran>>
          /\ results' = results \/ results' = Append(results, [call |-> Call(cur), value |-> value])
      BY <2>6 DEF AppendResult
    <3> QED BY <1>3, <2>1, <3>1
  <2> QED BY <2>2, <2>3, <2>4, <2>5, <2>6
<1> QED BY <1>1, <1>4, RoundGrows

LEMMA RoundsAdmitted ==
  ASSUME RecoveryInv, RoundsInv, ExternalAdmitted
  PROVE  RoundsInv'
<1> PICK x : x = [id |-> Call(cur), outcome |-> "admitted", external |-> Call(cur), result |-> None]
  OBVIOUS
<1> PICK r : r = SameIteration("waiting_external_child", WithCall(1, x))
  OBVIOUS
<1>1. UNCHANGED <<asst, results, child, ran, iter>> /\ pc = "admitted"
      /\ Checkpoint(r, "await", "uncertain", "return")
  BY DEF ExternalAdmitted, SameIteration, loop
<1>2. Call(cur) \in DOMAIN child /\ mem = rec
  BY <1>1, CallOnRecord DEF RecoveryInv, PlaceInv, LivePlace
<1>3. /\ r \in Record /\ r.batch # None /\ r.phase = "waiting_external_child" /\ r.iter = mem.iter
      /\ r.batch.assistant = mem.batch.assistant
  BY <1>1, <1>2, CallOnRecord, AdmittedRecord
<1>4. /\ Cardinality(Rounds) <= iter /\ Cardinality(Rounds \cup {n}) <= iter
      /\ mem.batch.assistant = n /\ mem.iter = iter /\ iter <= MaxToolIterations
  BY <1>1, <1>2 DEF RoundsInv, RoundsPlace, LoopPC, CallPC, AppendPC
<1>5. RecordRounds(r, Rounds)
  BY <1>3, <1>4 DEF RecordRounds
<1>6. "return" \notin LoopPC /\ "await" \notin RecoveredPC
  BY DEF LoopPC, AppendPC, RecoveredPC
<1> QED BY <1>1, <1>3, <1>4, <1>5, <1>6, CheckpointRounds

LEMMA RoundsConfirmed ==
  ASSUME RecoveryInv, RoundsInv, ToolConfirmed
  PROVE  RoundsInv'
<1> PICK c, v : c = Call(cur) /\ v = value
  OBVIOUS
<1> PICK next : next = CASE cur = Len(Calls) -> "provider"
                         [] cur # Len(Calls) /\ ParallelSafe -> "append"
                         [] OTHER -> "pending"
  OBVIOUS
<1> PICK r : r = Confirmed(c, v)
  OBVIOUS
<1>1. UNCHANGED <<asst, results, child, ran, iter>> /\ pc = "confirm"
      /\ Checkpoint(r, next, "error", "return")
  BY DEF ToolConfirmed
<1>2. /\ OnRecord(c) /\ cur \in Nat /\ v \in Value /\ n > 0
      /\ \E j \in DOMAIN results : results[j] = [call |-> c, value |-> v]
  BY <1>1 DEF RecoveryInv, PlaceInv, LivePlace, ControlType, AtCall
<1>3. c \in CallRef
  BY <1>2, CallsAtHand DEF RecoveryInv, DurableInv
<1>4. /\ mem = rec /\ mem \in Record /\ GoodBatch(mem.batch) /\ iter \in Nat /\ mem.batch # None
      /\ \E k \in DOMAIN mem.batch.calls : mem.batch.calls[k].id = c
  BY <1>1, <1>2, HeldRecord DEF OnRecord, LoopPC
<1>5. /\ r \in Record /\ r.batch # None /\ r.batch.assistant = mem.batch.assistant
      /\ r.iter = iter /\ r.phase \in WorkPhase
  BY <1>2, <1>3, <1>4, ConfirmedRecord
<1>6. /\ Cardinality(Rounds) <= iter /\ Cardinality(Rounds \cup {n}) <= iter
      /\ mem.batch.assistant = n /\ iter <= MaxToolIterations
  BY <1>1, <1>4 DEF RoundsInv, RoundsPlace, LoopPC, CallPC, AppendPC
<1>7. RecordRounds(r, Rounds)
  BY <1>5, <1>6 DEF RecordRounds
<1>8. "return" \notin LoopPC /\ next \in {"provider", "append", "pending"}
  BY DEF LoopPC, AppendPC
<1>9. next \notin RecoveredPC \cup {"model", "persisted"}
  BY <1>8 DEF RecoveredPC
<1> QED BY <1>1, <1>5, <1>6, <1>7, <1>8, <1>9, CheckpointRounds

LEMMA RoundsEnd ==
  ASSUME RecoveryInv, RoundsInv,
         Finalize \/ LoopFailed \/ SettleTask \/ LookupTask \/ ReconcilePending
         \/ CloseUnrecoverable
  PROVE  RoundsInv'
<1>1. UNCHANGED <<asst, results, child, ran, rec, iter>> /\ mem' = mem /\ pc' \notin LoopPC
  <2> USE DEF Goto, Fail, durable, loop, LoopPC, AppendPC
  <2>1. CASE Finalize \/ LoopFailed
    BY <2>1 DEF Finalize, LoopFailed
  <2>2. CASE SettleTask
    BY <2>2 DEF SettleTask
  <2>3. CASE LookupTask
    BY <2>3 DEF LookupTask
  <2>4. CASE ReconcilePending
    BY <2>4 DEF ReconcilePending
  <2>5. CASE CloseUnrecoverable
    BY <2>5 DEF CloseUnrecoverable
  <2> QED BY <2>1, <2>2, <2>3, <2>4, <2>5
<1> QED BY <1>1, RoundsStay, RoundsAway DEF RoundsInv

\* Records that end a turn keep its count and are not resumed from.
LEMMA RoundsClosed ==
  ASSUME RecoveryInv, RoundsInv, FinishTurn \/ AcknowledgeTask \/ InterruptTurn
  PROVE  RoundsInv'
<1>1. UNCHANGED <<asst, results, child, ran, iter>> /\ pc' \in {"settle", "idle"}
  BY DEF FinishTurn, AcknowledgeTask, InterruptTurn, Goto, loop
<1>2. /\ rec # None => rec \in Record /\ GoodBatch(rec.batch)
      /\ RecordRounds(rec, Rounds) /\ RecordRounds(mem, Rounds)
  BY DEF RecoveryInv, DurableInv, DurableType, RecordInv, RoundsInv
<1>3. RecordRounds(rec', Rounds) /\ RecordRounds(mem', Rounds) /\ (rec' = None => rec = None)
  <2>1. CASE FinishTurn
    <3>1. mem \in Record /\ GoodBatch(mem.batch) /\ mem # None
      BY <2>1 DEF FinishTurn, RecoveryInv, PlaceInv, HeldInv, DurableInv, RecordInv
    <3>2. /\ Finished \in Record /\ Finished.phase \in PendingPhase \cup {"interrupted"}
          /\ Finished.iter = mem.iter
      BY <3>1, FinishedRecord
    <3>3. RecordRounds(Finished, Rounds)
      BY <1>2, <3>1, <3>2 DEF RecordRounds, RoundPhase, PendingPhase
    <3>4. Written(Finished) \/ NotWritten(Finished, FALSE)
      BY <2>1 DEF FinishTurn
    <3> QED BY <1>2, <3>2, <3>3, <3>4, RecordRoundsKept
  <2>2. CASE AcknowledgeTask
    <3> PICK r : r = [rec EXCEPT !.phase = AcknowledgedPhase(rec.phase)]
      OBVIOUS
    <3>1. \/ rec # None /\ PendingTerminal(rec) /\ (Written(r) \/ NotWritten(r, FALSE))
          \/ UNCHANGED <<rec, mem>>
      BY <2>2 DEF AcknowledgeTask
    <3>2. CASE rec # None /\ PendingTerminal(rec) /\ (Written(r) \/ NotWritten(r, FALSE))
      <4>1. r \in Record /\ r.phase = AcknowledgedPhase(rec.phase) /\ r.iter = rec.iter
        BY <1>2, <3>2, AcknowledgedRecord
      <4>2. r.phase \notin RoundPhase
        BY <3>2, <4>1 DEF AcknowledgedPhase, PendingTerminal, PendingPhase, RoundPhase
      <4>3. RecordRounds(r, Rounds)
        BY <1>2, <3>2, <4>1, <4>2 DEF RecordRounds
      <4> QED BY <1>2, <3>2, <4>1, <4>3, RecordRoundsKept
    <3> QED BY <1>2, <3>1, <3>2
  <2>3. CASE InterruptTurn
    <3> PICK r : r = Interrupted(rec, "interrupted")
      OBVIOUS
    <3>1. UNCHANGED <<rec, mem>> \/ Written(r) \/ \E b : NotWritten(r, b)
      BY <2>3 DEF InterruptTurn
    <3>2. rec # None => r \in Record /\ RecordRounds(r, Rounds)
      <4>1. SUFFICES ASSUME rec # None PROVE r \in Record /\ RecordRounds(r, Rounds)
        OBVIOUS
      <4>2. r \in Record /\ r.phase = "interrupted" /\ r.iter = rec.iter
        BY <1>2, <4>1, InterruptedRecord DEF Phase, TerminalPhase
      <4> QED BY <1>2, <4>1, <4>2 DEF RecordRounds, RoundPhase
    <3>3. Written(r) \/ (\E b : NotWritten(r, b)) =>
            RecordRounds(rec', Rounds) /\ RecordRounds(mem', Rounds) /\ (rec' = None => rec = None)
      BY <1>2, <3>2, RecordRoundsKept
    <3> QED BY <1>2, <3>1, <3>3
  <2> QED BY <2>1, <2>2, <2>3
<1>4. pc' \notin LoopPC
  BY <1>1 DEF LoopPC, AppendPC
<1> QED BY <1>1, <1>3, <1>4, RoundsStay, RoundsAway DEF RoundsInv

\* A resumed turn goes on with the count of its record.
LEMMA RoundsResumed ==
  ASSUME RecoveryInv, RoundsInv, ResumeTurn
  PROVE  RoundsInv'
<1> PICK r : r = Interrupted(rec, "interrupting")
  OBVIOUS
<1>1. UNCHANGED <<asst, results, child, ran>> /\ pc = "decide"
      /\ \/ /\ rec.phase \in ResumePhase /\ rec' = rec /\ mem' = rec /\ iter' = rec.iter
            /\ pc' \in {"provider", "recover"}
         \/ (Written(r) \/ NotWritten(r, FALSE)) /\ pc' = "settle" /\ iter' = iter
  BY DEF ResumeTurn, Goto, Fail
<1>2. /\ rec # None /\ rec \in Record /\ GoodBatch(rec.batch)
      /\ RecordRounds(rec, Rounds) /\ RecordRounds(mem, Rounds)
  BY <1>1 DEF RecoveryInv, PlaceInv, HeldInv, DurableInv, DurableType, RecordInv, RoundsInv
<1>3. Rounds' = Rounds /\ n' = n
  BY <1>1, RoundsStay
<1>4. CASE (Written(r) \/ NotWritten(r, FALSE)) /\ pc' = "settle" /\ iter' = iter
  <2>1. r \in Record /\ r.phase = "interrupting" /\ r.iter = rec.iter
    BY <1>2, InterruptedRecord DEF Phase, PendingPhase
  <2>2. RecordRounds(r, Rounds)
    BY <1>2, <2>1 DEF RecordRounds, RoundPhase
  <2>3. RecordRounds(rec', Rounds) /\ RecordRounds(mem', Rounds) /\ (rec' = None => rec = None)
    BY <1>2, <1>4, <2>1, <2>2, RecordRoundsKept
  <2> QED BY <1>3, <1>4, <2>3, RoundsAway DEF RoundsInv, LoopPC, AppendPC
<1>5. CASE /\ rec.phase \in ResumePhase /\ rec' = rec /\ mem' = rec /\ iter' = rec.iter
           /\ pc' \in {"provider", "recover"}
  <2>1. rec.phase \in RoundPhase
    BY <1>5 DEF ResumePhase, RoundPhase
  <2> PICK m : m = rec.batch.assistant
    OBVIOUS
  <2>2. Cardinality(Rounds \cup {m}) <= rec.iter /\ rec.iter <= MaxToolIterations
    BY <1>2, <2>1 DEF RecordRounds
  <2>3. rec.iter \in Nat
    BY <1>2, RecordFields
  <2>4. /\ Cardinality(Rounds) \in Nat /\ Cardinality(Rounds \cup {m}) \in Nat
        /\ Cardinality(Rounds) <= Cardinality(Rounds \cup {m})
    BY RoundsFinite
  <2>5. Cardinality(Rounds) <= iter'
    BY <1>5, <2>2, <2>3, <2>4
  <2>6. RoundsPlace'
    BY <1>3, <1>5, <2>1, <2>5 DEF RoundsPlace, CallPC, RecoveredPC, AppendPC
  <2> QED BY <1>2, <1>3, <1>5, <2>2, <2>6 DEF RoundsInv, RoundsBounded
<1> QED BY <1>1, <1>4, <1>5

LEMMA RoundsRecovered ==
  ASSUME RecoveryInv, RoundsInv, AwaitRecovered \/ AppendRecovered
  PROVE  RoundsInv'
<1> PICK c, v : c = RecoveredCall /\ v = value
  OBVIOUS
<1> PICK m : m = rec.batch.assistant
  OBVIOUS
<1>1. /\ UNCHANGED <<rec, mem, asst, child, ran, iter>> /\ pc \in {"recover", "append_once"}
      /\ pc' \in {"append_once", "confirm_recovered", "finish"}
      /\ results' = results \/ results' = Append(results, [call |-> c, value |-> v])
  BY DEF AwaitRecovered, AppendRecovered, durable, loop, Goto, Fail
<1>2. results \in Seq(Answer) /\ c[1] = m
  BY <1>1, RecoveredOnRecord DEF RecoveryInv, DurableInv, DurableType
<1>3. \A k \in DOMAIN results' :
        results'[k].call = c \/ (k \in DOMAIN results /\ results'[k] = results[k])
  BY <1>1, <1>2
<1>4. Rounds' \subseteq Rounds \cup {m}
  BY <1>1, <1>2, <1>3 DEF Rounds
<1>5. pc \in RecoveredPC /\ (pc' \in RecoveredPC \/ pc' \notin LoopPC)
  BY <1>1 DEF RecoveredPC, LoopPC, AppendPC
<1> QED BY <1>1, <1>4, <1>5, RoundGrows

LEMMA RoundsRecoveredConfirmed ==
  ASSUME RecoveryInv, RoundsInv, ConfirmRecovered
  PROVE  RoundsInv'
<1> PICK c, v, e : c = RecoveredCall /\ v = value /\ e = IF ctxDone THEN "canceled" ELSE "error"
  OBVIOUS
<1> PICK r : r = Confirmed(c, v)
  OBVIOUS
<1>1. UNCHANGED <<asst, results, child, ran, iter>> /\ pc = "confirm_recovered"
      /\ Checkpoint(r, "provider", e, "finish")
  BY DEF ConfirmRecovered, loop
<1>2. /\ mem = rec /\ mem \in Record /\ mem # None /\ mem.batch # None /\ GoodBatch(mem.batch)
      /\ 1 \in DOMAIN mem.batch.calls /\ c \in CallRef /\ v \in Value /\ iter \in Nat
      /\ mem.batch.calls[1].id = c
  BY <1>1, RecoveredOnRecord DEF RecoveredCall
<1>3. \E j \in DOMAIN results : results[j] = [call |-> c, value |-> v]
  BY <1>1 DEF RecoveryInv, PlaceInv, RecoveredPlace
<1>4. /\ r \in Record /\ r.iter = iter /\ r.batch # None
      /\ r.batch.assistant = mem.batch.assistant
  BY <1>2, <1>3, ConfirmedRecord
<1>5. /\ Cardinality(Rounds) <= iter /\ iter <= MaxToolIterations
      /\ Cardinality(Rounds \cup {mem.batch.assistant}) <= iter
  BY <1>1, <1>2 DEF RoundsInv, RoundsPlace, LoopPC, RecoveredPC, RecordRounds
<1>6. RecordRounds(r, Rounds)
  BY <1>4, <1>5 DEF RecordRounds
<1>7. /\ "finish" \notin LoopPC
      /\ "provider" \notin RecoveredPC \cup CallPC \cup {"pending", "model", "persisted"}
  BY DEF LoopPC, AppendPC, RecoveredPC, CallPC
<1> QED BY <1>1, <1>4, <1>5, <1>6, <1>7, CheckpointRounds

LEMMA RoundsAround ==
  ASSUME RecoveryInv, RoundsInv, EnvStep \/ Quiet \/ UNCHANGED vars
  PROVE  RoundsInv'
<1>1. UNCHANGED <<rec, asst, results, ran>> /\ DOMAIN child' = DOMAIN child
  BY DEF EnvStep, ChildEnds, UserCancel, CancelArrives, Shutdown, Exit, Crash, Restart, Quiet,
         vars, durable
<1>2. Rounds' = Rounds /\ n' = n
  BY <1>1, RoundsStay
<1>3. CASE Exit \/ Crash \/ Restart
  <2>1. /\ mem' \in {mem, None} /\ iter' \in {iter, 0} /\ pc' \notin LoopPC
    BY <1>3 DEF Exit, Crash, Restart, Lose, Goto, LoopPC, AppendPC
  <2>2. iter' <= MaxToolIterations
    BY <2>1, RecoveryAssumption DEF RoundsInv
  <2>3. RecordRounds(mem', Rounds)
    BY <2>1 DEF RoundsInv, RecordRounds
  <2> QED BY <1>1, <1>2, <2>1, <2>2, <2>3, RoundsAway DEF RoundsInv
<1>4. CASE ChildEnds \/ UserCancel \/ CancelArrives \/ Shutdown \/ Quiet \/ UNCHANGED vars
  <2>1. UNCHANGED <<pc, mem, iter>>
    BY <1>4 DEF ChildEnds, UserCancel, CancelArrives, Shutdown, Quiet, vars, loop
  <2>2. RoundsPlace'
    BY <1>1, <1>2, <2>1 DEF RoundsInv, RoundsPlace
  <2> QED BY <1>1, <1>2, <2>1, <2>2 DEF RoundsInv, RoundsBounded
<1> QED BY <1>3, <1>4 DEF EnvStep

LEMMA RoundsStep == RecoveryInv /\ RoundsInv /\ [Next]_vars => RoundsInv'
<1> SUFFICES ASSUME RecoveryInv, RoundsInv, [Next]_vars PROVE RoundsInv'
  OBVIOUS
<1>1. CASE LiveStep
  BY <1>1, RoundsStart, RoundsProvider, RoundsModel, RoundsPersisted, RoundsPending, RoundsCall,
     RoundsAdmitted, RoundsConfirmed, RoundsEnd, RoundsClosed DEF LiveStep
<1>2. CASE RecoveryStep
  BY <1>2, RoundsEnd, RoundsClosed, RoundsResumed, RoundsRecovered, RoundsRecoveredConfirmed
     DEF RecoveryStep
<1>3. CASE EnvStep \/ Quiet \/ UNCHANGED vars
  BY <1>3, RoundsAround
<1> QED BY <1>1, <1>2, <1>3 DEF Next

LEMMA RoundsInit == Init => RoundsInv
<1> SUFFICES ASSUME Init PROVE RoundsInv
  OBVIOUS
<1>1. rec = None /\ mem = None /\ iter = 0 /\ pc = "claim" /\ Rounds = {}
  BY DEF Init, Rounds
<1>2. Cardinality(Rounds) = 0
  BY <1>1, FS_EmptySet
<1> QED BY <1>1, <1>2, RecoveryAssumption
        DEF RoundsInv, RoundsBounded, RecordRounds, RoundsPlace, LoopPC, CallPC, RecoveredPC, AppendPC

(***************************************************************************)
(* tool_loop.go:155 and :61: a turn begins the calls of at most             *)
(* maxToolIterations messages, however often it is stopped and resumed.     *)
(***************************************************************************)
THEOREM RoundsAreBounded == Spec => []RoundsBounded
<1>1. RoundsInv => RoundsBounded
  BY DEF RoundsInv
<1> QED BY <1>1, RoundsInit, RoundsStep, InitHolds, StepKeeps, PTL DEF Spec

-----------------------------------------------------------------------------
(* Types.  What RecoveryInv, OutcomeInv and RoundsInv leave to say: the     *)
(* bounds of the model, the errors, and that a child has a message.         *)

Errors == {"none", "error", "canceled", "uncertain", "unsafe", "turn_cancelled"}

TypeRest ==
  /\ n <= MaxMessages /\ \A c \in DOMAIN child : c[1] > 0
  /\ faults \in [count : 0..MaxFaults, lost : BOOLEAN]
  /\ err \in Errors

LEMMA FailingCounts ==
  ASSUME faults \in [count : 0..MaxFaults, lost : BOOLEAN], NEW lost \in BOOLEAN, Failing(lost)
  PROVE  faults' \in [count : 0..MaxFaults, lost : BOOLEAN]
<1>1. /\ faults.count \in 0..MaxFaults /\ faults.count < MaxFaults /\ faults.lost \in BOOLEAN
      /\ faults' = [count |-> faults.count + 1, lost |-> faults.lost \/ lost]
  BY DEF Failing
<1>2. faults.count + 1 \in 0..MaxFaults
  BY <1>1, RecoveryAssumption
<1>3. (faults.lost \/ lost) \in BOOLEAN
  OBVIOUS
<1> QED BY <1>1, <1>2, <1>3

LEMMA FaultsOfUpdate ==
  ASSUME NEW r, NEW b, Written(r) \/ NotWritten(r, b)
  PROVE  UNCHANGED faults \/ Failing(TRUE) \/ Failing(FALSE)
BY DEF Written, NotWritten, Fault

\* Each step fails at most one operation and knows its errors.
LEMMA StepOutcome ==
  ASSUME RecoveryInv, err \in Errors, [Next]_vars
  PROVE  /\ UNCHANGED faults \/ Failing(TRUE) \/ Failing(FALSE)
         /\ err' \in Errors
<1> USE DEF Fault, Goto, Fail, Errors
<1>1. \A r, p, e, q : Checkpoint(r, p, e, q) /\ e \in Errors =>
         (UNCHANGED faults \/ Failing(TRUE) \/ Failing(FALSE)) /\ err' \in Errors
  BY FaultsOfUpdate DEF Checkpoint
<1>2. CASE ClaimTask \/ BeginExecution \/ AppendInput \/ CallModel
  BY <1>2 DEF ClaimTask, HostMoved, HostNotMoved, BeginExecution, AppendInput, CallModel
<1>3. CASE ProviderPending \/ ToolsPending \/ ExternalAdmitted \/ ToolConfirmed
  <2>1. \E r, p, e, q : Checkpoint(r, p, e, q) /\ e \in Errors
    <3>1. CASE ProviderPending
      BY <3>1 DEF ProviderPending
    <3>2. CASE ToolsPending
      BY <3>2 DEF ToolsPending
    <3>3. CASE ExternalAdmitted
      BY <3>3 DEF ExternalAdmitted
    <3>4. CASE ToolConfirmed
      BY <3>4 DEF ToolConfirmed
    <3> QED BY <1>3, <3>1, <3>2, <3>3, <3>4
  <2> QED BY <1>1, <2>1
<1>4. CASE AssistantPersisted
  <2>1. /\ \E r, b : Written(r) \/ NotWritten(r, b)
        /\ err' \in Errors
    BY <1>4 DEF AssistantPersisted
  <2> QED BY <2>1, FaultsOfUpdate
<1>5. CASE ParallelBody \/ ParallelDone \/ DenyTool \/ InvokeTool \/ AwaitChild
  BY <1>5 DEF ParallelBody, ParallelDone, DenyTool, InvokeTool, AwaitChild, bounds
<1>6. CASE SpawnChild
  BY <1>6 DEF SpawnChild
<1>7. CASE AppendResult
  BY <1>7 DEF AppendResult
<1>8. CASE Finalize \/ LoopFailed
  BY <1>8 DEF Finalize, LoopFailed, bounds
<1>9. CASE FinishTurn
  <2>1. /\ \E r, b : Written(r) \/ NotWritten(r, b)
        /\ err' \in Errors
    BY <1>9 DEF FinishTurn
  <2> QED BY <2>1, FaultsOfUpdate
<1>10. CASE SettleTask
  BY <1>10 DEF SettleTask, HostMoved, HostNotMoved
<1>11. CASE AcknowledgeTask
  <2>1. (\E r, b : Written(r) \/ NotWritten(r, b)) \/ UNCHANGED faults
    BY <1>11 DEF AcknowledgeTask
  <2>2. err' = err
    BY <1>11 DEF AcknowledgeTask
  <2> QED BY <2>1, <2>2, FaultsOfUpdate
<1>12. CASE LookupTask \/ CloseUnrecoverable \/ AwaitRecovered
  BY <1>12 DEF LookupTask, CloseUnrecoverable, AwaitRecovered
<1>13. CASE ReconcilePending
  <2>1. \E s : HostMoved(s) \/ HostNotMoved(s) \/ UNCHANGED faults
    BY <1>13 DEF ReconcilePending
  <2>2. err' = err
    BY <1>13 DEF ReconcilePending
  <2> QED BY <2>1, <2>2 DEF HostMoved, HostNotMoved
<1>14. CASE ResumeTurn
  <2>1. (\E r, b : Written(r) \/ NotWritten(r, b)) \/ UNCHANGED faults
    BY <1>14 DEF ResumeTurn
  <2>2. err' \in Errors
    BY <1>14 DEF ResumeTurn
  <2> QED BY <2>1, <2>2, FaultsOfUpdate
<1>15. CASE AppendRecovered
  BY <1>15 DEF AppendRecovered
<1>16. CASE ConfirmRecovered
  <2>1. \E r, p, e, q : Checkpoint(r, p, e, q) /\ e \in Errors
    BY <1>16 DEF ConfirmRecovered
  <2> QED BY <1>1, <2>1
<1>17. CASE InterruptTurn
  <2>1. (\E r, b : Written(r) \/ NotWritten(r, b)) \/ UNCHANGED faults
    BY <1>17 DEF InterruptTurn
  <2>2. err' = err
    BY <1>17 DEF InterruptTurn
  <2> QED BY <2>1, <2>2, FaultsOfUpdate
<1>18. CASE EnvStep \/ Quiet \/ UNCHANGED vars
  BY <1>18 DEF EnvStep, ChildEnds, UserCancel, CancelArrives, Shutdown, Exit, Crash, Restart, Lose,
               Quiet, vars, bounds
<1> QED BY <1>2, <1>3, <1>4, <1>5, <1>6, <1>7, <1>8, <1>9, <1>10, <1>11, <1>12, <1>13, <1>14,
           <1>15, <1>16, <1>17, <1>18 DEF Next, LiveStep, RecoveryStep

\* The transcript grows to its bound, and children are of its messages.
LEMMA StepGrowth ==
  ASSUME RecoveryInv, [Next]_vars
  PROVE  /\ asst' = asst \/ (n < MaxMessages /\ \E m : asst' = Append(asst, m))
         /\ DOMAIN child' = DOMAIN child
            \/ (n > 0 /\ DOMAIN child' = DOMAIN child \cup {Call(cur)})
<1>1. CASE CallModel
  BY <1>1 DEF CallModel
<1>2. CASE SpawnChild
  <2>1. n > 0
    BY <1>2 DEF SpawnChild, RecoveryInv, PlaceInv, LivePlace, AtCall, AppendPC
  <2> QED BY <1>2, <2>1 DEF SpawnChild
<1>3. CASE LiveStep /\ ~ CallModel /\ ~ SpawnChild
  BY <1>3 DEF LiveStep, ClaimTask, BeginExecution, AppendInput, ProviderPending, AssistantPersisted,
              ToolsPending, ParallelBody, ParallelDone, DenyTool, InvokeTool, ExternalAdmitted,
              AwaitChild, AppendResult, ToolConfirmed, Finalize, LoopFailed, FinishTurn, SettleTask,
              AcknowledgeTask, durable
<1>4. CASE RecoveryStep
  BY <1>4 DEF RecoveryStep, LookupTask, ReconcilePending, CloseUnrecoverable, ResumeTurn,
              AwaitRecovered, AppendRecovered, ConfirmRecovered, InterruptTurn, durable
<1>5. CASE EnvStep \/ Quiet \/ UNCHANGED vars
  BY <1>5 DEF EnvStep, ChildEnds, UserCancel, CancelArrives, Shutdown, Exit, Crash, Restart, Quiet,
              vars, durable
<1> QED BY <1>1, <1>2, <1>3, <1>4, <1>5 DEF Next

LEMMA TypeRestStep == RecoveryInv /\ TypeRest /\ [Next]_vars => TypeRest'
<1> SUFFICES ASSUME RecoveryInv, TypeRest, [Next]_vars PROVE TypeRest'
  OBVIOUS
<1>1. err' \in Errors /\ (UNCHANGED faults \/ Failing(TRUE) \/ Failing(FALSE))
  BY StepOutcome DEF TypeRest
<1>2. faults' \in [count : 0..MaxFaults, lost : BOOLEAN]
  BY <1>1, FailingCounts DEF TypeRest
<1>3. n' <= MaxMessages
  <2>1. asst \in Seq(Response) /\ n = Len(asst) /\ n \in Nat /\ n <= MaxMessages
    BY DEF RecoveryInv, DurableInv, DurableType, n, TypeRest
  <2>2. n' = n \/ (n < MaxMessages /\ n' = n + 1)
    <3>1. \A m : Len(Append(asst, m)) = Len(asst) + 1
      BY <2>1
    <3> QED BY <2>1, <3>1, StepGrowth DEF n
  <2> QED BY <2>1, <2>2, RecoveryAssumption
<1>4. \A c \in DOMAIN child' : c[1] > 0
  BY StepGrowth DEF TypeRest, Call
<1> QED BY <1>1, <1>2, <1>3, <1>4 DEF TypeRest

(***************************************************************************)
(* The variables have their types: in particular what the journal stores   *)
(* satisfies Validate (journal.go), and no count passes its bound.         *)
(***************************************************************************)
THEOREM RecoveryTypeCorrect == Spec => []TypeOK
<1>1. Init => TypeRest /\ OutcomeInv
  BY RecoveryAssumption DEF Init, TypeRest, Errors, n, OutcomeInv, OutcomeMatchesTask,
     OutcomePlace, TaskStatus, Working, LoopPC, AppendPC
<1>2. RecoveryInv /\ OutcomeInv /\ RoundsInv /\ TypeRest => TypeOK
  <2> SUFFICES ASSUME RecoveryInv, OutcomeInv, RoundsInv, TypeRest PROVE TypeOK
    OBVIOUS
  <2>1. task \in TaskStatus
    BY DEF OutcomeInv
  <2>2. rec # None => rec.phase \in Phase /\ Validate(rec)
    BY RecordFields DEF RecoveryInv, DurableInv, DurableType, RecordInv
  <2>3. \A m \in DOMAIN asst : asst[m] \in Response
    BY DEF RecoveryInv, DurableInv, DurableType
  <2>4. \A c \in DOMAIN child : c \in CallId /\ child[c] \in ChildStatus
    <3> SUFFICES ASSUME NEW c \in DOMAIN child PROVE c \in CallId /\ child[c] \in ChildStatus
      OBVIOUS
    <3>1. c \in CallRef /\ child[c] \in ChildStatus /\ c[1] <= n /\ n \in Nat
      BY DEF RecoveryInv, DurableInv, DurableType, CallsInv, Touched, n
    <3>2. c[1] > 0 /\ n <= MaxMessages
      BY DEF TypeRest
    <3>3. c[1] \in 1..MaxMessages
      BY <3>1, <3>2, RecoveryAssumption DEF CallRef
    <3> QED BY <3>1, <3>3 DEF CallRef, CallId
  <2>5. pc \in LivePC \cup RecoveryPC
    BY DEF RecoveryInv, PlaceInv, ControlType
  <2>6. iter \in 0..MaxToolIterations
    BY RecoveryAssumption DEF RoundsInv, RecoveryInv, PlaceInv, ControlType
  <2> QED BY <2>1, <2>2, <2>3, <2>4, <2>5, <2>6 DEF TypeOK, TypeRest, Errors, TaskStatus
<1> QED BY <1>1, <1>2, InitHolds, StepKeeps, OutcomeStep, RoundsInit, RoundsStep, TypeRestStep,
           PTL DEF Spec
=============================================================================
