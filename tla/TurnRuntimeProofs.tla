-------------------------- MODULE TurnRuntimeProofs --------------------------
(***************************************************************************)
(* Proofs about TurnRuntime for every set of messages, addresses and every *)
(* concurrency, in three parts: permits and workers, who may touch a       *)
(* conversation, and what the lanes promise (LaneQueue).                   *)
(*                                                                         *)
(* First its types, its permits and the dispatcher's promise that a queued *)
(* message has a worker.  None of the three is inductive alone: the        *)
(* semaphore stays in its range only because it counts the running         *)
(* workers, and a lane's queue has a worker only because active is exactly *)
(* the lanes with one live worker.                                         *)
(***************************************************************************)
EXTENDS TurnRuntime, FiniteSetTheorems, TLAPS

\* The loop holds a message when it is about to submit or run one.
HandInv == lpc \in {"submit", "serial"} => lcur \in Msg

\* A frame that waits for a nested one has it at the head of its leftovers.
ChildInv == \A m \in Msg : pc[m] = "child" => missed[m] # <<>>

\* active is the lanes with a live worker, one each, and only they have queues.
LaneInv ==
    /\ \A w \in Msg : Live(w) => threadKey(w) \in active
    /\ \A k \in active : \E w \in Msg : Live(w) /\ threadKey(w) = k
    /\ \A w, x \in Msg : Live(w) /\ Live(x) /\ threadKey(w) = threadKey(x) => w = x
    /\ \A k \in Lane : pending[k] # <<>> => k \in active

IInv == TypeOK /\ HandInv /\ ChildInv /\ LaneInv /\ PermitsAreRunners

USE AddressingAssumption, ConcurrencyAssumption, LoopAssumption

(***************************************************************************)
(* Every message's keys are among the lanes and keys (steering.go).        *)
(***************************************************************************)
LEMMA KeysInRange ==
    \A m \in Msg : threadKey(m) \in Lane /\ InboxKey(m) \in Key
BY DEF Lane, Key

(***************************************************************************)
(* What a drain returns is a sequence of messages (steering.go, Drain).    *)
(***************************************************************************)
LEMMA DrainedType ==
    ASSUME InboxTypeOK, NEW k
    PROVE  Drained(k) \in Seq(Msg)
BY DEF InboxTypeOK, Drained

(***************************************************************************)
(* Counting a turn keeps the stats natural numbers (loop.go, record).      *)
(***************************************************************************)
LEMMA StatsType ==
    ASSUME NEW s \in [turns : Nat, cancelled : Nat, errors : Nat], NEW r
    PROVE  record(s, r) \in [turns : Nat, cancelled : Nat, errors : Nat]
BY DEF record

(***************************************************************************)
(* The invariant holds before the loop starts (dispatch.go,                *)
(* newKeyedDispatcher).                                                    *)
(***************************************************************************)
LEMMA InitInv == Init => IInv
<1> SUFFICES ASSUME Init PROVE IInv
  OBVIOUS
<1> USE DEF Init, DispatcherInit, InboxInit, CancellerInit
<1>1. DispatcherTypeOK
  BY DEF DispatcherTypeOK, WorkerPC
<1>2. InboxTypeOK /\ CancellerTypeOK
  BY DEF InboxTypeOK, CancellerTypeOK
<1>3. LoopTypeOK /\ FrameTypeOK
  <2>1. LoopTypeOK
    BY DEF LoopTypeOK, LoopPC
  <2>2. pc \in [Msg -> FramePC] /\ res \in [Msg -> Result]
    BY DEF FramePC, Result
  <2>3. batch \in [Msg -> Seq(Msg)] /\ missed \in [Msg -> Seq(Msg)]
    OBVIOUS
  <2> QED BY <2>1, <2>2, <2>3 DEF FrameTypeOK
<1>4. HandInv /\ ChildInv /\ LaneInv
  BY DEF HandInv, ChildInv, LaneInv, Live
<1>5. PermitsAreRunners
  <2>1. {w \in Msg : wpc[w] = "run"} = {}
    OBVIOUS
  <2> QED BY <2>1, FS_EmptySet DEF PermitsAreRunners
<1> QED BY <1>1, <1>2, <1>3, <1>4, <1>5 DEF IInv, TypeOK

(***************************************************************************)
(* A step that leaves the dispatcher alone keeps its part of the invariant *)
(* (dispatch.go: only submit and the workers touch it).                    *)
(***************************************************************************)
LEMMA DispatcherFrame ==
    ASSUME IInv, UNCHANGED dispatcherVars
    PROVE  DispatcherTypeOK' /\ LaneInv' /\ PermitsAreRunners'
BY DEF IInv, TypeOK, DispatcherTypeOK, LaneInv, PermitsAreRunners, Live, dispatcherVars

(***************************************************************************)
(* Every step of the loop goroutine keeps the invariant (loop.go).         *)
(***************************************************************************)
LEMMA LoopInv == IInv /\ LoopNext => IInv'
<1> SUFFICES ASSUME IInv, LoopNext PROVE IInv'
  OBVIOUS
<1> USE DEF IInv, TypeOK
<1>1. ASSUME LoopTop \/ FetchNothing \/ FetchError \/ LoopReturn PROVE IInv'
  <2>1. UNCHANGED <<dispatcherVars, inboxVars, cancellerVars, frameVars, lcur,
                    unfetched, submitted, asked, ctxDone>>
    BY <1>1 DEF LoopTop, FetchNothing, FetchError, LoopReturn
  <2>2. lpc' \in {"top", "fetching", "wait", "returned"}
    BY <1>1 DEF LoopTop, FetchNothing, FetchError, LoopReturn
  <2>3. stats' \in [turns : Nat, cancelled : Nat, errors : Nat]
    BY <1>1, StatsType DEF LoopTop, FetchNothing, FetchError, LoopReturn, LoopTypeOK
  <2>4. DispatcherTypeOK' /\ LaneInv' /\ PermitsAreRunners'
    BY <2>1, DispatcherFrame
  <2>5. InboxTypeOK' /\ CancellerTypeOK' /\ FrameTypeOK' /\ ChildInv'
    BY <2>1 DEF InboxTypeOK, CancellerTypeOK, FrameTypeOK, ChildInv, inboxVars,
                cancellerVars, frameVars
  <2>6. LoopTypeOK' /\ HandInv'
    BY <2>1, <2>2, <2>3 DEF LoopTypeOK, LoopPC, HandInv
  <2> QED BY <2>4, <2>5, <2>6
<1>2. ASSUME NEW m \in Msg, FetchTurn(m) PROVE IInv'
  <2>1. DispatcherTypeOK' /\ LaneInv' /\ PermitsAreRunners'
    BY <1>2, DispatcherFrame DEF FetchTurn
  <2>2. InboxTypeOK' /\ CancellerTypeOK'
    BY <1>2 DEF FetchTurn, InboxTypeOK, CancellerTypeOK, inboxVars, cancellerVars
  <2>3. FrameTypeOK' /\ ChildInv'
    BY <1>2 DEF FetchTurn, FrameTypeOK, FramePC, ChildInv
  <2>4. LoopTypeOK' /\ HandInv'
    BY <1>2 DEF FetchTurn, LoopTypeOK, LoopPC, HandInv
  <2> QED BY <2>1, <2>2, <2>3, <2>4
<1>3. ASSUME NEW m \in Msg, FetchParked(m) PROVE IInv'
  <2>1. DispatcherTypeOK' /\ LaneInv' /\ PermitsAreRunners'
    BY <1>3, DispatcherFrame DEF FetchParked
  <2>2. InboxTypeOK' /\ CancellerTypeOK'
    BY <1>3, KeysInRange
       DEF FetchParked, Park, CanPark, InboxTypeOK, CancellerTypeOK, cancellerVars
  <2>3. FrameTypeOK' /\ ChildInv'
    BY <1>3 DEF FetchParked, FrameTypeOK, ChildInv, frameVars
  <2>4. LoopTypeOK' /\ HandInv'
    BY <1>3 DEF FetchParked, LoopTypeOK, LoopPC, HandInv
  <2> QED BY <2>1, <2>2, <2>3, <2>4
<1>4. ASSUME NEW m \in Msg, FetchMissed(m) PROVE IInv'
  <2>1. DispatcherTypeOK' /\ LaneInv' /\ PermitsAreRunners'
    BY <1>4, DispatcherFrame DEF FetchMissed
  <2>2. InboxTypeOK' /\ CancellerTypeOK'
    BY <1>4 DEF FetchMissed, InboxTypeOK, CancellerTypeOK, inboxVars, cancellerVars
  <2>3. FrameTypeOK' /\ ChildInv'
    BY <1>4 DEF FetchMissed, FrameTypeOK, ChildInv
  <2>4. LoopTypeOK' /\ HandInv'
    BY <1>4 DEF FetchMissed, LoopTypeOK, LoopPC, HandInv
  <2> QED BY <2>1, <2>2, <2>3, <2>4
<1>5. ASSUME LoopSubmit PROVE IInv'
  <2>1. lcur \in Msg /\ threadKey(lcur) \in Lane
    BY <1>5, KeysInRange DEF LoopSubmit, HandInv
  <2>2. DispatcherTypeOK'
    <3>1. pending' \in [Lane -> Seq(Msg)]
      <4>1. pending[threadKey(lcur)] \in Seq(Msg)
        BY <2>1 DEF DispatcherTypeOK
      <4>2. Append(pending[threadKey(lcur)], lcur) \in Seq(Msg)
        BY <2>1, <4>1
      <4> QED BY <1>5, <2>1, <4>2 DEF LoopSubmit, submit, DispatcherTypeOK
    <3>2. active' \subseteq Lane /\ wpc' \in [Msg -> WorkerPC]
          /\ wcur' \in [Msg -> Msg] /\ sem' \in 0..Concurrency
      BY <1>5, <2>1 DEF LoopSubmit, submit, DispatcherTypeOK, WorkerPC
    <3> QED BY <3>1, <3>2 DEF DispatcherTypeOK
  <2>3. LaneInv'
    <3>1. CASE threadKey(lcur) \in active
      BY <1>5, <2>1, <3>1 DEF LoopSubmit, submit, LaneInv, Live, DispatcherTypeOK
    <3>2. CASE threadKey(lcur) \notin active
      BY <1>5, <2>1, <3>2, SMTT(40) DEF LoopSubmit, submit, LaneInv, Live, DispatcherTypeOK
    <3> QED BY <3>1, <3>2
  <2>4. PermitsAreRunners'
    <3>1. wpc[lcur] = "run" => threadKey(lcur) \in active
      BY <2>1 DEF LaneInv, Live
    <3>2. {w \in Msg : wpc'[w] = "run"} = {w \in Msg : wpc[w] = "run"} /\ sem' = sem
      BY <1>5, <2>1, <3>1 DEF LoopSubmit, submit, DispatcherTypeOK
    <3> QED BY <3>2 DEF PermitsAreRunners
  <2>5. InboxTypeOK' /\ CancellerTypeOK' /\ FrameTypeOK' /\ ChildInv'
    BY <1>5 DEF LoopSubmit, InboxTypeOK, CancellerTypeOK, FrameTypeOK, ChildInv,
                inboxVars, cancellerVars, frameVars
  <2>6. LoopTypeOK' /\ HandInv'
    BY <1>5, <2>1 DEF LoopSubmit, LoopTypeOK, LoopPC, HandInv
  <2> QED BY <2>2, <2>3, <2>4, <2>5, <2>6
<1>6. ASSUME SerialReturn PROVE IInv'
  <2>1. lcur \in Msg
    BY <1>6 DEF SerialReturn, HandInv
  <2>2. DispatcherTypeOK' /\ LaneInv' /\ PermitsAreRunners'
    BY <1>6, DispatcherFrame DEF SerialReturn
  <2>3. InboxTypeOK' /\ CancellerTypeOK' /\ FrameTypeOK' /\ ChildInv'
    BY <1>6, <2>1 DEF SerialReturn, InboxTypeOK, CancellerTypeOK, FrameTypeOK,
                Result, ChildInv, inboxVars, cancellerVars
  <2>4. lpc' \in {"top", "returned"}
    BY <1>6 DEF SerialReturn
  <2>5. stats' \in [turns : Nat, cancelled : Nat, errors : Nat]
    BY <1>6, StatsType DEF SerialReturn, LoopTypeOK
  <2>6. LoopTypeOK' /\ HandInv'
    BY <1>6, <2>4, <2>5 DEF SerialReturn, LoopTypeOK, LoopPC, HandInv
  <2> QED BY <2>2, <2>3, <2>6
<1> QED BY <1>1, <1>2, <1>3, <1>4, <1>5, <1>6 DEF LoopNext

(***************************************************************************)
(* Every step of a worker goroutine keeps the invariant (dispatch.go,      *)
(* launch).                                                                *)
(***************************************************************************)
LEMMA WorkerInv ==
    ASSUME NEW w \in Msg
    PROVE  IInv /\ WorkerStep(w) => IInv'
<1> SUFFICES ASSUME IInv, WorkerStep(w) PROVE IInv'
  OBVIOUS
<1> USE DEF IInv, TypeOK
<1>k. wcur[w] \in Msg /\ threadKey(w) \in Lane
  BY KeysInRange DEF DispatcherTypeOK
<1> DEFINE R == {x \in Msg : wpc[x] = "run"}
<1>f. IsFiniteSet(R)
  BY FS_Subset
<1>1. ASSUME WorkerAcquire(w) PROVE IInv'
  <2>1. DispatcherTypeOK'
    BY <1>1 DEF WorkerAcquire, acquire, DispatcherTypeOK, WorkerPC
  <2>2. LaneInv'
    BY <1>1 DEF WorkerAcquire, acquire, LaneInv, Live, DispatcherTypeOK
  <2>3. PermitsAreRunners'
    <3>1. {x \in Msg : wpc'[x] = "run"} = R \cup {w} /\ w \notin R
      BY <1>1 DEF WorkerAcquire, acquire, DispatcherTypeOK
    <3>2. Cardinality(R \cup {w}) = Cardinality(R) + 1
      BY <1>f, <3>1, FS_AddElement
    <3> QED BY <1>1, <3>1, <3>2 DEF PermitsAreRunners, WorkerAcquire, acquire
  <2>4. InboxTypeOK' /\ CancellerTypeOK' /\ LoopTypeOK' /\ HandInv'
    BY <1>1 DEF WorkerAcquire, InboxTypeOK, CancellerTypeOK, LoopTypeOK, HandInv,
                inboxVars, cancellerVars, loopVars
  <2>5. FrameTypeOK' /\ ChildInv'
    BY <1>1, <1>k DEF WorkerAcquire, FrameTypeOK, FramePC, ChildInv
  <2> QED BY <2>1, <2>2, <2>3, <2>4, <2>5
<1>2. ASSUME WorkerRelease(w) PROVE IInv'
  <2>1. {x \in Msg : wpc'[x] = "run"} = R \ {w} /\ w \in R
    BY <1>2 DEF WorkerRelease, release, DispatcherTypeOK
  <2>2. Cardinality(R \ {w}) = Cardinality(R) - 1 /\ Cardinality(R \ {w}) \in Nat
    BY <1>f, <2>1, FS_RemoveElement, FS_CardinalityType, FS_Subset
  <2>3. DispatcherTypeOK' /\ PermitsAreRunners'
    <3>1. sem' = sem - 1 /\ sem - 1 = Cardinality(R \ {w}) /\ sem' \in 0..Concurrency
      BY <1>2, <2>2 DEF WorkerRelease, release, DispatcherTypeOK, PermitsAreRunners
    <3>2. PermitsAreRunners'
      BY <2>1, <3>1 DEF PermitsAreRunners
    <3>3. wpc' \in [Msg -> WorkerPC] /\ UNCHANGED <<active, pending, wcur>>
      BY <1>2 DEF WorkerRelease, release, DispatcherTypeOK, WorkerPC
    <3> QED BY <3>1, <3>2, <3>3 DEF DispatcherTypeOK
  <2>4. LaneInv'
    BY <1>2 DEF WorkerRelease, release, LaneInv, Live, DispatcherTypeOK
  <2>5. InboxTypeOK' /\ CancellerTypeOK' /\ HandInv'
    BY <1>2 DEF WorkerRelease, InboxTypeOK, CancellerTypeOK, HandInv, inboxVars,
                cancellerVars
  <2>6. LoopTypeOK'
    <3>2. stats' \in [turns : Nat, cancelled : Nat, errors : Nat]
      BY <1>2, StatsType DEF WorkerRelease, LoopTypeOK
    <3> QED BY <1>2, <3>2 DEF WorkerRelease, LoopTypeOK
  <2>7. FrameTypeOK' /\ ChildInv'
    BY <1>2, <1>k DEF WorkerRelease, FrameTypeOK, Result, ChildInv
  <2> QED BY <2>3, <2>4, <2>5, <2>6, <2>7
<1>3. ASSUME WorkerNext(w) PROVE IInv'
  <2> DEFINE k == threadKey(w)
  <2>1. InboxTypeOK' /\ CancellerTypeOK' /\ LoopTypeOK' /\ FrameTypeOK'
        /\ HandInv' /\ ChildInv'
    BY <1>3 DEF WorkerNext, InboxTypeOK, CancellerTypeOK, LoopTypeOK, FrameTypeOK,
                HandInv, ChildInv, inboxVars, cancellerVars, loopVars, frameVars
  <2>2. wpc[w] = "next" /\ wpc'[w] \in {"exited", "acquire"} /\ sem' = sem
        /\ wpc' = [wpc EXCEPT ![w] = wpc'[w]]
    BY <1>3 DEF WorkerNext, popOrExit, DispatcherTypeOK
  <2>3. PermitsAreRunners'
    <3>1. {x \in Msg : wpc'[x] = "run"} = R
      BY <2>2 DEF DispatcherTypeOK
    <3> QED BY <2>2, <3>1 DEF PermitsAreRunners
  <2>4. CASE pending[k] = <<>>
    <3>1. DispatcherTypeOK'
      BY <1>3, <2>4 DEF WorkerNext, popOrExit, DispatcherTypeOK, WorkerPC
    <3>2. LaneInv'
      <4>1. active' = active \ {k} /\ wpc' = [wpc EXCEPT ![w] = "exited"]
            /\ pending' = pending
        BY <1>3, <2>4 DEF WorkerNext, popOrExit
      <4>2. \A x \in Msg : Live(x)' => Live(x) /\ x # w
        BY <4>1 DEF Live, DispatcherTypeOK
      <4>3. \A x \in Msg : Live(x) /\ x # w => Live(x)' /\ threadKey(x) # k
        BY <2>2, <4>1 DEF Live, LaneInv, DispatcherTypeOK
      <4>4. \A x \in Msg : Live(x)' => threadKey(x) \in active'
        BY <4>1, <4>2, <4>3 DEF LaneInv
      <4>5. \A j \in active' : \E x \in Msg : Live(x)' /\ threadKey(x) = j
        BY <4>1, <4>3 DEF LaneInv
      <4>6. \A x, y \in Msg : Live(x)' /\ Live(y)' /\ threadKey(x) = threadKey(y) => x = y
        BY <4>2 DEF LaneInv
      <4>7. \A j \in Lane : pending'[j] # <<>> => j \in active'
        BY <2>4, <4>1 DEF LaneInv
      <4> QED BY <4>4, <4>5, <4>6, <4>7 DEF LaneInv
    <3> QED BY <2>1, <2>3, <3>1, <3>2
  <2>5. CASE pending[k] # <<>>
    <3>1. Head(pending[k]) \in Msg /\ Tail(pending[k]) \in Seq(Msg)
      BY <1>k, <2>5 DEF DispatcherTypeOK
    <3>2. DispatcherTypeOK'
      <4>1. pending' \in [Lane -> Seq(Msg)]
        BY <1>3, <1>k, <2>5, <3>1 DEF WorkerNext, popOrExit, DispatcherTypeOK
      <4>2. wcur' \in [Msg -> Msg]
        BY <1>3, <2>5, <3>1 DEF WorkerNext, popOrExit, DispatcherTypeOK
      <4> QED BY <1>3, <2>5, <4>1, <4>2
              DEF WorkerNext, popOrExit, DispatcherTypeOK, WorkerPC
    <3>3. LaneInv'
      <4>1. active' = active /\ wpc' = [wpc EXCEPT ![w] = "acquire"]
            /\ pending' = [pending EXCEPT ![k] = Tail(@)]
        BY <1>3, <2>5 DEF WorkerNext, popOrExit
      <4>2. \A x \in Msg : Live(x)' <=> Live(x)
        BY <2>2, <4>1 DEF Live, DispatcherTypeOK
      <4>3. \A j \in Lane : pending'[j] # <<>> => pending[j] # <<>>
        BY <1>k, <2>5, <4>1 DEF DispatcherTypeOK
      <4> QED BY <4>1, <4>2, <4>3 DEF LaneInv
    <3> QED BY <2>1, <2>3, <3>2, <3>3
  <2> QED BY <2>4, <2>5
<1> QED BY <1>1, <1>2, <1>3 DEF WorkerStep

\* The part of the invariant a runTask frame can disturb.
FrameInv == InboxTypeOK /\ CancellerTypeOK /\ FrameTypeOK /\ ChildInv

(***************************************************************************)
(* The canceller's operations keep its types (turncancel.go).              *)
(***************************************************************************)
LEMMA CancellerType ==
    ASSUME CancellerTypeOK, NEW m \in Msg,
           CancellerBegin(m) \/ CancellerDone(m) \/ UNCHANGED cancellerVars
    PROVE  CancellerTypeOK'
<1>1. TaskOf(m) # NoTask => TaskOf(m) \in Task
  BY DEF TaskOf, turnAddress, Address
<1>2. CASE TaskOf(m) = NoTask \/ UNCHANGED cancellerVars
  BY <1>2 DEF CancellerBegin, CancellerDone, cancellerVars, CancellerTypeOK
<1>3. CASE TaskOf(m) # NoTask /\ (CancellerBegin(m) \/ CancellerDone(m))
  <2>1. registered[TaskOf(m)] \in Msg \cup {None}
    BY <1>1, <1>3 DEF CancellerTypeOK
  <2>2. cancelled' \subseteq Msg
    BY <1>3, <2>1 DEF CancellerBegin, CancellerDone, CancellerTypeOK
  <2>3. registered' \in [Task -> Msg \cup {None}]
    BY <1>3 DEF CancellerBegin, CancellerDone, CancellerTypeOK
  <2> QED BY <2>2, <2>3 DEF CancellerTypeOK
<1> QED BY <1>2, <1>3

(***************************************************************************)
(* The inbox's operations keep its types (steering.go).                    *)
(***************************************************************************)
LEMMA InboxType ==
    ASSUME InboxTypeOK, NEW m \in Msg,
           InboxBegin(m) \/ InboxClose(m) \/ Drain(DrainKey(m)) \/ UNCHANGED inboxVars
    PROVE  InboxTypeOK'
<1>k. InboxKey(m) \in Key
  BY KeysInRange
<1>1. CASE UNCHANGED inboxVars
  BY <1>1 DEF inboxVars, InboxTypeOK
<1>e. <<>> \in Seq(Msg)
  OBVIOUS
<1>p. [parked EXCEPT ![m] = <<>>] \in [Msg -> Seq(Msg)]
  BY <1>e DEF InboxTypeOK
<1>2. CASE InboxBegin(m)
  <2>1. entry' \in [Key -> Msg \cup {None}]
    BY <1>2, <1>k DEF InboxBegin, InboxTypeOK
  <2> QED BY <1>2, <1>p, <2>1 DEF InboxBegin, InboxTypeOK
<1>3. CASE InboxClose(m)
  <2>1. entry' \in [Key -> Msg \cup {None}]
    BY <1>3, <1>k DEF InboxClose, InboxTypeOK
  <2> QED BY <1>3, <1>p, <2>1 DEF InboxClose, InboxTypeOK
<1>4. CASE Drain(DrainKey(m))
  BY <1>4 DEF Drain, Drained, InboxTypeOK
<1> QED BY <1>1, <1>2, <1>3, <1>4

(***************************************************************************)
(* Every step of a runTask frame keeps its part of the invariant           *)
(* (run_once.go, runTask; turn/steering.go, deliverSteering).              *)
(***************************************************************************)
LEMMA FrameStepInv ==
    ASSUME FrameInv, NEW m \in Msg, FrameStep(m)
    PROVE  FrameInv'
<1> USE DEF FrameInv
<1> DEFINE c == Head(missed[m])
<1>m. missed[m] # <<>> => c \in Msg /\ Tail(missed[m]) \in Seq(Msg)
  BY DEF FrameTypeOK
<1>b. batch[m] # <<>> => Head(batch[m]) \in Msg /\ Tail(batch[m]) \in Seq(Msg)
  BY DEF FrameTypeOK
<1>1. ASSUME TaskBegin(m) \/ TaskDone(m) PROVE FrameInv'
  <2>1. CancellerTypeOK'
    BY <1>1, CancellerType DEF TaskBegin, TaskDone
  <2>2. InboxTypeOK'
    BY <1>1, InboxType DEF TaskBegin, TaskDone
  <2>3. FrameTypeOK' /\ ChildInv'
    BY <1>1 DEF TaskBegin, TaskDone, FrameTypeOK, FramePC, ChildInv
  <2> QED BY <2>1, <2>2, <2>3
<1>2. ASSUME TaskOpenLane(m) PROVE FrameInv'
  <2>1. InboxTypeOK' /\ CancellerTypeOK'
    BY <1>2, InboxType, CancellerType DEF TaskOpenLane
  <2>2. FrameTypeOK' /\ ChildInv'
    BY <1>2 DEF TaskOpenLane, FrameTypeOK, FramePC, ChildInv
  <2> QED BY <2>1, <2>2
<1>3. ASSUME TurnDrain(m) PROVE FrameInv'
  <2>1. InboxTypeOK' /\ CancellerTypeOK'
    BY <1>3, InboxType, CancellerType DEF TurnDrain
  <2>2. Drained(DrainKey(m)) \in Seq(Msg)
    BY DrainedType
  <2>3. batch' \in [Msg -> Seq(Msg)]
    BY <1>3, <2>2 DEF TurnDrain, FrameTypeOK
  <2>4. FrameTypeOK' /\ ChildInv'
    BY <1>3, <2>3 DEF TurnDrain, FrameTypeOK, FramePC, ChildInv
  <2> QED BY <2>1, <2>4
<1>4. ASSUME TurnDeliver(m) PROVE FrameInv'
  <2>1. InboxTypeOK' /\ CancellerTypeOK'
    BY <1>4, InboxType, CancellerType DEF TurnDeliver
  <2>2. batch' \in [Msg -> Seq(Msg)] /\ delivered' \subseteq Msg
    BY <1>4, <1>b, ZenonT(40) DEF TurnDeliver, FrameTypeOK
  <2>3. FrameTypeOK' /\ ChildInv'
    BY <1>4, <2>2 DEF TurnDeliver, FrameTypeOK, FramePC, ChildInv
  <2> QED BY <2>1, <2>3
<1>5. ASSUME TurnDeliverFails(m) PROVE FrameInv'
  <2>1. InboxTypeOK' /\ CancellerTypeOK'
    BY <1>5, InboxType, CancellerType DEF TurnDeliverFails
  <2>2. batch' \in [Msg -> Seq(Msg)]
    BY <1>5 DEF TurnDeliverFails, FrameTypeOK
  <2>3. dropped' \subseteq Msg
    BY <1>5 DEF TurnDeliverFails, FrameTypeOK
  <2>4. FrameTypeOK' /\ ChildInv'
    BY <1>5, <2>2, <2>3 DEF TurnDeliverFails, FrameTypeOK, FramePC, Result, ChildInv
  <2> QED BY <2>1, <2>4
<1>6. ASSUME NEW r \in Result \ {"none"}, TurnEnd(m, r) PROVE FrameInv'
  <2>1. InboxTypeOK' /\ CancellerTypeOK'
    BY <1>6, InboxType, CancellerType DEF TurnEnd
  <2>2. FrameTypeOK' /\ ChildInv'
    BY <1>6 DEF TurnEnd, FrameTypeOK, FramePC, ChildInv
  <2> QED BY <2>1, <2>2
<1>7. ASSUME TaskClose(m) PROVE FrameInv'
  <2>1. InboxTypeOK' /\ CancellerTypeOK'
    BY <1>7, InboxType, CancellerType DEF TaskClose
  <2>2. missed' \in [Msg -> Seq(Msg)]
    BY <1>7 DEF TaskClose, FrameTypeOK, InboxTypeOK
  <2>3. FrameTypeOK' /\ ChildInv'
    BY <1>7, <2>2 DEF TaskClose, FrameTypeOK, FramePC, ChildInv
  <2> QED BY <2>1, <2>3
<1>8. ASSUME MissedFallback(m) PROVE FrameInv'
  <2>1. InboxTypeOK' /\ CancellerTypeOK'
    BY <1>8, InboxType, CancellerType DEF MissedFallback
  <2>2. FrameTypeOK' /\ ChildInv'
    BY <1>8, <1>m DEF MissedFallback, FrameTypeOK, FramePC, ChildInv
  <2> QED BY <2>1, <2>2
<1>9. ASSUME ChildReturn(m) PROVE FrameInv'
  <2>1. InboxTypeOK' /\ CancellerTypeOK'
    BY <1>9, InboxType, CancellerType DEF ChildReturn
  <2>2. missed[m] # <<>>
    BY <1>9 DEF ChildReturn, ChildInv
  <2>3. res' \in [Msg -> Result]
    BY <1>9, <1>m, <2>2 DEF ChildReturn, FrameTypeOK, Result
  <2>4. missed' \in [Msg -> Seq(Msg)]
    BY <1>9, <1>m, <2>2 DEF ChildReturn, FrameTypeOK
  <2>5. FrameTypeOK' /\ ChildInv'
    BY <1>9, <2>3, <2>4 DEF ChildReturn, FrameTypeOK, FramePC, ChildInv
  <2> QED BY <2>1, <2>5
<1>10. ASSUME MissedReject(m) PROVE FrameInv'
  <2>1. InboxTypeOK' /\ CancellerTypeOK'
    BY <1>10, InboxType, CancellerType DEF MissedReject
  <2>2. missed' \in [Msg -> Seq(Msg)] /\ rejected' \subseteq Msg
    BY <1>10, <1>m DEF MissedReject, FrameTypeOK
  <2>3. FrameTypeOK' /\ ChildInv'
    BY <1>10, <2>2 DEF MissedReject, FrameTypeOK, ChildInv
  <2> QED BY <2>1, <2>3
<1>11. ASSUME MissedEmpty(m) PROVE FrameInv'
  <2>1. InboxTypeOK' /\ CancellerTypeOK'
    BY <1>11, InboxType, CancellerType DEF MissedEmpty
  <2>2. FrameTypeOK' /\ ChildInv'
    BY <1>11 DEF MissedEmpty, FrameTypeOK, FramePC, ChildInv
  <2> QED BY <2>1, <2>2
<1> QED BY <1>1, <1>2, <1>3, <1>4, <1>5, <1>6, <1>7, <1>8, <1>9, <1>10, <1>11
        DEF FrameStep

(***************************************************************************)
(* A frame leaves the dispatcher and the loop alone (run_once.go,          *)
(* runTask).                                                               *)
(***************************************************************************)
LEMMA FrameLeavesLoop ==
    ASSUME NEW m \in Msg, FrameStep(m)
    PROVE  UNCHANGED <<dispatcherVars, loopVars>>
BY DEF FrameStep, TaskBegin, TaskOpenLane, TurnDrain, TurnDeliver, TurnDeliverFails,
       TurnEnd, TaskClose, MissedFallback, ChildReturn, MissedReject, MissedEmpty,
       TaskDone

(***************************************************************************)
(* Cancelling a task or the loop keeps the invariant (turncancel.go,       *)
(* Cancel).                                                                *)
(***************************************************************************)
LEMMA EnvironmentInv ==
    ASSUME IInv, (\E t \in Task : CancelTask(t)) \/ CtxCancel \/ UNCHANGED vars
    PROVE  IInv'
<1> USE DEF IInv, TypeOK
<1>1. UNCHANGED <<dispatcherVars, inboxVars, frameVars, lpc, lcur, unfetched,
                  submitted, stats>>
  BY DEF CancelTask, CtxCancel, vars, loopVars
<1>2. DispatcherTypeOK' /\ LaneInv' /\ PermitsAreRunners'
  BY <1>1, DispatcherFrame
<1>3. InboxTypeOK' /\ FrameTypeOK' /\ ChildInv' /\ HandInv'
  BY <1>1 DEF InboxTypeOK, FrameTypeOK, ChildInv, HandInv, inboxVars, frameVars
<1>4. CancellerTypeOK'
  BY DEF CancelTask, CtxCancel, CancellerCancel, CancellerTypeOK, cancellerVars, vars
<1>5. LoopTypeOK'
  BY <1>1 DEF CancelTask, CtxCancel, LoopTypeOK, vars, loopVars
<1> QED BY <1>2, <1>3, <1>4, <1>5

(***************************************************************************)
(* The invariant is inductive: every step of the runtime keeps it.         *)
(***************************************************************************)
LEMMA NextInv == IInv /\ [Next]_vars => IInv'
<1> SUFFICES ASSUME IInv, [Next]_vars PROVE IInv'
  OBVIOUS
<1>1. CASE LoopNext
  BY <1>1, LoopInv
<1>2. ASSUME NEW m \in Msg, WorkerStep(m) PROVE IInv'
  BY <1>2, WorkerInv
<1>3. ASSUME NEW m \in Msg, FrameStep(m) PROVE IInv'
  <2>1. UNCHANGED <<dispatcherVars, loopVars>>
    BY <1>3, FrameLeavesLoop
  <2>2. FrameInv'
    BY <1>3, FrameStepInv DEF IInv, TypeOK, FrameInv
  <2>3. DispatcherTypeOK' /\ LaneInv' /\ PermitsAreRunners'
    BY <2>1, DispatcherFrame
  <2>4. LoopTypeOK' /\ HandInv'
    BY <2>1 DEF IInv, TypeOK, LoopTypeOK, HandInv, loopVars
  <2> QED BY <2>2, <2>3, <2>4 DEF IInv, TypeOK, FrameInv
<1>4. CASE (\E t \in Task : CancelTask(t)) \/ CtxCancel \/ UNCHANGED vars
  BY <1>4, EnvironmentInv
<1> QED BY <1>1, <1>2, <1>3, <1>4 DEF Next, Terminated

(***************************************************************************)
(* The runtime's variables keep their types; in particular the semaphore   *)
(* never goes below zero or above Concurrency (dispatch.go, launch).       *)
(***************************************************************************)
THEOREM TypeCorrect == Spec => []TypeOK
<1>1. IInv => TypeOK
  BY DEF IInv
<1> QED BY InitInv, NextInv, <1>1, PTL DEF Spec

(***************************************************************************)
(* A message queued behind its lane always has a live worker on that lane  *)
(* (dispatch.go, submit and launch).                                       *)
(***************************************************************************)
THEOREM QueuedMessagesHaveWorkers == Spec => []QueuedHasWorker
<1>1. IInv => QueuedHasWorker
  BY DEF IInv, LaneInv, QueuedHasWorker
<1> QED BY InitInv, NextInv, <1>1, PTL DEF Spec

(***************************************************************************)
(* The permits taken are exactly the workers inside run (dispatch.go,      *)
(* launch).                                                                *)
(***************************************************************************)
THEOREM PermitsMatchRunners == Spec => []PermitsAreRunners
<1>1. IInv => PermitsAreRunners
  BY DEF IInv
<1> QED BY InitInv, NextInv, <1>1, PTL DEF Spec

-----------------------------------------------------------------------------
(***************************************************************************)
(* Who may touch a conversation, proved for every set of messages and      *)
(* addresses, for the serial loop and for any concurrency: one turn at a   *)
(* time on a transcript, an open steering lane is its turn's own, no       *)
(* message is lost or handled twice, and a cancel hits the turn it is for. *)
(*                                                                         *)
(* All of it rests on one fact that none of the components states: a lane  *)
(* has at most one current frame.  A frame is current from its begin until *)
(* the caller has looked at its result, except while it waits for a nested *)
(* one; the right to run passes from the worker to its frame, from the     *)
(* frame to the nested one and back.                                       *)
(***************************************************************************)

\* The innermost frame of what runs on its lane.
Current(m) ==
    \/ pc[m] \notin {"idle", "child", "returned"}
    \/ pc[m] = "returned" /\ res[m] # "none"

\* A worker is inside its turn on the lane of m, or the serial loop is.
LaneIsServed(m) ==
    \/ lpc = "serial" /\ threadKey(lcur) = threadKey(m)
    \/ \E w \in Msg : wpc[w] = "run" /\ threadKey(w) = threadKey(m)

\* The serial loop has no workers, the others run no turn themselves.
ModeInv ==
    /\ Serial => lpc \notin {"submit", "wait"} /\ submitted = {}
                 /\ \A w \in Msg : wpc[w] = "none"
    /\ ~Serial => lpc # "serial"

\* Sequences in which no element comes back.
NoRepeat(s) == \A i, j \in 1..Len(s) : s[i] = s[j] => i = j

\* What is submitted was fetched, waits on its own lane and is started once.
SubmitInv ==
    /\ submitted \cap unfetched = {}
    /\ lpc \in {"submit", "serial"} => lcur \notin submitted
    /\ \A k \in Lane : NoRepeat(pending[k])
    /\ \A k \in Lane, m \in Msg :
          Occurs(pending[k], m) => threadKey(m) = k /\ m \in submitted
    /\ \A w \in Msg : Live(w) => threadKey(wcur[w]) = threadKey(w) /\ wcur[w] \in submitted

\* The messages of a frame's three lists came over its own lane, never through
\* the dispatcher, and are held no longer than the frame can deal with them.
ListsInv ==
    \A n \in Msg :
        /\ parked[n] # <<>> => LaneOpen(n)
        /\ batch[n] # <<>> => pc[n] = "deliver"
        /\ missed[n] # <<>> => pc[n] \in {"missed", "child"}
        /\ NoRepeat(parked[n]) /\ NoRepeat(batch[n]) /\ NoRepeat(missed[n])
        /\ \A m \in Msg : Occurs(parked[n], m) \/ Occurs(missed[n], m) => InboxKey(m) = InboxKey(n)
        /\ \A m \in Msg :
              Occurs(parked[n], m) \/ Occurs(batch[n], m) \/ Occurs(missed[n], m) =>
                  /\ m \notin submitted \cup unfetched
                  /\ ~(lpc \in {"submit", "serial"} /\ lcur = m)
        /\ \A p, m \in Msg : Occurs(batch[n], m) /\ Occurs(batch[p], m) => n = p

\* A leftover belongs to one frame and runs only when that frame waits for it.
NestInv ==
    /\ \A n, p, m \in Msg : Occurs(missed[n], m) /\ Occurs(missed[p], m) => n = p
    /\ \A n, m \in Msg :
          Occurs(missed[n], m) /\ pc[m] # "idle" => pc[n] = "child" /\ m = Head(missed[n])
    /\ \A n \in Msg :
          pc[n] = "child" => Current(Head(missed[n])) \/ pc[Head(missed[n])] = "child"

\* The right to run is with one frame of the lane, on top of a worker or of the
\* serial loop that waits for it.
CurrentInv ==
    /\ \A m, n \in Msg : Current(m) /\ Current(n) /\ threadKey(m) = threadKey(n) => m = n
    /\ \A m \in Msg : Current(m) => LaneIsServed(m)
    /\ \A m \in Msg : pc[m] \in {"close", "missed", "child", "done"} => res[m] # "none"
    /\ \A w \in Msg : wpc[w] = "run" => Current(wcur[w]) \/ pc[wcur[w]] = "child"
    /\ lpc = "serial" => Current(lcur) \/ pc[lcur] = "child"

\* The inbox has the entries of the open frames and no others.
EntryInv ==
    /\ OpenLaneIsOwn
    /\ \A k \in Key : entry[k] # None => InboxKey(entry[k]) = k /\ LaneOpen(entry[k])

PlaceName == {"source", "hand", "pending", "worker", "parked", "batch", "missed", "run",
              "delivered", "rejected", "dropped"}

\* Where a message can wait.
InHand(m) == lcur = m /\ lpc = "submit"
InPending(m) == \E k \in Lane : Occurs(pending[k], m)
AtWorker(m) == \E w \in Msg : wpc[w] = "acquire" /\ wcur[w] = m
InParked(m) == \E n \in Msg : Occurs(parked[n], m)
InBatch(m) == \E n \in Msg : Occurs(batch[n], m)
InMissed(m) == pc[m] = "idle" /\ \E n \in Msg : Occurs(missed[n], m)

\* at names the one place of every message.
Placed(at) ==
    /\ at \in [Msg -> PlaceName]
    /\ \A m \in Msg :
        /\ m \in unfetched <=> at[m] = "source"
        /\ InHand(m) <=> at[m] = "hand"
        /\ InPending(m) <=> at[m] = "pending"
        /\ AtWorker(m) <=> at[m] = "worker"
        /\ InParked(m) <=> at[m] = "parked"
        /\ InBatch(m) <=> at[m] = "batch"
        /\ InMissed(m) <=> at[m] = "missed"
        /\ pc[m] # "idle" <=> at[m] = "run"
        /\ m \in delivered <=> at[m] = "delivered"
        /\ m \in rejected <=> at[m] = "rejected"
        /\ m \in dropped <=> at[m] = "dropped"

PlaceInv == \E at \in [Msg -> PlaceName] : Placed(at)

\* The lanes of one conversation: who holds them.
HoldInv == ModeInv /\ SubmitInv /\ ListsInv /\ NestInv /\ CurrentInv /\ EntryInv

SInv == IInv /\ HoldInv /\ PlaceInv

\* Messages that carry one task id belong to one conversation.
TasksHaveOneLane ==
    \A m, n \in Msg : TaskOf(m) = TaskOf(n) /\ TaskOf(m) # NoTask => threadKey(m) = threadKey(n)

\* A registered cancel func is its task's, of a frame that has begun; between
\* its begin and its done a frame is registered or cancelled, and cancelled on
\* request only.
CancelInv ==
    /\ \A t \in Task : registered[t] # None =>
          TaskOf(registered[t]) = t /\ pc[registered[t]] \notin {"idle", "begin", "returned"}
    /\ \A m \in cancelled : pc[m] \notin {"idle", "begin"}
    /\ \A m \in Msg : pc[m] \in {"open", "exec", "deliver"} =>
          /\ m \notin cancelled /\ TaskOf(m) # NoTask => registered[TaskOf(m)] = m
          /\ m \in cancelled => TaskOf(m) \in asked

-----------------------------------------------------------------------------
(***************************************************************************)
(* Messages of one steering lane queue on one dispatcher lane              *)
(* (steering.go, AddressKey and ConversationKey).                          *)
(***************************************************************************)
LEMMA KeysAgree ==
    \A m, n \in Msg : InboxKey(m) = InboxKey(n) => threadKey(m) = threadKey(n)
<1> SUFFICES ASSUME NEW m \in Msg, NEW n \in Msg, InboxKey(m) = InboxKey(n)
             PROVE  threadKey(m) = threadKey(n)
  OBVIOUS
<1> DEFINE a == AddrOf[m]
           b == AddrOf[n]
<1>1. a \in Address /\ b \in Address
  OBVIOUS
<1>2. AddressKey(a) = AddressKey(b)
  BY DEF InboxKey, turnAddress
<1>3. /\ a.user = b.user /\ a.thread = b.thread
      /\ a.owner = "workspace" <=> b.owner = "workspace"
  BY <1>1, <1>2 DEF AddressKey, Address
<1>4. AddressKey([a EXCEPT !.user = ""]) = AddressKey([b EXCEPT !.user = ""])
      \/ a.owner # "workspace"
  BY <1>1, <1>3 DEF AddressKey, Address
<1> QED BY <1>2, <1>3, <1>4 DEF threadKey, turnAddress, ConversationKey

(***************************************************************************)
(* Turns on one transcript queue on one lane, whoever calls (steering.go,  *)
(* ConversationKey).                                                       *)
(***************************************************************************)
LEMMA TranscriptHasLane ==
    \A m, n \in Msg : SameTranscript(m, n) => threadKey(m) = threadKey(n)
<1> SUFFICES ASSUME NEW m \in Msg, NEW n \in Msg, SameTranscript(m, n)
             PROVE  threadKey(m) = threadKey(n)
  OBVIOUS
<1> DEFINE a == AddrOf[m]
           b == AddrOf[n]
<1>1. a \in Address /\ b \in Address
  OBVIOUS
<1>2. a.thread = b.thread /\ a.owner = b.owner /\ (a.owner = "workspace" \/ a.user = b.user)
  BY DEF SameTranscript
<1>3. CASE a.owner = "workspace"
  <2>1. AddressKey([a EXCEPT !.user = ""]) = AddressKey([b EXCEPT !.user = ""])
    BY <1>1, <1>2 DEF AddressKey, Address
  <2> QED BY <1>2, <1>3, <2>1 DEF threadKey, turnAddress, ConversationKey
<1>4. CASE a.owner # "workspace"
  <2>1. AddressKey(a) = AddressKey(b)
    BY <1>2, <1>4 DEF AddressKey
  <2> QED BY <1>2, <1>4, <2>1 DEF threadKey, turnAddress, ConversationKey
<1> QED BY <1>3, <1>4

(***************************************************************************)
(* What occurs in a queue, and what taking from or adding to it does.      *)
(***************************************************************************)
LEMMA OccursEmpty == \A m : ~Occurs(<<>>, m) /\ NoRepeat(<<>>)
BY DEF Occurs, NoRepeat

LEMMA OccursSome ==
    ASSUME NEW s \in Seq(Msg), NEW m, Occurs(s, m)
    PROVE  s # <<>> /\ m \in Msg
BY DEF Occurs

LEMMA OccursHead ==
    ASSUME NEW s \in Seq(Msg), s # <<>>
    PROVE  Occurs(s, Head(s)) /\ Head(s) \in Msg /\ Tail(s) \in Seq(Msg)
<1>1. Len(s) \in Nat /\ Len(s) >= 1 /\ Head(s) = s[1]
  OBVIOUS
<1> QED BY <1>1 DEF Occurs

LEMMA OccursAppend ==
    ASSUME NEW s \in Seq(Msg), NEW x \in Msg
    PROVE  /\ \A m : Occurs(Append(s, x), m) <=> Occurs(s, m) \/ m = x
           /\ NoRepeat(s) /\ ~Occurs(s, x) => NoRepeat(Append(s, x))
<1> DEFINE t == Append(s, x)
<1>1. Len(t) = Len(s) + 1 /\ t[Len(s) + 1] = x /\ Len(s) \in Nat
      /\ \A i \in 1..Len(s) : t[i] = s[i]
  OBVIOUS
<1> HIDE DEF t
<1>2. ASSUME NEW m PROVE Occurs(t, m) <=> Occurs(s, m) \/ m = x
  <2>1. Occurs(t, m) => Occurs(s, m) \/ m = x
    BY <1>1 DEF Occurs
  <2>2. Occurs(s, m) => Occurs(t, m)
    <3>1. 1..Len(s) \subseteq 1..Len(t)
      BY <1>1
    <3> QED BY <1>1, <3>1 DEF Occurs
  <2>3. m = x => Occurs(t, m)
    <3>1. Len(s) + 1 \in 1..Len(t)
      BY <1>1
    <3> QED BY <1>1, <3>1 DEF Occurs
  <2> QED BY <2>1, <2>2, <2>3
<1>3. ASSUME NoRepeat(s), ~Occurs(s, x) PROVE NoRepeat(t)
  <2> SUFFICES ASSUME NEW i \in 1..Len(t), NEW j \in 1..Len(t), t[i] = t[j] PROVE i = j
    BY DEF NoRepeat
  <2>1. i \in 1..Len(s) \/ i = Len(s) + 1
    BY <1>1
  <2>2. j \in 1..Len(s) \/ j = Len(s) + 1
    BY <1>1
  <2>3. \A l \in 1..Len(s) : t[l] # x
    BY <1>1, <1>3 DEF Occurs
  <2> QED BY <1>1, <1>3, <2>1, <2>2, <2>3 DEF NoRepeat
<1> QED BY <1>2, <1>3 DEF t

LEMMA OccursTail ==
    ASSUME NEW s \in Seq(Msg), s # <<>>, NoRepeat(s)
    PROVE  /\ \A m : Occurs(Tail(s), m) <=> Occurs(s, m) /\ m # Head(s)
           /\ NoRepeat(Tail(s))
<1> DEFINE t == Tail(s)
<1>1. Len(t) = Len(s) - 1 /\ Len(s) \in Nat \ {0} /\ Head(s) = s[1]
      /\ \A i \in 1..Len(t) : t[i] = s[i + 1]
  OBVIOUS
<1> HIDE DEF t
<1>2. \A i \in 1..Len(t) : i + 1 \in 1..Len(s) /\ i + 1 # 1
  BY <1>1
<1>3. ASSUME NEW m PROVE Occurs(t, m) <=> Occurs(s, m) /\ m # Head(s)
  <2>1. ASSUME NEW i \in 1..Len(t), t[i] = m PROVE Occurs(s, m) /\ m # Head(s)
    <3>1. s[i + 1] = m /\ i + 1 \in 1..Len(s) /\ i + 1 # 1 /\ 1 \in 1..Len(s)
      BY <1>1, <1>2, <2>1
    <3>2. s[i + 1] # s[1]
      BY <3>1 DEF NoRepeat
    <3> QED BY <1>1, <3>1, <3>2 DEF Occurs
  <2>2. ASSUME NEW j \in 1..Len(s), s[j] = m, m # Head(s) PROVE Occurs(t, m)
    <3>1. j - 1 \in 1..Len(t) /\ (j - 1) + 1 = j
      BY <1>1, <2>2
    <3>2. t[j - 1] = m
      BY <1>1, <2>2, <3>1
    <3> QED BY <3>1, <3>2 DEF Occurs
  <2> QED BY <2>1, <2>2 DEF Occurs
<1>4. NoRepeat(t)
  <2> SUFFICES ASSUME NEW i \in 1..Len(t), NEW j \in 1..Len(t), t[i] = t[j] PROVE i = j
    BY DEF NoRepeat
  <2>1. s[i + 1] = s[j + 1] /\ i + 1 \in 1..Len(s) /\ j + 1 \in 1..Len(s)
    BY <1>1, <1>2
  <2>2. i + 1 = j + 1
    BY <2>1 DEF NoRepeat
  <2> QED BY <2>2
<1> QED BY <1>3, <1>4 DEF t

-----------------------------------------------------------------------------
(* Who holds a lane.                                                       *)

(***************************************************************************)
(* The invariant holds before the loop starts: nothing runs or waits       *)
(* (loop.go, runLoopConcurrent).                                           *)
(***************************************************************************)
LEMMA InitHold == Init => HoldInv
<1> SUFFICES ASSUME Init PROVE HoldInv
  OBVIOUS
<1> USE DEF Init, DispatcherInit, InboxInit, CancellerInit
<1>1. ModeInv
  BY DEF ModeInv
<1>2. SubmitInv
  <2>1. \A k \in Lane : pending[k] = <<>>
    OBVIOUS
  <2> QED BY <2>1, OccursEmpty DEF SubmitInv, Live
<1>3. ListsInv
  <2>1. \A n \in Msg : parked[n] = <<>> /\ batch[n] = <<>> /\ missed[n] = <<>>
    OBVIOUS
  <2> QED BY <2>1, OccursEmpty DEF ListsInv
<1>4. NestInv
  <2>1. \A n \in Msg : missed[n] = <<>> /\ pc[n] = "idle"
    OBVIOUS
  <2> QED BY <2>1, OccursEmpty DEF NestInv
<1>5. CurrentInv
  BY DEF CurrentInv, Current
<1>6. EntryInv
  BY DEF EntryInv, OpenLaneIsOwn, LaneOpen
<1> QED BY <1>1, <1>2, <1>3, <1>4, <1>5, <1>6 DEF HoldInv

(***************************************************************************)
(* The loop going round, cancels and stuttering move no turn and no        *)
(* message (loop.go; turncancel.go, Cancel).                               *)
(***************************************************************************)
LEMMA QuietHold ==
    ASSUME HoldInv,
           UNCHANGED <<dispatcherVars, inboxVars, frameVars, lcur, unfetched, submitted>>,
           \/ lpc' = lpc
           \/ /\ lpc' \notin {"submit", "serial"} /\ lpc \notin {"submit", "serial"}
              /\ Serial => lpc' # "wait"
    PROVE  HoldInv'
<1> USE DEF HoldInv, dispatcherVars, inboxVars, frameVars
<1>1. ModeInv'
  BY DEF ModeInv
<1>2. SubmitInv'
  BY DEF SubmitInv, Live
<1>3. ListsInv'
  BY DEF ListsInv, LaneOpen
<1>4. NestInv'
  BY DEF NestInv, Current
<1>5. CurrentInv'
  BY DEF CurrentInv, Current, LaneIsServed
<1>6. EntryInv'
  BY DEF EntryInv, OpenLaneIsOwn, LaneOpen
<1> QED BY <1>1, <1>2, <1>3, <1>4, <1>5, <1>6

(***************************************************************************)
(* Fetching a message that becomes a turn: the serial loop fetches only    *)
(* when nothing runs (loop.go, RunLoop; run_once.go, RunOnce).             *)
(***************************************************************************)
LEMMA FetchTurnHold ==
    ASSUME IInv, SInv, NEW m \in Msg, FetchTurn(m)
    PROVE  HoldInv'
<1> USE DEF SInv, HoldInv
<1>1. m \notin submitted /\ pc[m] = "idle" /\ lpc = "fetching" /\ m \in unfetched
      /\ unfetched' = unfetched \ {m} /\ lcur' = m
      /\ UNCHANGED <<dispatcherVars, inboxVars, res, batch, missed, submitted>>
  <2>1. pc[m] = "idle"
    BY DEF FetchTurn, PlaceInv, Placed
  <2> QED BY <2>1 DEF FetchTurn, SubmitInv
<1>2. \A n \in Msg : ~Occurs(parked[n], m) /\ ~Occurs(batch[n], m) /\ ~Occurs(missed[n], m)
  BY <1>1 DEF ListsInv
<1>3. CASE Serial
  <2>1. lpc' = "serial" /\ pc' = [pc EXCEPT ![m] = "begin"]
    BY <1>3 DEF FetchTurn
  <2>2. \A n \in Msg : ~Current(n)
    BY <1>1, <1>3 DEF CurrentInv, LaneIsServed, ModeInv
  <2>3. \A n \in Msg : n # m => pc'[n] = pc[n] /\ (Current(n)' <=> Current(n))
    BY <1>1, <2>1 DEF Current, IInv, TypeOK, FrameTypeOK
  <2>4. Current(m)' /\ pc'[m] = "begin"
    BY <2>1 DEF Current, IInv, TypeOK, FrameTypeOK
  <2>5. ModeInv' /\ SubmitInv'
    BY <1>1, <1>3, <2>1 DEF ModeInv, SubmitInv, Live, dispatcherVars
  <2>6. ListsInv'
    BY <1>1, <1>2, <2>1, <2>3, <2>4 DEF ListsInv, LaneOpen, inboxVars
  <2>7. NestInv'
    <3>1. \A n \in Msg : pc'[n] = "child" => pc[n] = "child" /\ n # m
      BY <2>3, <2>4
    <3>2. \A n \in Msg : pc[n] = "child" => Head(missed[n]) # m /\ Head(missed[n]) \in Msg
      BY <1>2, OccursHead DEF IInv, ChildInv, TypeOK, FrameTypeOK
    <3> QED BY <1>1, <1>2, <2>3, <2>4, <3>1, <3>2 DEF NestInv
  <2>8. CurrentInv'
    <3>1. \A n \in Msg : Current(n)' => n = m
      BY <2>2, <2>3
    <3>2. LaneIsServed(m)'
      BY <1>1, <2>1 DEF LaneIsServed
    <3>3. \A w \in Msg : wpc'[w] # "run"
      BY <1>1, <1>3 DEF ModeInv, dispatcherVars
    <3> QED BY <1>1, <2>1, <2>3, <2>4, <3>1, <3>2, <3>3 DEF CurrentInv
  <2>9. EntryInv'
    <3>1. \A n \in Msg : LaneOpen(n)' <=> LaneOpen(n)
      BY <1>1, <2>3, <2>4 DEF LaneOpen
    <3> QED BY <1>1, <3>1 DEF EntryInv, OpenLaneIsOwn, inboxVars, IInv, TypeOK, InboxTypeOK
  <2> QED BY <2>5, <2>6, <2>7, <2>8, <2>9
<1>4. CASE ~Serial
  <2>1. lpc' = "submit" /\ pc' = pc
    BY <1>4 DEF FetchTurn
  <2>2. ModeInv' /\ SubmitInv'
    BY <1>1, <1>4, <2>1 DEF ModeInv, SubmitInv, Live, dispatcherVars
  <2>3. ListsInv'
    BY <1>1, <1>2, <2>1 DEF ListsInv, LaneOpen, inboxVars
  <2>4. NestInv'
    BY <1>1, <2>1 DEF NestInv, Current
  <2>5. CurrentInv'
    BY <1>1, <1>4, <2>1 DEF CurrentInv, Current, LaneIsServed, dispatcherVars
  <2>6. EntryInv'
    BY <1>1, <2>1 DEF EntryInv, OpenLaneIsOwn, LaneOpen, inboxVars
  <2> QED BY <2>2, <2>3, <2>4, <2>5, <2>6
<1> QED BY <1>3, <1>4

(***************************************************************************)
(* A steering message is parked on the open frame of its own lane          *)
(* (steering.go, Park; loop.go, classifySteering).                         *)
(***************************************************************************)
LEMMA FetchParkedHold ==
    ASSUME SInv, NEW m \in Msg, FetchParked(m)
    PROVE  HoldInv'
<1> USE DEF SInv, HoldInv
<1> DEFINE e == entry[InboxKey(m)]
<1>1. /\ m \in unfetched /\ lpc = "fetching" /\ unfetched' = unfetched \ {m}
      /\ lpc' \in {"fetching", "top"}
      /\ e # None /\ parked' = [parked EXCEPT ![e] = Append(@, m)]
      /\ UNCHANGED <<dispatcherVars, frameVars, entry, lcur, submitted>>
  BY DEF FetchParked, Park, CanPark
<1>2. e \in Msg /\ InboxKey(e) = InboxKey(m) /\ LaneOpen(e)
  BY <1>1, KeysInRange DEF EntryInv, IInv, TypeOK, InboxTypeOK
<1>3. m \notin submitted /\ ~Occurs(parked[e], m) /\ parked[e] \in Seq(Msg)
  BY <1>1, <1>2 DEF ListsInv, SubmitInv, IInv, TypeOK, InboxTypeOK
<1>4. /\ NoRepeat(parked'[e])
      /\ \A x : Occurs(parked'[e], x) <=> Occurs(parked[e], x) \/ x = m
      /\ \A n \in Msg : n # e => parked'[n] = parked[n]
  <2>1. parked'[e] = Append(parked[e], m) /\ \A n \in Msg : n # e => parked'[n] = parked[n]
    BY <1>1, <1>2 DEF IInv, TypeOK, InboxTypeOK
  <2> QED BY <1>2, <1>3, <2>1, OccursAppend DEF ListsInv
<1>5. ModeInv' /\ SubmitInv'
  BY <1>1 DEF ModeInv, SubmitInv, Live, dispatcherVars
<1>6. ListsInv'
  <2>1. ASSUME NEW n \in Msg
        PROVE  (parked'[n] # <<>> => LaneOpen(n)') /\ NoRepeat(parked'[n])
    BY <1>1, <1>2, <1>4 DEF ListsInv, LaneOpen, frameVars
  <2>2. ASSUME NEW n \in Msg, NEW x \in Msg, Occurs(parked'[n], x)
        PROVE  InboxKey(x) = InboxKey(n) /\ x \notin submitted \cup (unfetched \ {m})
    BY <1>1, <1>2, <1>3, <1>4, <2>2 DEF ListsInv
  <2> QED BY <1>1, <2>1, <2>2 DEF ListsInv, frameVars
<1>7. NestInv' /\ CurrentInv'
  BY <1>1 DEF NestInv, CurrentInv, Current, LaneIsServed, dispatcherVars, frameVars
<1>8. EntryInv'
  BY <1>1 DEF EntryInv, OpenLaneIsOwn, LaneOpen, frameVars
<1> QED BY <1>5, <1>6, <1>7, <1>8

(***************************************************************************)
(* A steering message without a running turn only changes what is rejected *)
(* (loop.go, rejectSteering).                                              *)
(***************************************************************************)
LEMMA FetchMissedHold ==
    ASSUME SInv, NEW m \in Msg, FetchMissed(m)
    PROVE  HoldInv'
<1> USE DEF SInv, HoldInv
<1>1. /\ lpc = "fetching" /\ unfetched' = unfetched \ {m} /\ lpc' \in {"fetching", "top"}
      /\ UNCHANGED <<dispatcherVars, inboxVars, pc, res, batch, missed, lcur, submitted>>
  BY DEF FetchMissed
<1>2. ModeInv' /\ SubmitInv' /\ ListsInv'
  BY <1>1 DEF ModeInv, SubmitInv, ListsInv, Live, LaneOpen, dispatcherVars, inboxVars
<1>3. NestInv' /\ CurrentInv' /\ EntryInv'
  BY <1>1 DEF NestInv, CurrentInv, EntryInv, OpenLaneIsOwn, LaneOpen, Current, LaneIsServed,
              dispatcherVars, inboxVars
<1> QED BY <1>2, <1>3

(***************************************************************************)
(* Submitting puts the message behind its lane or in the hand of a new     *)
(* worker (dispatch.go, submit).                                           *)
(***************************************************************************)
LEMMA LoopSubmitHold ==
    ASSUME SInv, LoopSubmit
    PROVE  HoldInv'
<1> USE DEF SInv, HoldInv
<1> DEFINE k == threadKey(lcur)
<1>1. /\ lcur \in Msg /\ k \in Lane /\ lpc = "submit" /\ lpc' = "top"
      /\ lcur' = None /\ submitted' = submitted \cup {lcur} /\ lcur \notin submitted
      /\ lcur \notin unfetched
      /\ UNCHANGED <<inboxVars, frameVars, unfetched>>
  <2>1. lcur \in Msg
    BY DEF LoopSubmit, IInv, HandInv
  <2>2. lcur \notin unfetched
    BY <2>1 DEF LoopSubmit, PlaceInv, Placed, InHand
  <2> QED BY <2>1, <2>2, KeysInRange DEF LoopSubmit, SubmitInv
<1>2. ~Serial
  BY <1>1 DEF ModeInv
<1>3. SubmitInv' /\ (\A w \in Msg : wpc'[w] = "run" <=> wpc[w] = "run")
      /\ (\A w \in Msg : wpc'[w] = "run" => wcur'[w] = wcur[w])
  <2>1. CASE k \in active
    <3>1. pending' = [pending EXCEPT ![k] = Append(@, lcur)] /\ UNCHANGED <<wpc, wcur>>
      BY <2>1 DEF LoopSubmit, submit
    <3>2. pending[k] \in Seq(Msg) /\ ~Occurs(pending[k], lcur)
      BY <1>1 DEF SubmitInv, IInv, TypeOK, DispatcherTypeOK
    <3>3. /\ NoRepeat(pending'[k])
          /\ \A x : Occurs(pending'[k], x) <=> Occurs(pending[k], x) \/ x = lcur
          /\ \A j \in Lane : j # k => pending'[j] = pending[j]
      BY <1>1, <3>1, <3>2, OccursAppend DEF SubmitInv, IInv, TypeOK, DispatcherTypeOK
    <3> QED BY <1>1, <3>1, <3>3 DEF SubmitInv, Live
  <2>2. CASE k \notin active
    <3>1. wpc' = [wpc EXCEPT ![lcur] = "acquire"] /\ wcur' = [wcur EXCEPT ![lcur] = lcur]
          /\ pending' = pending
      BY <2>2 DEF LoopSubmit, submit
    <3>2. wpc[lcur] # "run"
      BY <1>1, <2>2 DEF IInv, LaneInv, Live
    <3> QED BY <1>1, <3>1, <3>2 DEF SubmitInv, Live, IInv, TypeOK, DispatcherTypeOK
  <2> QED BY <2>1, <2>2
<1>4. ModeInv'
  BY <1>1, <1>2 DEF ModeInv
<1>5. ListsInv'
  BY <1>1 DEF ListsInv, LaneOpen, inboxVars, frameVars
<1>6. NestInv' /\ EntryInv'
  BY <1>1 DEF NestInv, EntryInv, OpenLaneIsOwn, LaneOpen, Current, inboxVars, frameVars
<1>7. CurrentInv'
  BY <1>1, <1>3 DEF CurrentInv, Current, LaneIsServed, frameVars
<1> QED BY <1>3, <1>4, <1>5, <1>6, <1>7

(***************************************************************************)
(* The serial loop looks at the result of its turn: nothing runs any more  *)
(* (loop.go, RunLoop).                                                     *)
(***************************************************************************)
LEMMA SerialReturnHold ==
    ASSUME SInv, SerialReturn
    PROVE  HoldInv'
<1> USE DEF SInv, HoldInv
<1>1. /\ lcur \in Msg /\ lpc = "serial" /\ lpc' \in {"top", "returned"} /\ lcur' = None
      /\ pc[lcur] = "returned" /\ res' = [res EXCEPT ![lcur] = "none"]
      /\ UNCHANGED <<dispatcherVars, inboxVars, pc, batch, missed, unfetched, submitted>>
  BY DEF SerialReturn, IInv, HandInv
<1>2. Serial /\ Current(lcur)
  BY <1>1 DEF ModeInv, CurrentInv
<1>3. \A n \in Msg : Current(n) <=> n = lcur
  BY <1>1, <1>2 DEF CurrentInv, LaneIsServed, ModeInv
<1>4. \A n \in Msg : ~Current(n)'
  BY <1>1, <1>3 DEF Current, IInv, TypeOK, FrameTypeOK
<1>5. ModeInv' /\ SubmitInv' /\ ListsInv'
  BY <1>1, <1>2 DEF ModeInv, SubmitInv, ListsInv, Live, LaneOpen, dispatcherVars, inboxVars
<1>6. NestInv'
  <2>1. \A n \in Msg : pc[n] = "child" => Head(missed[n]) # lcur
    BY <1>1, OccursHead DEF ListsInv, IInv, ChildInv, TypeOK, FrameTypeOK
  <2>2. \A n \in Msg : pc[n] = "child" => Head(missed[n]) \in Msg
    BY OccursHead DEF IInv, ChildInv, TypeOK, FrameTypeOK
  <2> QED BY <1>1, <1>3, <2>1, <2>2 DEF NestInv
<1>7. CurrentInv'
  <2>1. \A w \in Msg : wpc'[w] # "run"
    BY <1>1, <1>2 DEF ModeInv, dispatcherVars
  <2>2. \A n \in Msg : pc'[n] \in {"close", "missed", "child", "done"} => res'[n] # "none"
    BY <1>1 DEF CurrentInv, IInv, TypeOK, FrameTypeOK
  <2> QED BY <1>1, <1>4, <2>1, <2>2 DEF CurrentInv
<1>8. EntryInv'
  BY <1>1 DEF EntryInv, OpenLaneIsOwn, LaneOpen, inboxVars
<1> QED BY <1>5, <1>6, <1>7, <1>8

(***************************************************************************)
(* A worker that gets its permit is the only one of its lane, so nothing   *)
(* runs there when its frame begins (dispatch.go, launch).                 *)
(***************************************************************************)
LEMMA WorkerAcquireHold ==
    ASSUME SInv, NEW w \in Msg, WorkerAcquire(w)
    PROVE  HoldInv'
<1> USE DEF SInv, HoldInv
<1>c. PICK c \in Msg : c = wcur[w]
  BY DEF IInv, TypeOK, DispatcherTypeOK
<1>1. /\ wpc[w] = "acquire" /\ wpc' = [wpc EXCEPT ![w] = "run"]
      /\ pc' = [pc EXCEPT ![c] = "begin"]
      /\ UNCHANGED <<active, pending, wcur, inboxVars, loopVars, res, batch, missed>>
  BY <1>c DEF WorkerAcquire, acquire
<1>2. ~Serial /\ lpc # "serial" /\ pc[c] = "idle"
  BY <1>c, <1>1 DEF ModeInv, PlaceInv, Placed, AtWorker
<1>3. threadKey(c) = threadKey(w) /\ c \in submitted
  BY <1>c, <1>1 DEF SubmitInv, Live
<1>4. \A n \in Msg : Current(n) => threadKey(n) # threadKey(c)
  BY <1>1, <1>2, <1>3 DEF CurrentInv, LaneIsServed, IInv, LaneInv, Live
<1>5. \A n \in Msg : n # c => pc'[n] = pc[n] /\ (Current(n)' <=> Current(n))
  BY <1>1 DEF Current, IInv, TypeOK, FrameTypeOK
<1>6. pc'[c] = "begin" /\ Current(c)'
  BY <1>1 DEF Current, IInv, TypeOK, FrameTypeOK
<1>7. \A x \in Msg : wpc'[x] = IF x = w THEN "run" ELSE wpc[x]
  BY <1>1 DEF IInv, TypeOK, DispatcherTypeOK
<1>8. ModeInv' /\ SubmitInv'
  BY <1>1, <1>2, <1>7 DEF ModeInv, SubmitInv, Live, loopVars
<1>9. \A n \in Msg : ~Occurs(parked[n], c) /\ ~Occurs(batch[n], c) /\ ~Occurs(missed[n], c)
  BY <1>1, <1>3 DEF ListsInv
<1>10. ListsInv'
  BY <1>1, <1>2, <1>5, <1>6 DEF ListsInv, LaneOpen, inboxVars, loopVars
<1>11. NestInv'
  <2>1. \A n \in Msg : pc[n] = "child" => Head(missed[n]) # c /\ Head(missed[n]) \in Msg
    BY <1>9, OccursHead DEF IInv, ChildInv, TypeOK, FrameTypeOK
  <2> QED BY <1>1, <1>2, <1>5, <1>6, <1>9, <2>1 DEF NestInv
<1>12. CurrentInv'
  <2>1. \A m, n \in Msg : Current(m)' /\ Current(n)' /\ threadKey(m) = threadKey(n) => m = n
    BY <1>4, <1>5 DEF CurrentInv
  <2>2. \A n \in Msg : Current(n)' => LaneIsServed(n)'
    <3>1. LaneIsServed(c)'
      BY <1>3, <1>7 DEF LaneIsServed
    <3>2. ASSUME NEW n \in Msg, Current(n) PROVE LaneIsServed(n)'
      BY <1>1, <1>7, <3>2 DEF CurrentInv, LaneIsServed, loopVars
    <3> QED BY <1>5, <3>1, <3>2
  <2>3. \A n \in Msg : pc'[n] \in {"close", "missed", "child", "done"} => res'[n] # "none"
    BY <1>1, <1>5, <1>6 DEF CurrentInv
  <2>4. \A x \in Msg : wpc'[x] = "run" => Current(wcur[x])' \/ pc'[wcur'[x]] = "child"
    <3>1. \A x \in Msg : wcur[x] \in Msg
      BY DEF IInv, TypeOK, DispatcherTypeOK
    <3> QED BY <1>c, <1>1, <1>5, <1>6, <1>7, <3>1 DEF CurrentInv
  <2>5. lpc' # "serial"
    BY <1>1, <1>2 DEF loopVars
  <2> QED BY <2>1, <2>2, <2>3, <2>4, <2>5 DEF CurrentInv
<1>13. EntryInv'
  <2>1. \A n \in Msg : LaneOpen(n)' <=> LaneOpen(n)
    BY <1>2, <1>5, <1>6 DEF LaneOpen
  <2> QED BY <1>1, <2>1 DEF EntryInv, OpenLaneIsOwn, inboxVars, IInv, TypeOK, InboxTypeOK
<1> QED BY <1>8, <1>10, <1>11, <1>12, <1>13

(***************************************************************************)
(* A worker that gives its permit back has looked at the result of its     *)
(* frame, which was the current one of the lane (dispatch.go, launch).     *)
(***************************************************************************)
LEMMA WorkerReleaseHold ==
    ASSUME SInv, NEW w \in Msg, WorkerRelease(w)
    PROVE  HoldInv'
<1> USE DEF SInv, HoldInv
<1>c. PICK c \in Msg : c = wcur[w]
  BY DEF IInv, TypeOK, DispatcherTypeOK
<1>1. /\ wpc[w] = "run" /\ wpc' = [wpc EXCEPT ![w] = "next"]
      /\ pc[c] = "returned" /\ res' = [res EXCEPT ![c] = "none"]
      /\ UNCHANGED <<active, pending, wcur, inboxVars, lpc, lcur, unfetched, submitted,
                     pc, batch, missed>>
  BY <1>c DEF WorkerRelease, release
<1>2. ~Serial /\ lpc # "serial" /\ Current(c) /\ threadKey(c) = threadKey(w) /\ c \in submitted
  BY <1>c, <1>1 DEF ModeInv, CurrentInv, SubmitInv, Live
<1>3. \A n \in Msg : n # c => (Current(n)' <=> Current(n))
  BY <1>1 DEF Current, IInv, TypeOK, FrameTypeOK
<1>4. ~Current(c)'
  BY <1>1 DEF Current, IInv, TypeOK, FrameTypeOK
<1>5. \A x \in Msg : wpc'[x] = IF x = w THEN "next" ELSE wpc[x]
  BY <1>1 DEF IInv, TypeOK, DispatcherTypeOK
<1>6. ModeInv' /\ SubmitInv' /\ ListsInv'
  BY <1>1, <1>2, <1>5 DEF ModeInv, SubmitInv, ListsInv, LaneOpen, Live, inboxVars
<1>7. NestInv'
  <2>1. \A n \in Msg : pc[n] = "child" => Head(missed[n]) # c /\ Head(missed[n]) \in Msg
    BY <1>2, OccursHead DEF ListsInv, IInv, ChildInv, TypeOK, FrameTypeOK
  <2> QED BY <1>1, <1>3, <2>1 DEF NestInv
<1>8. CurrentInv'
  <2>1. \A m, n \in Msg : Current(m)' /\ Current(n)' /\ threadKey(m) = threadKey(n) => m = n
    BY <1>3, <1>4 DEF CurrentInv
  <2>2. ASSUME NEW n \in Msg, Current(n)' PROVE LaneIsServed(n)'
    <3>1. Current(n) /\ n # c /\ threadKey(n) # threadKey(w)
      BY <1>2, <1>3, <1>4, <2>2 DEF CurrentInv
    <3>2. PICK x \in Msg : wpc[x] = "run" /\ threadKey(x) = threadKey(n)
      BY <1>2, <3>1 DEF CurrentInv, LaneIsServed
    <3> QED BY <1>5, <3>1, <3>2 DEF LaneIsServed
  <2>3. \A n \in Msg : pc'[n] \in {"close", "missed", "child", "done"} => res'[n] # "none"
    BY <1>1 DEF CurrentInv, IInv, TypeOK, FrameTypeOK
  <2>4. ASSUME NEW x \in Msg, wpc'[x] = "run"
        PROVE  Current(wcur[x])' \/ pc'[wcur'[x]] = "child"
    <3>1. x # w /\ wpc[x] = "run" /\ wcur[x] \in Msg
      BY <1>5, <2>4 DEF IInv, TypeOK, DispatcherTypeOK
    <3>2. wcur[x] # c
      BY <1>c, <1>1, <1>2, <3>1 DEF SubmitInv, IInv, LaneInv, Live
    <3> QED BY <1>1, <1>3, <3>1, <3>2 DEF CurrentInv
  <2> QED BY <1>1, <1>2, <2>1, <2>2, <2>3, <2>4 DEF CurrentInv
<1>9. EntryInv'
  BY <1>1 DEF EntryInv, OpenLaneIsOwn, LaneOpen, inboxVars
<1> QED BY <1>6, <1>7, <1>8, <1>9

(***************************************************************************)
(* A worker takes the oldest message of its lane or leaves (dispatch.go,   *)
(* launch).                                                                *)
(***************************************************************************)
LEMMA WorkerNextHold ==
    ASSUME SInv, NEW w \in Msg, WorkerNext(w)
    PROVE  HoldInv'
<1> USE DEF SInv, HoldInv
<1> DEFINE k == threadKey(w)
<1>1. /\ wpc[w] = "next" /\ wpc'[w] \in {"exited", "acquire"} /\ wpc' = [wpc EXCEPT ![w] = wpc'[w]]
      /\ UNCHANGED <<inboxVars, frameVars, loopVars>> /\ k \in Lane
  BY KeysInRange DEF WorkerNext, popOrExit, IInv, TypeOK, DispatcherTypeOK
<1>2. ~Serial
  BY <1>1 DEF ModeInv
<1>3. \A x \in Msg : wpc'[x] = "run" <=> wpc[x] = "run"
  BY <1>1 DEF IInv, TypeOK, DispatcherTypeOK
<1>4. \A x \in Msg : x # w => wpc'[x] = wpc[x] /\ wcur'[x] = wcur[x]
  BY <1>1 DEF WorkerNext, popOrExit, IInv, TypeOK, DispatcherTypeOK
<1>5. SubmitInv'
  <2>1. CASE pending[k] = <<>>
    <3>1. wpc'[w] = "exited" /\ pending' = pending
      BY <2>1 DEF WorkerNext, popOrExit, IInv, TypeOK, DispatcherTypeOK
    <3> QED BY <1>1, <1>4, <3>1 DEF SubmitInv, Live, loopVars
  <2>2. CASE pending[k] # <<>>
    <3>1. wcur'[w] = Head(pending[k]) /\ pending' = [pending EXCEPT ![k] = Tail(@)]
      BY <2>2 DEF WorkerNext, popOrExit, IInv, TypeOK, DispatcherTypeOK
    <3>2. pending[k] \in Seq(Msg)
      BY <1>1 DEF IInv, TypeOK, DispatcherTypeOK
    <3>3. Occurs(pending[k], Head(pending[k])) /\ Head(pending[k]) \in Msg
      BY <2>2, <3>2, OccursHead
    <3>4. threadKey(wcur'[w]) = k /\ wcur'[w] \in submitted
      BY <1>1, <3>1, <3>3 DEF SubmitInv
    <3>5. /\ NoRepeat(pending'[k])
          /\ \A x : Occurs(pending'[k], x) => Occurs(pending[k], x)
          /\ \A j \in Lane : j # k => pending'[j] = pending[j]
      <4>1. pending'[k] = Tail(pending[k]) /\ \A j \in Lane : j # k => pending'[j] = pending[j]
        BY <1>1, <3>1 DEF IInv, TypeOK, DispatcherTypeOK
      <4> QED BY <1>1, <2>2, <3>2, <4>1, OccursTail DEF SubmitInv
    <3> QED BY <1>1, <1>4, <3>4, <3>5 DEF SubmitInv, Live, loopVars
  <2> QED BY <2>1, <2>2
<1>6. ModeInv' /\ ListsInv' /\ NestInv' /\ EntryInv'
  BY <1>1, <1>2 DEF ModeInv, ListsInv, NestInv, EntryInv, OpenLaneIsOwn, LaneOpen, Current,
     inboxVars, frameVars, loopVars
<1>7. CurrentInv'
  BY <1>1, <1>3, <1>4 DEF CurrentInv, Current, LaneIsServed, frameVars, loopVars
<1> QED BY <1>5, <1>6, <1>7

-----------------------------------------------------------------------------
(* The steps of a frame.                                                   *)

(***************************************************************************)
(* The current frame going on to its next step keeps the right to run      *)
(* where it is (run_once.go, runTask).                                     *)
(***************************************************************************)
LEMMA FrameMoveHold ==
    ASSUME SInv, NEW m \in Msg,
           NEW p \in {"open", "exec", "deliver", "close", "missed", "done", "returned"},
           pc[m] \notin {"idle", "child", "returned"},
           pc' = [pc EXCEPT ![m] = p],
           \A n \in Msg : n # m => res'[n] = res[n],
           p \in {"close", "missed", "done", "returned"} => res'[m] # "none",
           UNCHANGED <<dispatcherVars, loopVars>>
    PROVE  /\ ModeInv' /\ SubmitInv' /\ CurrentInv'
           /\ \A n \in Msg : Current(n)' <=> Current(n)
           /\ \A n \in Msg : pc'[n] = IF n = m THEN p ELSE pc[n]
<1> USE DEF SInv, HoldInv
<1>1. \A n \in Msg : pc'[n] = IF n = m THEN p ELSE pc[n]
  BY DEF IInv, TypeOK, FrameTypeOK
<1>2. \A n \in Msg : Current(n)' <=> Current(n)
  BY <1>1 DEF Current
<1>3. ModeInv' /\ SubmitInv'
  BY DEF ModeInv, SubmitInv, Live, dispatcherVars, loopVars
<1>4. CurrentInv'
  <2>1. \A n \in Msg : LaneIsServed(n)' <=> LaneIsServed(n)
    BY DEF LaneIsServed, dispatcherVars, loopVars
  <2>2. \A n \in Msg : pc'[n] \in {"close", "missed", "child", "done"} => res'[n] # "none"
    BY <1>1 DEF CurrentInv
  <2>3. ASSUME NEW n \in Msg, Current(n) \/ pc[n] = "child"
        PROVE  Current(n)' \/ pc'[n] = "child"
    BY <1>1, <1>2, <2>3
  <2>4. \A w \in Msg : wcur[w] \in Msg
    BY DEF IInv, TypeOK, DispatcherTypeOK
  <2>5. lpc = "serial" => lcur \in Msg
    BY DEF IInv, HandInv
  <2> QED BY <1>2, <2>1, <2>2, <2>3, <2>4, <2>5 DEF CurrentInv, dispatcherVars, loopVars
<1> QED BY <1>1, <1>2, <1>3, <1>4

(***************************************************************************)
(* The leftovers a frame waits for stay where they are when another frame  *)
(* moves on (run_once.go, runTask).                                        *)
(***************************************************************************)
LEMMA NestMoveHold ==
    ASSUME SInv, NEW m \in Msg,
           pc[m] \notin {"idle", "child"},
           pc'[m] \notin {"idle", "child"},
           \A n \in Msg : Current(n)' <=> Current(n),
           \A n \in Msg : n # m => pc'[n] = pc[n] /\ missed'[n] = missed[n],
           \A x \in Msg : Occurs(missed'[m], x) => Occurs(missed[m], x)
    PROVE  NestInv'
<1> USE DEF SInv, HoldInv
<1>1. \A n, x \in Msg : Occurs(missed'[n], x) => Occurs(missed[n], x)
  OBVIOUS
<1>2. \A n \in Msg : pc'[n] = "child" <=> pc[n] = "child"
  OBVIOUS
<1>3. \A n \in Msg : pc'[n] # "idle" <=> pc[n] # "idle"
  OBVIOUS
<1>4. \A n \in Msg : pc[n] = "child" => missed'[n] = missed[n] /\ Head(missed[n]) \in Msg
  BY OccursHead DEF IInv, ChildInv, TypeOK, FrameTypeOK
<1>5. \A n, p, x \in Msg : Occurs(missed'[n], x) /\ Occurs(missed'[p], x) => n = p
  BY <1>1 DEF NestInv
<1>6. \A n, x \in Msg :
         Occurs(missed'[n], x) /\ pc'[x] # "idle" => pc'[n] = "child" /\ x = Head(missed'[n])
  BY <1>1, <1>2, <1>3, <1>4 DEF NestInv
<1>7. \A n \in Msg :
         pc'[n] = "child" => Current(Head(missed[n]))' \/ pc'[Head(missed'[n])] = "child"
  <2> SUFFICES ASSUME NEW n \in Msg, pc'[n] = "child"
               PROVE  Current(Head(missed[n]))' \/ pc'[Head(missed'[n])] = "child"
    OBVIOUS
  <2>1. PICK h \in Msg : h = Head(missed[n])
    BY <1>2, <1>4
  <2>2. Current(h) \/ pc[h] = "child"
    BY <1>2, <2>1 DEF NestInv
  <2>3. Current(h)' \/ pc'[h] = "child"
    BY <1>2, <2>2
  <2>4. Head(missed'[n]) = h
    BY <1>2, <1>4, <2>1
  <2> QED BY <2>3, <2>4 DEF Current
<1> QED BY <1>5, <1>6, <1>7 DEF NestInv

(***************************************************************************)
(* Registering with the canceller, ending the provider loop and counting   *)
(* down an empty list of leftovers move no message (run_once.go, runTask). *)
(***************************************************************************)
LEMMA FramePlainHold ==
    ASSUME SInv, NEW m \in Msg,
           \/ TaskBegin(m) \/ \E r \in Result \ {"none"} : TurnEnd(m, r)
           \/ MissedEmpty(m) \/ TaskDone(m)
    PROVE  HoldInv'
<1> USE DEF SInv, HoldInv
<1>1. PICK p \in {"open", "close", "done", "returned"} :
         /\ pc' = [pc EXCEPT ![m] = p]
         /\ p = "open" => pc[m] = "begin"
         /\ p = "close" => pc[m] = "exec"
         /\ p = "done" => pc[m] = "missed" /\ missed[m] = <<>>
         /\ p = "returned" => pc[m] = "done"
  BY DEF TaskBegin, TurnEnd, MissedEmpty, TaskDone
<1>2. /\ UNCHANGED <<dispatcherVars, loopVars, inboxVars, batch, missed>>
      /\ \A n \in Msg : n # m => res'[n] = res[n]
  BY DEF TaskBegin, TurnEnd, MissedEmpty, TaskDone, IInv, TypeOK, FrameTypeOK
<1>3. p \in {"close", "missed", "done", "returned"} => res'[m] # "none"
  <2>1. CASE \E r \in Result \ {"none"} : TurnEnd(m, r)
    BY <2>1 DEF TurnEnd, IInv, TypeOK, FrameTypeOK
  <2>2. CASE MissedEmpty(m) \/ TaskDone(m)
    BY <2>2 DEF MissedEmpty, TaskDone, CurrentInv
  <2>3. CASE TaskBegin(m)
    <3>1. pc'[m] = "open" /\ pc'[m] = p
      BY <1>1, <2>3 DEF TaskBegin, IInv, TypeOK, FrameTypeOK
    <3> QED BY <3>1
  <2> QED BY <2>1, <2>2, <2>3
<1>4. /\ ModeInv' /\ SubmitInv' /\ CurrentInv'
      /\ \A n \in Msg : Current(n)' <=> Current(n)
      /\ \A n \in Msg : pc'[n] = IF n = m THEN p ELSE pc[n]
  <2>1. pc[m] \notin {"idle", "child", "returned"}
        /\ p \in {"open", "exec", "deliver", "close", "missed", "done", "returned"}
    BY <1>1
  <2> HIDE DEF SInv, HoldInv
  <2> QED BY <1>1, <1>2, <1>3, <2>1, FrameMoveHold
<1>5. \A n \in Msg : LaneOpen(n)' <=> LaneOpen(n)
  BY <1>1, <1>4 DEF LaneOpen
<1>6. ListsInv'
  <2>1. batch[m] = <<>> /\ (p # "done" => missed[m] = <<>>)
    BY <1>1 DEF ListsInv
  <2>2. \A n \in Msg : batch'[n] # <<>> => pc'[n] = "deliver"
    BY <1>2, <1>4, <2>1 DEF ListsInv
  <2>3. \A n \in Msg : missed'[n] # <<>> => pc'[n] \in {"missed", "child"}
    BY <1>1, <1>2, <1>4, <2>1 DEF ListsInv
  <2> QED BY <1>2, <1>5, <2>2, <2>3 DEF ListsInv, inboxVars, loopVars
<1>7. NestInv'
  BY <1>1, <1>2, <1>4, NestMoveHold
<1>8. EntryInv'
  BY <1>2, <1>5 DEF EntryInv, OpenLaneIsOwn, inboxVars, IInv, TypeOK, InboxTypeOK
<1> QED BY <1>4, <1>6, <1>7, <1>8

(***************************************************************************)
(* Opening a lane takes no other turn's entry away: one that is open under *)
(* the key would be current on the same lane (steering.go, Begin).         *)
(***************************************************************************)
LEMMA TaskOpenLaneHold ==
    ASSUME SInv, NEW m \in Msg, TaskOpenLane(m)
    PROVE  HoldInv'
<1> USE DEF SInv, HoldInv
<1>1. /\ pc[m] = "open" /\ pc' = [pc EXCEPT ![m] = "exec"]
      /\ entry' = [entry EXCEPT ![InboxKey(m)] = m] /\ parked' = [parked EXCEPT ![m] = <<>>]
      /\ UNCHANGED <<dispatcherVars, loopVars, res, batch, missed>>
  BY DEF TaskOpenLane, InboxBegin
<1>2. /\ ModeInv' /\ SubmitInv' /\ CurrentInv'
      /\ \A n \in Msg : Current(n)' <=> Current(n)
      /\ \A n \in Msg : pc'[n] = IF n = m THEN "exec" ELSE pc[n]
  BY <1>1, FrameMoveHold
<1>3. \A n \in Msg : LaneOpen(n) => n # m /\ InboxKey(n) # InboxKey(m)
  BY <1>1, KeysAgree DEF CurrentInv, Current, LaneOpen
<1>4. \A n \in Msg : LaneOpen(n)' <=> LaneOpen(n) \/ n = m
  BY <1>2 DEF LaneOpen
<1>5. \A n \in Msg : parked'[n] = parked[n]
  BY <1>1, <1>3 DEF ListsInv, IInv, TypeOK, InboxTypeOK
<1>6. ListsInv'
  <2>1. batch[m] = <<>> /\ missed[m] = <<>>
    BY <1>1 DEF ListsInv
  <2> QED BY <1>1, <1>2, <1>4, <1>5, <2>1 DEF ListsInv, loopVars
<1>7. NestInv'
  BY <1>1, <1>2, NestMoveHold
<1>8. EntryInv'
  <2>1. \A k \in Key : entry'[k] = IF k = InboxKey(m) THEN m ELSE entry[k]
    BY <1>1 DEF IInv, TypeOK, InboxTypeOK
  <2>2. OpenLaneIsOwn'
    BY <1>3, <1>4, <2>1, KeysInRange DEF EntryInv, OpenLaneIsOwn
  <2>3. \A k \in Key : entry[k] # None => entry[k] \in Msg
    BY DEF IInv, TypeOK, InboxTypeOK
  <2>4. \A k \in Key : entry'[k] # None => InboxKey(entry'[k]) = k /\ LaneOpen(entry[k])'
    BY <1>4, <2>1, <2>3 DEF EntryInv
  <2> QED BY <2>2, <2>4 DEF EntryInv
<1> QED BY <1>2, <1>6, <1>7, <1>8

(***************************************************************************)
(* A drain takes what is parked on an open entry, all of it and once       *)
(* (steering.go, Drain).                                                   *)
(***************************************************************************)
LEMMA DrainTakes ==
    ASSUME SInv, NEW m \in Msg, TurnDrain(m)
    PROVE  \E e \in Msg :
              /\ LaneOpen(e) /\ parked[e] # <<>>
              /\ \A n \in Msg : parked'[n] = IF n = e THEN <<>> ELSE parked[n]
              /\ \A n \in Msg : batch'[n] = IF n = m THEN parked[e] ELSE batch[n]
<1> USE DEF SInv, HoldInv
<1> DEFINE k == DrainKey(m)
<1>1. k \in Key /\ entry[k] # None /\ parked[entry[k]] # <<>> /\ Drained(k) = parked[entry[k]]
  BY DEF TurnDrain, Drained
<1>2. PICK e \in Msg : e = entry[k]
  BY <1>1 DEF IInv, TypeOK, InboxTypeOK
<1>3. LaneOpen(e)
  BY <1>1, <1>2 DEF EntryInv
<1>4. parked' = [parked EXCEPT ![e] = <<>>] /\ batch' = [batch EXCEPT ![m] = parked[e]]
  BY <1>1, <1>2 DEF TurnDrain, Drain
<1> QED BY <1>1, <1>2, <1>3, <1>4 DEF IInv, TypeOK, InboxTypeOK, FrameTypeOK

LEMMA TurnDrainHold ==
    ASSUME SInv, NEW m \in Msg, TurnDrain(m)
    PROVE  HoldInv'
<1> USE DEF SInv, HoldInv
<1>1. /\ pc[m] = "exec" /\ pc' = [pc EXCEPT ![m] = "deliver"]
      /\ UNCHANGED <<dispatcherVars, loopVars, entry, res, missed>>
  BY DEF TurnDrain, Drain
<1>e. PICK e \in Msg :
         /\ LaneOpen(e) /\ parked[e] # <<>>
         /\ \A n \in Msg : parked'[n] = IF n = e THEN <<>> ELSE parked[n]
         /\ \A n \in Msg : batch'[n] = IF n = m THEN parked[e] ELSE batch[n]
  BY DrainTakes
<1>2. /\ ModeInv' /\ SubmitInv' /\ CurrentInv'
      /\ \A n \in Msg : Current(n)' <=> Current(n)
      /\ \A n \in Msg : pc'[n] = IF n = m THEN "deliver" ELSE pc[n]
  BY <1>1, FrameMoveHold
<1>3. \A n \in Msg : LaneOpen(n)' <=> LaneOpen(n)
  BY <1>1, <1>2 DEF LaneOpen
<1>4. \A n, x \in Msg : ~(Occurs(parked[e], x) /\ Occurs(batch[n], x))
  BY DEF PlaceInv, Placed, InParked, InBatch
<1>5. ListsInv'
  <2>1. missed[m] = <<>> /\ batch[m] = <<>>
    BY <1>1 DEF ListsInv
  <2>2. ASSUME NEW n \in Msg
        PROVE  /\ parked'[n] # <<>> => LaneOpen(n)'
               /\ batch'[n] # <<>> => pc'[n] = "deliver"
               /\ missed'[n] # <<>> => pc'[n] \in {"missed", "child"}
               /\ NoRepeat(parked'[n]) /\ NoRepeat(batch'[n]) /\ NoRepeat(missed'[n])
    BY <1>1, <1>e, <1>2, <1>3, <2>1, OccursEmpty DEF ListsInv
  <2>3. ASSUME NEW n \in Msg, NEW x \in Msg
        PROVE  /\ Occurs(parked'[n], x) \/ Occurs(missed'[n], x) => InboxKey(x) = InboxKey(n)
               /\ Occurs(parked'[n], x) \/ Occurs(batch'[n], x) \/ Occurs(missed'[n], x) =>
                     /\ x \notin submitted \cup unfetched
                     /\ ~(lpc \in {"submit", "serial"} /\ lcur = x)
    BY <1>1, <1>e, OccursEmpty DEF ListsInv
  <2>4. ASSUME NEW n \in Msg, NEW p \in Msg, NEW x \in Msg,
               Occurs(batch'[n], x), Occurs(batch'[p], x)
        PROVE  n = p
    BY <1>e, <1>4, <2>4 DEF ListsInv
  <2> QED BY <1>1, <2>2, <2>3, <2>4 DEF ListsInv, loopVars
<1>6. NestInv'
  BY <1>1, <1>2, NestMoveHold
<1>7. EntryInv'
  BY <1>1, <1>3 DEF EntryInv, OpenLaneIsOwn, IInv, TypeOK, InboxTypeOK
<1> QED BY <1>2, <1>5, <1>6, <1>7

(***************************************************************************)
(* Appending what was drained, or failing to, shortens the batch of its    *)
(* own frame (turn/steering.go, deliverSteering).                          *)
(***************************************************************************)
LEMMA TurnDeliverHold ==
    ASSUME SInv, NEW m \in Msg, TurnDeliver(m) \/ TurnDeliverFails(m)
    PROVE  HoldInv'
<1> USE DEF SInv, HoldInv
<1>1. PICK p \in {"exec", "deliver", "close"} :
         /\ pc[m] = "deliver" /\ pc' = [pc EXCEPT ![m] = p]
         /\ p = "close" => res'[m] # "none"
         /\ p # "deliver" => batch'[m] = <<>>
  <2>1. CASE TurnDeliver(m) /\ batch[m] = <<>>
    BY <2>1 DEF TurnDeliver
  <2>2. CASE TurnDeliver(m) /\ batch[m] # <<>>
    <3>1. pc[m] = "deliver" /\ pc' = pc
      BY <2>2 DEF TurnDeliver
    <3>2. pc = [pc EXCEPT ![m] = "deliver"]
      BY <3>1 DEF IInv, TypeOK, FrameTypeOK
    <3> QED BY <3>1, <3>2
  <2>3. CASE TurnDeliverFails(m)
    BY <2>3 DEF TurnDeliverFails, IInv, TypeOK, FrameTypeOK
  <2> QED BY <2>1, <2>2, <2>3
<1>2. /\ UNCHANGED <<dispatcherVars, loopVars, inboxVars, missed>>
      /\ \A n \in Msg : n # m => res'[n] = res[n] /\ batch'[n] = batch[n]
      /\ \A x \in Msg : Occurs(batch'[m], x) => Occurs(batch[m], x)
      /\ NoRepeat(batch'[m])
  <2>0. batch[m] \in Seq(Msg) /\ NoRepeat(batch[m])
    BY DEF ListsInv, IInv, TypeOK, FrameTypeOK
  <2>1. CASE TurnDeliver(m) /\ batch[m] = <<>>
    BY <2>0, <2>1 DEF TurnDeliver
  <2>2. CASE TurnDeliver(m) /\ batch[m] # <<>>
    <3>1. batch'[m] = Tail(batch[m]) /\ \A n \in Msg : n # m => batch'[n] = batch[n]
      BY <2>2 DEF TurnDeliver, IInv, TypeOK, FrameTypeOK
    <3> QED BY <2>0, <2>2, <3>1, OccursTail DEF TurnDeliver
  <2>3. CASE TurnDeliverFails(m)
    <3>1. batch'[m] = <<>> /\ \A n \in Msg : n # m => res'[n] = res[n] /\ batch'[n] = batch[n]
      BY <2>3 DEF TurnDeliverFails, IInv, TypeOK, FrameTypeOK
    <3> QED BY <2>3, <3>1, OccursEmpty DEF TurnDeliverFails
  <2> QED BY <2>1, <2>2, <2>3
<1>3. /\ ModeInv' /\ SubmitInv' /\ CurrentInv'
      /\ \A n \in Msg : Current(n)' <=> Current(n)
      /\ \A n \in Msg : pc'[n] = IF n = m THEN p ELSE pc[n]
  <2>1. pc[m] \notin {"idle", "child", "returned"}
        /\ p \in {"open", "exec", "deliver", "close", "missed", "done", "returned"}
        /\ (p \in {"close", "missed", "done", "returned"} => res'[m] # "none")
    BY <1>1
  <2>2. pc' = [pc EXCEPT ![m] = p] /\ (\A n \in Msg : n # m => res'[n] = res[n])
        /\ UNCHANGED <<dispatcherVars, loopVars>>
    BY <1>1, <1>2
  <2> HIDE DEF SInv, HoldInv
  <2> QED BY <2>1, <2>2, FrameMoveHold
<1>4. \A n \in Msg : LaneOpen(n)' <=> LaneOpen(n)
  BY <1>1, <1>3 DEF LaneOpen
<1>5. ListsInv'
  <2>1. missed[m] = <<>>
    BY <1>1 DEF ListsInv
  <2>2. \A n \in Msg : batch'[n] # <<>> => pc'[n] = "deliver"
    BY <1>1, <1>2, <1>3 DEF ListsInv
  <2>3. \A n, x \in Msg : Occurs(batch'[n], x) => Occurs(batch[n], x)
    BY <1>2
  <2>4. \A n \in Msg : NoRepeat(batch'[n])
    BY <1>2 DEF ListsInv
  <2> QED BY <1>2, <1>3, <1>4, <2>1, <2>2, <2>3, <2>4 DEF ListsInv, inboxVars, loopVars
<1>6. NestInv'
  BY <1>1, <1>2, <1>3, NestMoveHold
<1>7. EntryInv'
  BY <1>2, <1>4 DEF EntryInv, OpenLaneIsOwn, inboxVars, IInv, TypeOK, InboxTypeOK
<1> QED BY <1>3, <1>5, <1>6, <1>7

(***************************************************************************)
(* Closing a lane removes the turn's own entry and hands its frame what    *)
(* was parked last (steering.go, Begin's close func; run_once.go).         *)
(***************************************************************************)
LEMMA TaskCloseHold ==
    ASSUME SInv, NEW m \in Msg, TaskClose(m)
    PROVE  HoldInv'
<1> USE DEF SInv, HoldInv
<1>1. /\ pc[m] = "close" /\ pc' = [pc EXCEPT ![m] = "missed"] /\ LaneOpen(m)
      /\ entry' = [entry EXCEPT ![InboxKey(m)] = IF @ = m THEN None ELSE @]
      /\ parked' = [parked EXCEPT ![m] = <<>>] /\ missed' = [missed EXCEPT ![m] = parked[m]]
      /\ UNCHANGED <<dispatcherVars, loopVars, res, batch>>
  BY DEF TaskClose, InboxClose, LaneOpen
<1>2. /\ ModeInv' /\ SubmitInv' /\ CurrentInv'
      /\ \A n \in Msg : Current(n)' <=> Current(n)
      /\ \A n \in Msg : pc'[n] = IF n = m THEN "missed" ELSE pc[n]
  BY <1>1, FrameMoveHold DEF CurrentInv
<1>3. \A n \in Msg : LaneOpen(n)' <=> LaneOpen(n) /\ n # m
  BY <1>2 DEF LaneOpen
<1>4. /\ \A n \in Msg : parked'[n] = IF n = m THEN <<>> ELSE parked[n]
      /\ \A n \in Msg : missed'[n] = IF n = m THEN parked[m] ELSE missed[n]
  BY <1>1 DEF IInv, TypeOK, InboxTypeOK, FrameTypeOK
<1>5. \A n, x \in Msg : Occurs(parked[m], x) => ~Occurs(missed[n], x) /\ pc[x] = "idle"
  BY DEF PlaceInv, Placed, InParked, InMissed
<1>6. ListsInv'
  <2>1. batch[m] = <<>>
    BY <1>1 DEF ListsInv
  <2>2. ASSUME NEW n \in Msg
        PROVE  /\ parked'[n] # <<>> => LaneOpen(n)'
               /\ batch'[n] # <<>> => pc'[n] = "deliver"
               /\ missed'[n] # <<>> => pc'[n] \in {"missed", "child"}
               /\ NoRepeat(parked'[n]) /\ NoRepeat(batch'[n]) /\ NoRepeat(missed'[n])
    BY <1>1, <1>2, <1>3, <1>4, <2>1, OccursEmpty DEF ListsInv
  <2>3. ASSUME NEW n \in Msg, NEW x \in Msg
        PROVE  /\ Occurs(parked'[n], x) \/ Occurs(missed'[n], x) => InboxKey(x) = InboxKey(n)
               /\ Occurs(parked'[n], x) \/ Occurs(batch'[n], x) \/ Occurs(missed'[n], x) =>
                     /\ x \notin submitted \cup unfetched
                     /\ ~(lpc \in {"submit", "serial"} /\ lcur = x)
    BY <1>1, <1>4, OccursEmpty DEF ListsInv
  <2> QED BY <1>1, <2>2, <2>3 DEF ListsInv, loopVars
<1>7. NestInv'
  <2>1. \A n \in Msg : pc'[n] = "child" => pc[n] = "child" /\ n # m /\ missed'[n] = missed[n]
    BY <1>1, <1>2, <1>4
  <2>2. \A n \in Msg : pc[n] = "child" => Head(missed[n]) \in Msg /\ pc'[n] = "child"
    BY <1>1, <1>2, OccursHead DEF IInv, ChildInv, TypeOK, FrameTypeOK
  <2>3. \A n, p, x \in Msg : Occurs(missed'[n], x) /\ Occurs(missed'[p], x) => n = p
    BY <1>4, <1>5 DEF NestInv
  <2>4. \A n, x \in Msg :
           Occurs(missed'[n], x) /\ pc'[x] # "idle" => pc'[n] = "child" /\ x = Head(missed'[n])
    BY <1>1, <1>2, <1>4, <1>5 DEF NestInv
  <2>5. \A n \in Msg :
           pc'[n] = "child" => Current(Head(missed[n]))' \/ pc'[Head(missed'[n])] = "child"
    <3> SUFFICES ASSUME NEW n \in Msg, pc'[n] = "child"
                 PROVE  Current(Head(missed[n]))' \/ pc'[Head(missed'[n])] = "child"
      OBVIOUS
    <3>1. PICK h \in Msg : h = Head(missed[n])
      BY <2>1, <2>2
    <3>2. Current(h) \/ pc[h] = "child"
      BY <2>1, <3>1 DEF NestInv
    <3>3. Current(h)' \/ pc'[h] = "child"
      BY <1>2, <2>2, <3>2
    <3>4. Head(missed'[n]) = h
      BY <2>1, <3>1
    <3> QED BY <3>3, <3>4 DEF Current
  <2> QED BY <2>3, <2>4, <2>5 DEF NestInv
<1>8. EntryInv'
  <2>1. entry[InboxKey(m)] = m /\ InboxKey(m) \in Key
    BY <1>1, KeysInRange DEF EntryInv, OpenLaneIsOwn
  <2>2. \A k \in Key : entry'[k] = IF k = InboxKey(m) THEN None ELSE entry[k]
    BY <1>1, <2>1 DEF IInv, TypeOK, InboxTypeOK
  <2>3. OpenLaneIsOwn'
    BY <1>3, <2>1, <2>2, KeysInRange DEF EntryInv, OpenLaneIsOwn
  <2>4. \A k \in Key : entry[k] # None => entry[k] \in Msg
    BY DEF IInv, TypeOK, InboxTypeOK
  <2>5. \A k \in Key : entry'[k] # None => InboxKey(entry'[k]) = k /\ LaneOpen(entry[k])'
    BY <1>3, <2>1, <2>2, <2>4 DEF EntryInv
  <2> QED BY <2>3, <2>5 DEF EntryInv
<1> QED BY <1>2, <1>6, <1>7, <1>8

(***************************************************************************)
(* Telling the sender of a leftover shortens the list of its frame         *)
(* (run_once.go, runTask).                                                 *)
(***************************************************************************)
LEMMA MissedRejectHold ==
    ASSUME SInv, NEW m \in Msg, MissedReject(m)
    PROVE  HoldInv'
<1> USE DEF SInv, HoldInv
<1>1. /\ pc[m] = "missed" /\ pc' = pc /\ missed[m] # <<>>
      /\ UNCHANGED <<dispatcherVars, loopVars, inboxVars, res, batch>>
      /\ missed[m] \in Seq(Msg) /\ NoRepeat(missed[m])
  BY DEF MissedReject, ListsInv, IInv, TypeOK, FrameTypeOK
<1>2. pc' = [pc EXCEPT ![m] = "missed"]
  BY <1>1 DEF IInv, TypeOK, FrameTypeOK
<1>3. /\ ModeInv' /\ SubmitInv' /\ CurrentInv'
      /\ \A n \in Msg : Current(n)' <=> Current(n)
  BY <1>1, <1>2, FrameMoveHold DEF CurrentInv
<1>4. missed'[m] = Tail(missed[m]) /\ \A n \in Msg : n # m => missed'[n] = missed[n]
  BY DEF MissedReject, IInv, TypeOK, FrameTypeOK
<1>5. (\A x : Occurs(missed'[m], x) => Occurs(missed[m], x)) /\ NoRepeat(missed'[m])
  BY <1>1, <1>4, OccursTail
<1>6. ListsInv'
  <2>1. \A n, x \in Msg : Occurs(missed'[n], x) => Occurs(missed[n], x)
    BY <1>4, <1>5
  <2>2. \A n \in Msg : (missed'[n] # <<>> => missed[n] # <<>>) /\ NoRepeat(missed'[n])
    BY <1>1, <1>4, <1>5 DEF ListsInv
  <2> QED BY <1>1, <2>1, <2>2 DEF ListsInv, LaneOpen, inboxVars, loopVars
<1>7. NestInv'
  BY <1>1, <1>3, <1>4, <1>5, NestMoveHold
<1>8. EntryInv'
  BY <1>1 DEF EntryInv, OpenLaneIsOwn, LaneOpen, inboxVars
<1> QED BY <1>3, <1>6, <1>7, <1>8

(***************************************************************************)
(* A leftover shell result gets the lane of the frame that waits for it    *)
(* (run_once.go, runTask).                                                 *)
(***************************************************************************)
LEMMA MissedFallbackHold ==
    ASSUME SInv, NEW m \in Msg, MissedFallback(m)
    PROVE  HoldInv'
<1> USE DEF SInv, HoldInv
<1>c. PICK c \in Msg : c = Head(missed[m]) /\ Occurs(missed[m], c)
  BY OccursHead DEF MissedFallback, IInv, TypeOK, FrameTypeOK
<1>1. /\ pc[m] = "missed" /\ pc' = [pc EXCEPT ![m] = "child", ![c] = "begin"]
      /\ UNCHANGED <<dispatcherVars, loopVars, inboxVars, res, batch, missed>>
  BY <1>c DEF MissedFallback
<1>2. pc[c] = "idle" /\ c # m
  BY <1>c, <1>1 DEF NestInv
<1>3. threadKey(c) = threadKey(m)
  BY <1>c, KeysAgree DEF ListsInv
<1>4. pc'[c] = "begin" /\ pc'[m] = "child" /\ \A n \in Msg \ {c, m} : pc'[n] = pc[n]
  BY <1>1, <1>2 DEF IInv, TypeOK, FrameTypeOK
<1>5. /\ Current(m) /\ ~Current(c) /\ Current(c)' /\ ~Current(m)'
      /\ \A n \in Msg : n # c /\ n # m => (Current(n)' <=> Current(n))
  BY <1>1, <1>2, <1>4 DEF Current
<1>6. ModeInv' /\ SubmitInv'
  BY <1>1 DEF ModeInv, SubmitInv, Live, dispatcherVars, loopVars
<1>7. \A n \in Msg : LaneOpen(n)' <=> LaneOpen(n)
  BY <1>1, <1>2, <1>4 DEF LaneOpen
<1>8. ListsInv'
  <2>1. batch[m] = <<>> /\ batch[c] = <<>> /\ missed[c] = <<>>
    BY <1>1, <1>2 DEF ListsInv
  <2>2. \A n \in Msg : batch'[n] # <<>> => pc'[n] = "deliver"
    BY <1>1, <1>4, <2>1 DEF ListsInv
  <2>3. \A n \in Msg : missed'[n] # <<>> => pc'[n] \in {"missed", "child"}
    BY <1>1, <1>4, <2>1 DEF ListsInv
  <2> QED BY <1>1, <1>7, <2>2, <2>3 DEF ListsInv, inboxVars, loopVars
<1>9. NestInv'
  <2>1. \A n, x \in Msg :
           Occurs(missed[n], x) /\ pc'[x] # "idle" => pc'[n] = "child" /\ x = Head(missed[n])
    <3> SUFFICES ASSUME NEW n \in Msg, NEW x \in Msg, Occurs(missed[n], x), pc'[x] # "idle"
                 PROVE  pc'[n] = "child" /\ x = Head(missed[n])
      OBVIOUS
    <3>1. CASE x = c
      BY <1>c, <1>2, <1>4, <3>1 DEF NestInv
    <3>2. CASE x # c
      <4>1. pc[x] # "idle"
        BY <1>1, <1>4, <3>2
      <4>2. pc[n] = "child" /\ x = Head(missed[n])
        BY <4>1 DEF NestInv
      <4> QED BY <1>1, <1>2, <1>4, <4>2
    <3> QED BY <3>1, <3>2
  <2>2. \A n \in Msg :
           pc'[n] = "child" => Current(Head(missed[n]))' \/ pc'[Head(missed[n])] = "child"
    <3> SUFFICES ASSUME NEW n \in Msg, pc'[n] = "child"
                 PROVE  Current(Head(missed[n]))' \/ pc'[Head(missed[n])] = "child"
      OBVIOUS
    <3>1. CASE n = m
      BY <1>c, <1>1, <1>5, <3>1 DEF Current
    <3>2. CASE n # m
      <4>1. pc[n] = "child"
        BY <1>4, <3>2
      <4>2. PICK h \in Msg : h = Head(missed[n])
        BY <4>1, OccursHead DEF IInv, ChildInv, TypeOK, FrameTypeOK
      <4>3. Current(h) \/ pc[h] = "child"
        BY <4>1, <4>2 DEF NestInv
      <4>4. Current(h)' \/ pc'[h] = "child"
        BY <1>2, <1>4, <1>5, <4>3
      <4> QED BY <1>1, <4>2, <4>4 DEF Current
    <3> QED BY <3>1, <3>2
  <2> QED BY <1>1, <2>1, <2>2 DEF NestInv
<1>10. CurrentInv'
  <2>1. \A n, p \in Msg : Current(n)' /\ Current(p)' /\ threadKey(n) = threadKey(p) => n = p
    BY <1>3, <1>5 DEF CurrentInv
  <2>2. \A n \in Msg : Current(n)' => LaneIsServed(n)'
    <3>1. \A n \in Msg : LaneIsServed(n)' <=> LaneIsServed(n)
      BY <1>1 DEF LaneIsServed, dispatcherVars, loopVars
    <3>2. LaneIsServed(c)
      BY <1>3, <1>5 DEF CurrentInv, LaneIsServed
    <3> QED BY <1>5, <3>1, <3>2 DEF CurrentInv
  <2>3. \A n \in Msg : pc'[n] \in {"close", "missed", "child", "done"} => res'[n] # "none"
    BY <1>1, <1>4 DEF CurrentInv
  <2>4. ASSUME NEW n \in Msg, Current(n) \/ pc[n] = "child"
        PROVE  Current(n)' \/ pc'[n] = "child"
    BY <1>2, <1>4, <1>5, <2>4
  <2>5. \A w \in Msg : wcur[w] \in Msg
    BY DEF IInv, TypeOK, DispatcherTypeOK
  <2>6. lpc = "serial" => lcur \in Msg
    BY DEF IInv, HandInv
  <2> QED BY <1>1, <2>1, <2>2, <2>3, <2>4, <2>5, <2>6 DEF CurrentInv, dispatcherVars, loopVars
<1>11. EntryInv'
  BY <1>1, <1>7 DEF EntryInv, OpenLaneIsOwn, inboxVars, IInv, TypeOK, InboxTypeOK
<1> QED BY <1>6, <1>8, <1>9, <1>10, <1>11

(***************************************************************************)
(* The frame that waited takes the lane back from the nested one, which no *)
(* worker and no loop looks at (run_once.go, runTask).                     *)
(***************************************************************************)
LEMMA ChildReturnHold ==
    ASSUME SInv, NEW m \in Msg, ChildReturn(m)
    PROVE  HoldInv'
<1> USE DEF SInv, HoldInv
<1>c. PICK c \in Msg : c = Head(missed[m]) /\ Occurs(missed[m], c)
  BY OccursHead DEF ChildReturn, IInv, ChildInv, TypeOK, FrameTypeOK
<1>1. /\ pc[m] = "child" /\ pc[c] = "returned" /\ c # m /\ missed[m] # <<>>
      /\ pc' = [pc EXCEPT ![m] = "missed"]
      /\ res' = [res EXCEPT ![m] = IF @ = "ok" THEN res[c] ELSE @, ![c] = "none"]
      /\ missed' = [missed EXCEPT ![m] = Tail(@)]
      /\ UNCHANGED <<dispatcherVars, loopVars, inboxVars, batch>>
  BY <1>c DEF ChildReturn, IInv, ChildInv
<1>2. threadKey(c) = threadKey(m) /\ c \notin submitted /\ ~(lpc = "serial" /\ lcur = c)
  BY <1>c, KeysAgree DEF ListsInv
<1>3. pc'[m] = "missed" /\ \A n \in Msg \ {m} : pc'[n] = pc[n]
  BY <1>1 DEF IInv, TypeOK, FrameTypeOK
<1>4. Current(c) /\ res[c] # "none" /\ res[m] # "none"
  BY <1>c, <1>1 DEF NestInv, Current, CurrentInv
<1>5. res'[m] # "none" /\ res'[c] = "none" /\ \A n \in Msg \ {c, m} : res'[n] = res[n]
  BY <1>1, <1>4 DEF IInv, TypeOK, FrameTypeOK
<1>6. /\ Current(m)' /\ ~Current(c)' /\ ~Current(m)
      /\ \A n \in Msg : n # c /\ n # m => (Current(n)' <=> Current(n))
  BY <1>1, <1>3, <1>5 DEF Current
<1>7. /\ missed'[m] = Tail(missed[m]) /\ \A n \in Msg : n # m => missed'[n] = missed[n]
      /\ \A x : Occurs(missed'[m], x) <=> Occurs(missed[m], x) /\ x # c
      /\ NoRepeat(missed'[m])
  <2>1. missed'[m] = Tail(missed[m]) /\ \A n \in Msg : n # m => missed'[n] = missed[n]
    BY <1>1 DEF IInv, TypeOK, FrameTypeOK
  <2>2. missed[m] \in Seq(Msg) /\ NoRepeat(missed[m])
    BY DEF ListsInv, IInv, TypeOK, FrameTypeOK
  <2> QED BY <1>c, <1>1, <2>1, <2>2, OccursTail
<1>8. ModeInv' /\ SubmitInv'
  BY <1>1 DEF ModeInv, SubmitInv, Live, dispatcherVars, loopVars
<1>9. \A n \in Msg : LaneOpen(n)' <=> LaneOpen(n)
  BY <1>1, <1>3 DEF LaneOpen
<1>10. \A n, x \in Msg : Occurs(missed'[n], x) => Occurs(missed[n], x)
  BY <1>7
<1>11. ListsInv'
  <2>1. \A n \in Msg : batch'[n] # <<>> => pc'[n] = "deliver"
    BY <1>1, <1>3 DEF ListsInv
  <2>2. \A n \in Msg : missed'[n] # <<>> => pc'[n] \in {"missed", "child"}
    BY <1>3, <1>7 DEF ListsInv
  <2>3. \A n \in Msg : NoRepeat(missed'[n])
    BY <1>7 DEF ListsInv
  <2> QED BY <1>1, <1>9, <1>10, <2>1, <2>2, <2>3 DEF ListsInv, inboxVars, loopVars
<1>12. NestInv'
  <2>1. \A n, p, x \in Msg : Occurs(missed'[n], x) /\ Occurs(missed'[p], x) => n = p
    BY <1>10 DEF NestInv
  <2>2. ASSUME NEW n \in Msg, NEW x \in Msg, Occurs(missed'[n], x), pc'[x] # "idle"
        PROVE  pc'[n] = "child" /\ x = Head(missed'[n])
    <3>1. pc[x] # "idle" /\ Occurs(missed[n], x)
      BY <1>1, <1>3, <1>10, <2>2
    <3>2. pc[n] = "child" /\ x = Head(missed[n])
      BY <3>1 DEF NestInv
    <3>3. n # m
      BY <1>c, <1>7, <2>2, <3>2
    <3> QED BY <1>3, <1>7, <3>2, <3>3
  <2>3. ASSUME NEW n \in Msg, pc'[n] = "child"
        PROVE  Current(Head(missed[n]))' \/ pc'[Head(missed'[n])] = "child"
    <3>1. n # m /\ pc[n] = "child" /\ missed'[n] = missed[n] /\ missed[n] # <<>>
      BY <1>3, <1>7, <2>3 DEF IInv, ChildInv
    <3>2. PICK h \in Msg : h = Head(missed[n]) /\ Occurs(missed[n], h)
      BY <3>1, OccursHead DEF IInv, TypeOK, FrameTypeOK
    <3>3. h # c
      BY <1>c, <3>1, <3>2 DEF NestInv
    <3>4. Current(h) \/ pc[h] = "child"
      BY <3>1, <3>2 DEF NestInv
    <3>5. Current(h)' \/ pc'[h] = "child"
      BY <1>3, <1>6, <3>3, <3>4
    <3> QED BY <3>1, <3>2, <3>5 DEF Current
  <2> QED BY <2>1, <2>2, <2>3 DEF NestInv
<1>13. CurrentInv'
  <2>1. \A n, p \in Msg : Current(n)' /\ Current(p)' /\ threadKey(n) = threadKey(p) => n = p
    BY <1>2, <1>4, <1>6 DEF CurrentInv
  <2>2. \A n \in Msg : Current(n)' => LaneIsServed(n)'
    <3>1. \A n \in Msg : LaneIsServed(n)' <=> LaneIsServed(n)
      BY <1>1 DEF LaneIsServed, dispatcherVars, loopVars
    <3>2. LaneIsServed(m)
      BY <1>2, <1>4 DEF CurrentInv, LaneIsServed
    <3> QED BY <1>6, <3>1, <3>2 DEF CurrentInv
  <2>3. ASSUME NEW n \in Msg, pc'[n] \in {"close", "missed", "child", "done"}
        PROVE  res'[n] # "none"
    <3>1. CASE n = m
      BY <1>5, <3>1
    <3>2. CASE n # m
      <4>1. pc'[n] = pc[n] /\ n # c
        BY <1>1, <1>3, <2>3, <3>2
      <4> QED BY <1>5, <2>3, <3>2, <4>1 DEF CurrentInv
    <3> QED BY <3>1, <3>2
  <2>4. ASSUME NEW n \in Msg, n # c, Current(n) \/ pc[n] = "child"
        PROVE  Current(n)' \/ pc'[n] = "child"
    BY <1>3, <1>6, <2>4
  <2>5. \A w \in Msg : wpc[w] = "run" => wcur[w] \in Msg /\ wcur[w] # c
    BY <1>2 DEF SubmitInv, Live, IInv, TypeOK, DispatcherTypeOK
  <2>6. lpc = "serial" => lcur \in Msg /\ lcur # c
    BY <1>2 DEF IInv, HandInv
  <2> QED BY <1>1, <2>1, <2>2, <2>3, <2>4, <2>5, <2>6 DEF CurrentInv, dispatcherVars, loopVars
<1>14. EntryInv'
  BY <1>1, <1>9 DEF EntryInv, OpenLaneIsOwn, inboxVars, IInv, TypeOK, InboxTypeOK
<1> QED BY <1>8, <1>11, <1>12, <1>13, <1>14

-----------------------------------------------------------------------------
(* Where every message is.                                                 *)

\* The messages of S go to place q and the others stay where they are.
Moved(S, q) ==
    \A x \in Msg :
        /\ x \in unfetched' <=> IF x \in S THEN q = "source" ELSE x \in unfetched
        /\ InHand(x)' <=> IF x \in S THEN q = "hand" ELSE InHand(x)
        /\ InPending(x)' <=> IF x \in S THEN q = "pending" ELSE InPending(x)
        /\ AtWorker(x)' <=> IF x \in S THEN q = "worker" ELSE AtWorker(x)
        /\ InParked(x)' <=> IF x \in S THEN q = "parked" ELSE InParked(x)
        /\ InBatch(x)' <=> IF x \in S THEN q = "batch" ELSE InBatch(x)
        /\ InMissed(x)' <=> IF x \in S THEN q = "missed" ELSE InMissed(x)
        /\ pc'[x] # "idle" <=> IF x \in S THEN q = "run" ELSE pc[x] # "idle"
        /\ x \in delivered' <=> IF x \in S THEN q = "delivered" ELSE x \in delivered
        /\ x \in rejected' <=> IF x \in S THEN q = "rejected" ELSE x \in rejected
        /\ x \in dropped' <=> IF x \in S THEN q = "dropped" ELSE x \in dropped

(***************************************************************************)
(* A step that moves some messages to one place keeps every message in one *)
(* place (run_once.go: each is delivered, rejected, dropped or run once).  *)
(***************************************************************************)
LEMMA MovedPlaced ==
    ASSUME PlaceInv, NEW S, NEW q \in PlaceName, Moved(S, q)
    PROVE  PlaceInv'
<1>1. PICK at \in [Msg -> PlaceName] : Placed(at)
  BY DEF PlaceInv
<1> DEFINE b == [x \in Msg |-> IF x \in S THEN q ELSE at[x]]
<1>2. b \in [Msg -> PlaceName] /\ \A x \in Msg : b[x] = IF x \in S THEN q ELSE at[x]
  OBVIOUS
<1> HIDE DEF b
<1>3. Placed(b)'
  <2> SUFFICES ASSUME NEW x \in Msg
               PROVE  /\ x \in unfetched' <=> b[x] = "source"
                      /\ InHand(x)' <=> b[x] = "hand"
                      /\ InPending(x)' <=> b[x] = "pending"
                      /\ AtWorker(x)' <=> b[x] = "worker"
                      /\ InParked(x)' <=> b[x] = "parked"
                      /\ InBatch(x)' <=> b[x] = "batch"
                      /\ InMissed(x)' <=> b[x] = "missed"
                      /\ pc'[x] # "idle" <=> b[x] = "run"
                      /\ x \in delivered' <=> b[x] = "delivered"
                      /\ x \in rejected' <=> b[x] = "rejected"
                      /\ x \in dropped' <=> b[x] = "dropped"
    BY <1>2 DEF Placed
  <2>1. CASE x \in S
    BY <1>2, <2>1 DEF Moved
  <2>2. CASE x \notin S
    BY <1>1, <1>2, <2>2 DEF Moved, Placed
  <2> QED BY <2>1, <2>2
<1> QED BY <1>2, <1>3 DEF PlaceInv

(***************************************************************************)
(* A message that is in one place is in no other.                          *)
(***************************************************************************)
LEMMA OnePlace ==
    ASSUME PlaceInv, NEW x \in Msg
    PROVE  /\ InHand(x) => x \notin unfetched
           /\ InPending(x) => x \notin unfetched /\ ~InHand(x)
           /\ AtWorker(x) => x \notin unfetched /\ ~InHand(x) /\ ~InPending(x)
           /\ InParked(x) => x \notin unfetched /\ ~InHand(x) /\ ~InPending(x) /\ ~AtWorker(x)
           /\ InBatch(x) => x \notin unfetched /\ ~InHand(x) /\ ~InPending(x) /\ ~AtWorker(x)
                            /\ ~InParked(x)
           /\ InMissed(x) => x \notin unfetched /\ ~InHand(x) /\ ~InPending(x) /\ ~AtWorker(x)
                             /\ ~InParked(x) /\ ~InBatch(x)
           /\ pc[x] # "idle" => x \notin unfetched /\ ~InHand(x) /\ ~InPending(x)
                                /\ ~AtWorker(x) /\ ~InParked(x) /\ ~InBatch(x) /\ ~InMissed(x)
           /\ x \in delivered => x \notin unfetched /\ ~InHand(x) /\ ~InPending(x)
                                 /\ ~AtWorker(x) /\ ~InParked(x) /\ ~InBatch(x) /\ ~InMissed(x)
                                 /\ pc[x] = "idle"
           /\ x \in rejected => x \notin unfetched /\ ~InHand(x) /\ ~InPending(x)
                                /\ ~AtWorker(x) /\ ~InParked(x) /\ ~InBatch(x) /\ ~InMissed(x)
                                /\ pc[x] = "idle" /\ x \notin delivered
           /\ x \in dropped => x \notin unfetched /\ ~InHand(x) /\ ~InPending(x)
                               /\ ~AtWorker(x) /\ ~InParked(x) /\ ~InBatch(x) /\ ~InMissed(x)
                               /\ pc[x] = "idle" /\ x \notin delivered /\ x \notin rejected
BY DEF PlaceInv, Placed

(***************************************************************************)
(* At the start every message is with the source (loop.go).                *)
(***************************************************************************)
LEMMA InitPlace == Init => PlaceInv
<1> SUFFICES ASSUME Init PROVE PlaceInv
  OBVIOUS
<1> DEFINE b == [x \in Msg |-> "source"]
<1>1. b \in [Msg -> PlaceName] /\ \A x \in Msg : b[x] = "source"
  BY DEF PlaceName
<1>2. \A k \in Lane : pending[k] = <<>>
  BY DEF Init, DispatcherInit
<1>3. \A x \in Msg : ~InHand(x) /\ ~InPending(x) /\ ~AtWorker(x)
  BY <1>2, OccursEmpty DEF Init, DispatcherInit, InHand, InPending, AtWorker
<1>4. \A x \in Msg : parked[x] = <<>> /\ batch[x] = <<>> /\ missed[x] = <<>> /\ pc[x] = "idle"
  BY DEF Init, InboxInit
<1>5. \A x \in Msg : ~InParked(x) /\ ~InBatch(x) /\ ~InMissed(x)
  BY <1>4, OccursEmpty DEF InParked, InBatch, InMissed
<1>6. unfetched = Msg /\ delivered = {} /\ rejected = {} /\ dropped = {}
  BY DEF Init
<1> HIDE DEF b
<1>7. Placed(b)
  BY <1>1, <1>3, <1>4, <1>5, <1>6 DEF Placed
<1> QED BY <1>1, <1>7 DEF PlaceInv

(***************************************************************************)
(* Steps of the loop, of the workers and of the canceller that move no     *)
(* message (loop.go; dispatch.go, launch; turncancel.go).                  *)
(***************************************************************************)
LEMMA QuietPlace ==
    ASSUME PlaceInv, 
           UNCHANGED <<pending, wcur, inboxVars, pc, batch, missed, delivered, rejected,
                       dropped, unfetched>>,
           \A w \in Msg : wpc'[w] = "acquire" <=> wpc[w] = "acquire",
           \/ UNCHANGED <<lpc, lcur>>
           \/ lpc # "submit" /\ lpc' # "submit"
    PROVE  PlaceInv'
<1>1. \A x \in Msg : (InHand(x)' <=> InHand(x)) /\ (InPending(x)' <=> InPending(x))
  BY DEF InHand, InPending
<1>2. \A x \in Msg : AtWorker(x)' <=> AtWorker(x)
  BY DEF AtWorker
<1>3. \A x \in Msg : /\ InParked(x)' <=> InParked(x)
                     /\ InBatch(x)' <=> InBatch(x)
                     /\ InMissed(x)' <=> InMissed(x)
  BY DEF InParked, InBatch, InMissed, inboxVars
<1>4. Moved({}, "run")
  BY <1>1, <1>2, <1>3 DEF Moved
<1> QED BY <1>4, MovedPlaced DEF PlaceName

(***************************************************************************)
(* What is fetched goes to the loop's hand, to the serial loop's turn, to  *)
(* an inbox entry or to its sender (loop.go, classifySteering).            *)
(***************************************************************************)
LEMMA FetchPlace ==
    ASSUME SInv, NEW m \in Msg, FetchTurn(m) \/ FetchParked(m) \/ FetchMissed(m)
    PROVE  PlaceInv'
<1> USE DEF SInv
<1>1. /\ lpc = "fetching" /\ m \in unfetched /\ unfetched' = unfetched \ {m}
      /\ UNCHANGED <<dispatcherVars, batch, missed, delivered, dropped>>
  BY DEF FetchTurn, FetchParked, FetchMissed, frameVars
<1>2. /\ ~InHand(m) /\ ~InPending(m) /\ ~AtWorker(m) /\ ~InParked(m) /\ ~InBatch(m)
      /\ ~InMissed(m) /\ pc[m] = "idle" /\ m \notin delivered /\ m \notin rejected
      /\ m \notin dropped
  BY <1>1, OnePlace
<1>3. \A x \in Msg : (InPending(x)' <=> InPending(x)) /\ (AtWorker(x)' <=> AtWorker(x))
  BY <1>1 DEF InPending, AtWorker, dispatcherVars
<1>4. \A x \in Msg : (InBatch(x)' <=> InBatch(x)) /\ ~InHand(x)
  BY <1>1 DEF InBatch, InHand
<1>5. CASE FetchTurn(m)
  <2>1. UNCHANGED <<parked, rejected>> /\ lcur' = m
    BY <1>5 DEF FetchTurn, inboxVars
  <2>2. \A x \in Msg : InParked(x)' <=> InParked(x)
    BY <2>1 DEF InParked
  <2>3. CASE Serial
    <3>1. lpc' = "serial" /\ pc' = [pc EXCEPT ![m] = "begin"]
      BY <1>5, <2>3 DEF FetchTurn
    <3>2. pc'[m] = "begin" /\ \A x \in Msg : x # m => pc'[x] = pc[x]
      BY <3>1 DEF IInv, TypeOK, FrameTypeOK
    <3>3. \A x \in Msg : ~InHand(x)'
      BY <3>1 DEF InHand
    <3>4. \A x \in Msg : InMissed(x)' <=> InMissed(x)
      <4>1. ~InMissed(m)'
        BY <3>2 DEF InMissed
      <4>2. \A x \in Msg : x # m => (InMissed(x)' <=> InMissed(x))
        BY <1>1, <3>2 DEF InMissed
      <4> QED BY <1>2, <4>1, <4>2
    <3>5. Moved({m}, "run")
      BY <1>1, <1>2, <1>3, <1>4, <2>1, <2>2, <3>2, <3>3, <3>4 DEF Moved
    <3> QED BY <3>5, MovedPlaced DEF PlaceName
  <2>4. CASE ~Serial
    <3>1. lpc' = "submit" /\ pc' = pc
      BY <1>5, <2>4 DEF FetchTurn
    <3>2. \A x \in Msg : InHand(x)' <=> x = m
      BY <2>1, <3>1 DEF InHand
    <3>3. \A x \in Msg : InMissed(x)' <=> InMissed(x)
      BY <1>1, <3>1 DEF InMissed
    <3>4. Moved({m}, "hand")
      BY <1>1, <1>2, <1>3, <1>4, <2>1, <2>2, <3>1, <3>2, <3>3 DEF Moved
    <3> QED BY <3>4, MovedPlaced DEF PlaceName
  <2> QED BY <2>3, <2>4
<1>6. CASE FetchParked(m)
  <2>1. UNCHANGED <<pc, rejected>> /\ lpc' # "submit"
    BY <1>6 DEF FetchParked, frameVars
  <2>2. PICK e \in Msg : parked' = [parked EXCEPT ![e] = Append(@, m)]
    BY <1>6, KeysInRange DEF FetchParked, Park, CanPark, IInv, TypeOK, InboxTypeOK
  <2>3. \A x \in Msg : Occurs(parked'[e], x) <=> Occurs(parked[e], x) \/ x = m
    <3>1. parked[e] \in Seq(Msg) /\ parked'[e] = Append(parked[e], m)
      BY <2>2 DEF IInv, TypeOK, InboxTypeOK
    <3> QED BY <3>1, OccursAppend
  <2>4. \A n \in Msg : n # e => parked'[n] = parked[n]
    BY <2>2 DEF IInv, TypeOK, InboxTypeOK
  <2>5. \A x \in Msg : InParked(x)' <=> InParked(x) \/ x = m
    BY <2>3, <2>4 DEF InParked
  <2>6. \A x \in Msg : ~InHand(x)' /\ (InMissed(x)' <=> InMissed(x))
    BY <1>1, <2>1 DEF InHand, InMissed
  <2>7. Moved({m}, "parked")
    BY <1>1, <1>2, <1>3, <1>4, <2>1, <2>5, <2>6 DEF Moved
  <2> QED BY <2>7, MovedPlaced DEF PlaceName
<1>7. CASE FetchMissed(m)
  <2>1. UNCHANGED <<pc, parked>> /\ rejected' = rejected \cup {m} /\ lpc' # "submit"
    BY <1>7 DEF FetchMissed, inboxVars
  <2>2. \A x \in Msg : ~InHand(x)' /\ (InMissed(x)' <=> InMissed(x))
                       /\ (InParked(x)' <=> InParked(x))
    BY <1>1, <2>1 DEF InHand, InMissed, InParked
  <2>3. Moved({m}, "rejected")
    BY <1>1, <1>2, <1>3, <1>4, <2>1, <2>2 DEF Moved
  <2> QED BY <2>3, MovedPlaced DEF PlaceName
<1> QED BY <1>5, <1>6, <1>7

(***************************************************************************)
(* Submitting moves the message to its lane's queue or to its worker       *)
(* (dispatch.go, submit).                                                  *)
(***************************************************************************)
LEMMA LoopSubmitPlace ==
    ASSUME SInv, LoopSubmit
    PROVE  PlaceInv'
<1> USE DEF SInv
<1>m. PICK m \in Msg : m = lcur
  BY DEF LoopSubmit, IInv, HandInv
<1> DEFINE k == threadKey(m)
<1>1. /\ lpc = "submit" /\ lpc' = "top" /\ submit(m) /\ k \in Lane
      /\ UNCHANGED <<inboxVars, frameVars, unfetched>>
  BY <1>m, KeysInRange DEF LoopSubmit
<1>2. \A x \in Msg : InHand(x) <=> x = m
  BY <1>m, <1>1 DEF InHand
<1>3. /\ m \notin unfetched /\ ~InPending(m) /\ ~AtWorker(m) /\ ~InParked(m) /\ ~InBatch(m)
      /\ ~InMissed(m) /\ pc[m] = "idle" /\ m \notin delivered /\ m \notin rejected
      /\ m \notin dropped
  BY <1>2, OnePlace
<1>4. \A x \in Msg : /\ ~InHand(x)'
                     /\ InParked(x)' <=> InParked(x)
                     /\ InBatch(x)' <=> InBatch(x)
                     /\ InMissed(x)' <=> InMissed(x)
  BY <1>1 DEF InHand, InParked, InBatch, InMissed, inboxVars, frameVars
<1>5. CASE k \in active
  <2>1. pending' = [pending EXCEPT ![k] = Append(@, m)] /\ UNCHANGED <<wpc, wcur>>
    BY <1>1, <1>5 DEF submit
  <2>2. pending[k] \in Seq(Msg) /\ pending'[k] = Append(pending[k], m)
        /\ \A j \in Lane : j # k => pending'[j] = pending[j]
    BY <1>1, <2>1 DEF IInv, TypeOK, DispatcherTypeOK
  <2>3. \A x : Occurs(pending'[k], x) <=> Occurs(pending[k], x) \/ x = m
    BY <2>2, OccursAppend
  <2>4. \A x \in Msg : InPending(x)' <=> InPending(x) \/ x = m
    BY <1>1, <2>2, <2>3 DEF InPending
  <2>5. \A x \in Msg : AtWorker(x)' <=> AtWorker(x)
    BY <2>1 DEF AtWorker
  <2>6. Moved({m}, "pending")
    BY <1>1, <1>2, <1>3, <1>4, <2>4, <2>5 DEF Moved, frameVars
  <2> QED BY <2>6, MovedPlaced DEF PlaceName
<1>6. CASE k \notin active
  <2>1. wpc' = [wpc EXCEPT ![m] = "acquire"] /\ wcur' = [wcur EXCEPT ![m] = m]
        /\ pending' = pending
    BY <1>1, <1>6 DEF submit
  <2>2. wpc'[m] = "acquire" /\ wcur'[m] = m /\ wpc[m] # "acquire"
        /\ \A w \in Msg : w # m => wpc'[w] = wpc[w] /\ wcur'[w] = wcur[w]
    BY <1>6, <2>1 DEF IInv, TypeOK, DispatcherTypeOK, LaneInv, Live
  <2>3. \A x \in Msg : AtWorker(x)' <=> AtWorker(x) \/ x = m
    BY <2>2 DEF AtWorker
  <2>4. \A x \in Msg : InPending(x)' <=> InPending(x)
    BY <2>1 DEF InPending
  <2>5. Moved({m}, "worker")
    BY <1>1, <1>2, <1>3, <1>4, <2>3, <2>4 DEF Moved, frameVars
  <2> QED BY <2>5, MovedPlaced DEF PlaceName
<1> QED BY <1>5, <1>6

(***************************************************************************)
(* A worker's message starts to run, or its next one is taken from the     *)
(* lane's queue (dispatch.go, launch).                                     *)
(***************************************************************************)
LEMMA WorkerPlace ==
    ASSUME SInv, NEW w \in Msg, WorkerAcquire(w) \/ WorkerNext(w)
    PROVE  PlaceInv'
<1> USE DEF SInv, HoldInv
<1>1. UNCHANGED <<inboxVars, lpc, lcur, unfetched, batch, missed, delivered, rejected, dropped>>
  BY DEF WorkerAcquire, WorkerNext, loopVars, frameVars
<1>2. \A x \in Msg : /\ InHand(x)' <=> InHand(x)
                     /\ InParked(x)' <=> InParked(x)
                     /\ InBatch(x)' <=> InBatch(x)
  BY <1>1 DEF InHand, InParked, InBatch, inboxVars
<1>3. CASE WorkerAcquire(w)
  <2>c. PICK c \in Msg : c = wcur[w]
    BY DEF IInv, TypeOK, DispatcherTypeOK
  <2>1. /\ wpc[w] = "acquire" /\ wpc' = [wpc EXCEPT ![w] = "run"]
        /\ pc' = [pc EXCEPT ![c] = "begin"] /\ UNCHANGED <<pending, wcur>>
    BY <1>3, <2>c DEF WorkerAcquire, acquire
  <2>2. AtWorker(c)
    BY <2>c, <2>1 DEF AtWorker
  <2>3. /\ c \notin unfetched /\ ~InHand(c) /\ ~InPending(c) /\ ~InParked(c) /\ ~InBatch(c)
        /\ ~InMissed(c) /\ pc[c] = "idle" /\ c \notin delivered /\ c \notin rejected
        /\ c \notin dropped
    BY <2>2, OnePlace
  <2>4. pc'[c] = "begin" /\ \A x \in Msg : x # c => pc'[x] = pc[x]
    BY <2>1 DEF IInv, TypeOK, FrameTypeOK
  <2>5. \A v \in Msg : wpc'[v] = "acquire" <=> wpc[v] = "acquire" /\ v # w
    BY <2>1 DEF IInv, TypeOK, DispatcherTypeOK
  <2>6. \A v \in Msg : wpc[v] = "acquire" /\ wcur[v] = c => v = w
    BY <2>c, <2>1 DEF SubmitInv, IInv, LaneInv, Live
  <2>7. \A x \in Msg : AtWorker(x)' <=> AtWorker(x) /\ x # c
    BY <2>c, <2>1, <2>5, <2>6 DEF AtWorker
  <2>8. \A x \in Msg : InPending(x)' <=> InPending(x)
    BY <2>1 DEF InPending
  <2>9. \A x \in Msg : InMissed(x)' <=> InMissed(x)
    <3>1. ~InMissed(c)'
      BY <2>4 DEF InMissed
    <3>2. \A x \in Msg : x # c => (InMissed(x)' <=> InMissed(x))
      BY <1>1, <2>4 DEF InMissed
    <3> QED BY <2>3, <3>1, <3>2
  <2>10. Moved({c}, "run")
    BY <1>1, <1>2, <2>3, <2>4, <2>7, <2>8, <2>9 DEF Moved
  <2> QED BY <2>10, MovedPlaced DEF PlaceName
<1>4. CASE WorkerNext(w)
  <2> DEFINE k == threadKey(w)
  <2>1. k \in Lane /\ wpc[w] = "next" /\ pending[k] \in Seq(Msg) /\ pc' = pc
        /\ (\A v \in Msg : v # w => wpc'[v] = wpc[v] /\ wcur'[v] = wcur[v])
    BY <1>4, KeysInRange DEF WorkerNext, popOrExit, frameVars, IInv, TypeOK, DispatcherTypeOK
  <2>2. \A x \in Msg : InMissed(x)' <=> InMissed(x)
    BY <1>1, <2>1 DEF InMissed
  <2>3. CASE pending[k] = <<>>
    <3>1. pending' = pending /\ wpc'[w] = "exited"
      BY <1>4, <2>3 DEF WorkerNext, popOrExit, IInv, TypeOK, DispatcherTypeOK
    <3>2. \A x \in Msg : (InPending(x)' <=> InPending(x)) /\ (AtWorker(x)' <=> AtWorker(x))
      BY <2>1, <3>1 DEF InPending, AtWorker
    <3>3. Moved({}, "run")
      BY <1>1, <1>2, <2>1, <2>2, <3>2 DEF Moved
    <3> QED BY <3>3, MovedPlaced DEF PlaceName
  <2>4. CASE pending[k] # <<>>
    <3>c. PICK c \in Msg : c = Head(pending[k]) /\ Occurs(pending[k], c)
      BY <2>1, <2>4, OccursHead
    <3>1. wpc'[w] = "acquire" /\ wcur'[w] = c
          /\ pending'[k] = Tail(pending[k])
          /\ \A j \in Lane : j # k => pending'[j] = pending[j]
      BY <1>4, <2>1, <2>4, <3>c DEF WorkerNext, popOrExit, IInv, TypeOK, DispatcherTypeOK
    <3>2. \A x : Occurs(pending'[k], x) <=> Occurs(pending[k], x) /\ x # c
      BY <2>1, <2>4, <3>c, <3>1, OccursTail DEF SubmitInv
    <3>3. \A j \in Lane : Occurs(pending[j], c) => j = k
      BY <2>1, <3>c DEF SubmitInv
    <3>4. \A x \in Msg : InPending(x)' <=> InPending(x) /\ x # c
      BY <2>1, <3>1, <3>2, <3>3 DEF InPending
    <3>5. InPending(c)
      BY <2>1, <3>c DEF InPending
    <3>6. /\ c \notin unfetched /\ ~InHand(c) /\ ~AtWorker(c) /\ ~InParked(c) /\ ~InBatch(c)
          /\ ~InMissed(c) /\ pc[c] = "idle" /\ c \notin delivered /\ c \notin rejected
          /\ c \notin dropped
      BY <3>5, OnePlace
    <3>7. \A x \in Msg : AtWorker(x)' <=> AtWorker(x) \/ x = c
      BY <2>1, <3>1 DEF AtWorker
    <3>8. Moved({c}, "worker")
      BY <1>1, <1>2, <2>1, <2>2, <3>4, <3>6, <3>7 DEF Moved
    <3> QED BY <3>8, MovedPlaced DEF PlaceName
  <2> QED BY <2>3, <2>4
<1> QED BY <1>3, <1>4

(***************************************************************************)
(* What a frame drains from the inbox waits in its batch (turn/steering.go,*)
(* deliverSteering).                                                       *)
(***************************************************************************)
LEMMA TurnDrainPlace ==
    ASSUME SInv, NEW m \in Msg, TurnDrain(m)
    PROVE  PlaceInv'
<1> USE DEF SInv, HoldInv
<1>e. PICK e \in Msg :
         /\ LaneOpen(e) /\ parked[e] # <<>>
         /\ \A n \in Msg : parked'[n] = IF n = e THEN <<>> ELSE parked[n]
         /\ \A n \in Msg : batch'[n] = IF n = m THEN parked[e] ELSE batch[n]
  BY DrainTakes
<1> DEFINE S == {x \in Msg : Occurs(parked[e], x)}
<1>1. /\ pc[m] = "exec" /\ pc' = [pc EXCEPT ![m] = "deliver"] /\ batch[m] = <<>>
      /\ UNCHANGED <<dispatcherVars, loopVars, missed, delivered, rejected, dropped>>
  BY DEF TurnDrain, ListsInv
<1>2. \A x \in S : InParked(x)
  BY DEF InParked
<1>3. \A x \in S :
         /\ x \notin unfetched /\ ~InHand(x) /\ ~InPending(x) /\ ~AtWorker(x) /\ ~InBatch(x)
         /\ ~InMissed(x) /\ pc[x] = "idle" /\ x \notin delivered /\ x \notin rejected
         /\ x \notin dropped
  BY <1>2, OnePlace
<1>4. \A n, x \in Msg : Occurs(parked[n], x) /\ x \in S => n = e
  <2> SUFFICES ASSUME NEW n \in Msg, NEW x \in Msg, Occurs(parked[n], x), Occurs(parked[e], x)
               PROVE  n = e
    OBVIOUS
  <2>1. parked[n] # <<>> /\ InboxKey(x) = InboxKey(n) /\ InboxKey(x) = InboxKey(e)
    BY OccursSome DEF ListsInv, IInv, TypeOK, InboxTypeOK
  <2>2. LaneOpen(n)
    BY <2>1 DEF ListsInv
  <2> QED BY <1>e, <2>1, <2>2, ZenonT(40) DEF EntryInv, OpenLaneIsOwn
<1>5. \A x \in Msg : InParked(x)' <=> InParked(x) /\ x \notin S
  <2>1. \A n, x \in Msg : Occurs(parked'[n], x) <=> Occurs(parked[n], x) /\ n # e
    BY <1>e, OccursEmpty
  <2> QED BY <1>4, <2>1 DEF InParked
<1>6. \A x \in Msg : InBatch(x)' <=> InBatch(x) \/ x \in S
  <2>1. \A n, x \in Msg : Occurs(batch'[n], x) <=> Occurs(batch[n], x) \/ (n = m /\ x \in S)
    BY <1>e, <1>1, OccursEmpty
  <2> QED BY <2>1 DEF InBatch
<1>7. \A x \in Msg : pc'[x] # "idle" <=> pc[x] # "idle"
  BY <1>1 DEF IInv, TypeOK, FrameTypeOK
<1>8. \A x \in Msg : /\ InHand(x)' <=> InHand(x)
                     /\ InPending(x)' <=> InPending(x)
                     /\ AtWorker(x)' <=> AtWorker(x)
                     /\ InMissed(x)' <=> InMissed(x)
  BY <1>1, <1>7 DEF InHand, InPending, AtWorker, InMissed, dispatcherVars, loopVars
<1> HIDE DEF S
<1>9. Moved(S, "batch")
  BY <1>1, <1>2, <1>3, <1>5, <1>6, <1>7, <1>8 DEF Moved, loopVars
<1> QED BY <1>9, MovedPlaced DEF PlaceName

(***************************************************************************)
(* Drained messages are delivered one by one, or dropped together with the *)
(* failed one (turn/steering.go, deliverSteering).                         *)
(***************************************************************************)
LEMMA TurnDeliverPlace ==
    ASSUME SInv, NEW m \in Msg, TurnDeliver(m) \/ TurnDeliverFails(m)
    PROVE  PlaceInv'
<1> USE DEF SInv, HoldInv
<1>1. /\ pc[m] = "deliver" /\ UNCHANGED <<dispatcherVars, loopVars, parked, missed, rejected>>
      /\ \A n \in Msg : n # m => batch'[n] = batch[n]
  BY DEF TurnDeliver, TurnDeliverFails, inboxVars, IInv, TypeOK, FrameTypeOK
<1>2. \A x \in Msg : pc'[x] # "idle" <=> pc[x] # "idle"
  BY <1>1 DEF TurnDeliver, TurnDeliverFails, IInv, TypeOK, FrameTypeOK
<1>3. \A x \in Msg : /\ InHand(x)' <=> InHand(x)
                     /\ InPending(x)' <=> InPending(x)
                     /\ AtWorker(x)' <=> AtWorker(x)
                     /\ InParked(x)' <=> InParked(x)
                     /\ InMissed(x)' <=> InMissed(x)
  BY <1>1, <1>2 DEF InHand, InPending, AtWorker, InParked, InMissed, dispatcherVars, loopVars
<1>4. \A n, x \in Msg : Occurs(batch[m], x) /\ Occurs(batch[n], x) => n = m
  BY DEF ListsInv
<1>5. CASE TurnDeliver(m) /\ batch[m] = <<>>
  <2>1. batch' = batch /\ delivered' = delivered /\ dropped' = dropped
    BY <1>5 DEF TurnDeliver
  <2>2. \A x \in Msg : InBatch(x)' <=> InBatch(x)
    BY <2>1 DEF InBatch
  <2>3. Moved({}, "run")
    BY <1>1, <1>2, <1>3, <2>1, <2>2 DEF Moved, loopVars
  <2> QED BY <2>3, MovedPlaced DEF PlaceName
<1>6. CASE TurnDeliver(m) /\ batch[m] # <<>>
  <2>1. batch[m] \in Seq(Msg) /\ NoRepeat(batch[m])
    BY DEF ListsInv, IInv, TypeOK, FrameTypeOK
  <2>c. PICK c \in Msg : c = Head(batch[m]) /\ Occurs(batch[m], c)
    BY <1>6, <2>1, OccursHead
  <2>2. batch'[m] = Tail(batch[m]) /\ delivered' = delivered \cup {c} /\ dropped' = dropped
    BY <1>6, <2>c DEF TurnDeliver, IInv, TypeOK, FrameTypeOK
  <2>3. \A x : Occurs(batch'[m], x) <=> Occurs(batch[m], x) /\ x # c
    BY <1>6, <2>1, <2>c, <2>2, OccursTail
  <2>4. \A x \in Msg : InBatch(x)' <=> InBatch(x) /\ x # c
    BY <1>1, <1>4, <2>c, <2>3 DEF InBatch
  <2>5. InBatch(c)
    BY <2>c DEF InBatch
  <2>6. /\ c \notin unfetched /\ ~InHand(c) /\ ~InPending(c) /\ ~AtWorker(c) /\ ~InParked(c)
        /\ ~InMissed(c) /\ pc[c] = "idle" /\ c \notin rejected /\ c \notin dropped
    BY <2>5, OnePlace
  <2>7. Moved({c}, "delivered")
    BY <1>1, <1>2, <1>3, <2>2, <2>4, <2>6 DEF Moved, loopVars
  <2> QED BY <2>7, MovedPlaced DEF PlaceName
<1>7. CASE TurnDeliverFails(m)
  <2> DEFINE S == {x \in Msg : Occurs(batch[m], x)}
  <2>1. batch'[m] = <<>> /\ delivered' = delivered
        /\ dropped' = dropped \cup {batch[m][i] : i \in 1..Len(batch[m])}
    BY <1>7 DEF TurnDeliverFails, IInv, TypeOK, FrameTypeOK
  <2>2. \A x \in Msg : x \in dropped' <=> x \in dropped \/ x \in S
    BY <2>1 DEF Occurs
  <2>3. \A x \in Msg : InBatch(x)' <=> InBatch(x) /\ x \notin S
    <3>1. \A n, x \in Msg : Occurs(batch'[n], x) <=> Occurs(batch[n], x) /\ n # m
      BY <1>1, <2>1, OccursEmpty
    <3> QED BY <1>4, <3>1 DEF InBatch
  <2>4. \A x \in S : InBatch(x)
    BY DEF InBatch
  <2>5. \A x \in S :
           /\ x \notin unfetched /\ ~InHand(x) /\ ~InPending(x) /\ ~AtWorker(x) /\ ~InParked(x)
           /\ ~InMissed(x) /\ pc[x] = "idle" /\ x \notin delivered /\ x \notin rejected
    BY <2>4, OnePlace
  <2> HIDE DEF S
  <2>6. Moved(S, "dropped")
    BY <1>1, <1>2, <1>3, <2>1, <2>2, <2>3, <2>5 DEF Moved, loopVars
  <2> QED BY <2>6, MovedPlaced DEF PlaceName
<1> QED BY <1>5, <1>6, <1>7

(***************************************************************************)
(* What is parked when a lane closes is left over for its frame            *)
(* (run_once.go, runTask).                                                 *)
(***************************************************************************)
LEMMA TaskClosePlace ==
    ASSUME SInv, NEW m \in Msg, TaskClose(m)
    PROVE  PlaceInv'
<1> USE DEF SInv, HoldInv
<1> DEFINE S == {x \in Msg : Occurs(parked[m], x)}
<1>1. /\ pc[m] = "close" /\ missed[m] = <<>> /\ LaneOpen(m)
      /\ UNCHANGED <<dispatcherVars, loopVars, batch, delivered, rejected, dropped>>
  BY DEF TaskClose, ListsInv, LaneOpen
<1>2. /\ \A n \in Msg : parked'[n] = IF n = m THEN <<>> ELSE parked[n]
      /\ \A n \in Msg : missed'[n] = IF n = m THEN parked[m] ELSE missed[n]
  BY DEF TaskClose, InboxClose, IInv, TypeOK, InboxTypeOK, FrameTypeOK
<1>3. \A x \in Msg : pc'[x] # "idle" <=> pc[x] # "idle"
  BY DEF TaskClose, IInv, TypeOK, FrameTypeOK
<1>4. \A x \in S : InParked(x)
  BY DEF InParked
<1>5. \A x \in S :
         /\ x \notin unfetched /\ ~InHand(x) /\ ~InPending(x) /\ ~AtWorker(x) /\ ~InBatch(x)
         /\ ~InMissed(x) /\ pc[x] = "idle" /\ x \notin delivered /\ x \notin rejected
         /\ x \notin dropped
  BY <1>4, OnePlace
<1>6. \A n, x \in Msg : Occurs(parked[n], x) /\ x \in S => n = m
  <2> SUFFICES ASSUME NEW n \in Msg, NEW x \in Msg, Occurs(parked[n], x), Occurs(parked[m], x)
               PROVE  n = m
    OBVIOUS
  <2>1. parked[n] # <<>> /\ InboxKey(x) = InboxKey(n) /\ InboxKey(x) = InboxKey(m)
    BY OccursSome DEF ListsInv, IInv, TypeOK, InboxTypeOK
  <2>2. LaneOpen(n)
    BY <2>1 DEF ListsInv
  <2> QED BY <1>1, <2>1, <2>2 DEF EntryInv, OpenLaneIsOwn
<1>7. \A x \in Msg : InParked(x)' <=> InParked(x) /\ x \notin S
  <2>1. \A n, x \in Msg : Occurs(parked'[n], x) <=> Occurs(parked[n], x) /\ n # m
    BY <1>2, OccursEmpty
  <2> QED BY <1>6, <2>1 DEF InParked
<1>8. \A x \in Msg : InMissed(x)' <=> InMissed(x) \/ x \in S
  <2>1. \A n, x \in Msg : Occurs(missed'[n], x) <=> Occurs(missed[n], x) \/ (n = m /\ x \in S)
    BY <1>1, <1>2, OccursEmpty
  <2> QED BY <1>3, <1>5, <2>1 DEF InMissed
<1>9. \A x \in Msg : /\ InHand(x)' <=> InHand(x)
                     /\ InPending(x)' <=> InPending(x)
                     /\ AtWorker(x)' <=> AtWorker(x)
                     /\ InBatch(x)' <=> InBatch(x)
  BY <1>1 DEF InHand, InPending, AtWorker, InBatch, dispatcherVars, loopVars
<1> HIDE DEF S
<1>10. Moved(S, "missed")
  BY <1>1, <1>3, <1>5, <1>7, <1>8, <1>9 DEF Moved, loopVars
<1> QED BY <1>10, MovedPlaced DEF PlaceName

(***************************************************************************)
(* A leftover runs as a nested turn, goes back to its sender, or leaves    *)
(* the list when its turn has returned (run_once.go, runTask).             *)
(***************************************************************************)
LEMMA LeftoverPlace ==
    ASSUME SInv, NEW m \in Msg, MissedFallback(m) \/ MissedReject(m) \/ ChildReturn(m)
    PROVE  PlaceInv'
<1> USE DEF SInv, HoldInv
<1>1. /\ UNCHANGED <<dispatcherVars, loopVars, inboxVars, batch, delivered, dropped>>
      /\ missed[m] \in Seq(Msg) /\ NoRepeat(missed[m]) /\ missed[m] # <<>>
      /\ pc[m] \in {"missed", "child"}
  BY DEF MissedFallback, MissedReject, ChildReturn, ListsInv, IInv, ChildInv, TypeOK, FrameTypeOK
<1>c. PICK c \in Msg : c = Head(missed[m]) /\ Occurs(missed[m], c)
  BY <1>1, OccursHead
<1>2. \A x \in Msg : /\ InHand(x)' <=> InHand(x)
                     /\ InPending(x)' <=> InPending(x)
                     /\ AtWorker(x)' <=> AtWorker(x)
                     /\ InParked(x)' <=> InParked(x)
                     /\ InBatch(x)' <=> InBatch(x)
  BY <1>1 DEF InHand, InPending, AtWorker, InParked, InBatch, dispatcherVars, loopVars, inboxVars
<1>3. \A n \in Msg : Occurs(missed[n], c) => n = m
  BY <1>c DEF NestInv
<1>4. InMissed(c) =>
         /\ c \notin unfetched /\ ~InHand(c) /\ ~InPending(c) /\ ~AtWorker(c) /\ ~InParked(c)
         /\ ~InBatch(c) /\ c \notin delivered /\ c \notin rejected /\ c \notin dropped
  BY OnePlace
<1>5. ASSUME missed' = [missed EXCEPT ![m] = Tail(@)]
      PROVE  \A n, x \in Msg : Occurs(missed'[n], x) <=> Occurs(missed[n], x) /\ x # c
  <2>1. missed'[m] = Tail(missed[m]) /\ \A n \in Msg : n # m => missed'[n] = missed[n]
    BY <1>5 DEF IInv, TypeOK, FrameTypeOK
  <2>2. \A x : Occurs(missed'[m], x) <=> Occurs(missed[m], x) /\ x # c
    BY <1>1, <1>c, <2>1, OccursTail
  <2> QED BY <1>3, <2>1, <2>2
<1>6. CASE MissedFallback(m)
  <2>1. pc[m] = "missed" /\ pc' = [pc EXCEPT ![m] = "child", ![c] = "begin"] /\ missed' = missed
        /\ rejected' = rejected
    BY <1>6, <1>c DEF MissedFallback
  <2>2. pc[c] = "idle" /\ InMissed(c) /\ c # m
    BY <1>c, <2>1 DEF NestInv, InMissed
  <2>3. pc'[m] # "idle" /\ pc'[c] # "idle" /\ \A x \in Msg : x # c /\ x # m => pc'[x] = pc[x]
    BY <2>1, <2>2 DEF IInv, TypeOK, FrameTypeOK
  <2>4. \A x \in Msg : pc'[x] # "idle" <=> pc[x] # "idle" \/ x = c
    BY <2>1, <2>3
  <2>5. \A x \in Msg : InMissed(x)' <=> InMissed(x) /\ x # c
    BY <2>1, <2>4 DEF InMissed
  <2>6. Moved({c}, "run")
    BY <1>1, <1>2, <1>4, <2>1, <2>2, <2>4, <2>5 DEF Moved, loopVars
  <2> QED BY <2>6, MovedPlaced DEF PlaceName
<1>7. CASE MissedReject(m)
  <2>1. pc[m] = "missed" /\ pc' = pc /\ missed' = [missed EXCEPT ![m] = Tail(@)]
        /\ rejected' = rejected \cup {c}
    BY <1>7, <1>c DEF MissedReject
  <2>2. pc[c] = "idle" /\ InMissed(c)
    BY <1>c, <2>1 DEF NestInv, InMissed
  <2>3. \A x \in Msg : InMissed(x)' <=> InMissed(x) /\ x # c
    BY <1>5, <2>1 DEF InMissed
  <2>4. Moved({c}, "rejected")
    BY <1>1, <1>2, <1>4, <2>1, <2>2, <2>3 DEF Moved, loopVars
  <2> QED BY <2>4, MovedPlaced DEF PlaceName
<1>8. CASE ChildReturn(m)
  <2>1. pc[m] = "child" /\ pc[c] = "returned" /\ pc' = [pc EXCEPT ![m] = "missed"]
        /\ missed' = [missed EXCEPT ![m] = Tail(@)] /\ rejected' = rejected
    BY <1>8, <1>c DEF ChildReturn
  <2>2. \A x \in Msg : pc'[x] # "idle" <=> pc[x] # "idle"
    BY <2>1 DEF IInv, TypeOK, FrameTypeOK
  <2>3. \A x \in Msg : InMissed(x)' <=> InMissed(x)
    BY <1>5, <2>1, <2>2 DEF InMissed
  <2>4. Moved({}, "run")
    BY <1>1, <1>2, <2>1, <2>2, <2>3 DEF Moved, loopVars
  <2> QED BY <2>4, MovedPlaced DEF PlaceName
<1> QED BY <1>6, <1>7, <1>8

(***************************************************************************)
(* The steps of a frame that move no message (run_once.go, runTask).       *)
(***************************************************************************)
LEMMA FramePlainPlace ==
    ASSUME SInv, NEW m \in Msg,
           \/ TaskBegin(m) \/ TaskOpenLane(m) \/ \E r \in Result \ {"none"} : TurnEnd(m, r)
           \/ MissedEmpty(m) \/ TaskDone(m)
    PROVE  PlaceInv'
<1> USE DEF SInv, HoldInv
<1>1. /\ pc[m] # "idle"
      /\ UNCHANGED <<dispatcherVars, loopVars, batch, missed, delivered, rejected, dropped>>
  BY DEF TaskBegin, TaskOpenLane, TurnEnd, MissedEmpty, TaskDone
<1>2. \A x \in Msg : pc'[x] # "idle" <=> pc[x] # "idle"
  BY <1>1 DEF TaskBegin, TaskOpenLane, TurnEnd, MissedEmpty, TaskDone, IInv, TypeOK, FrameTypeOK
<1>3. parked' = parked
  <2>1. CASE TaskOpenLane(m)
    <3>1. parked[m] = <<>> /\ parked' = [parked EXCEPT ![m] = <<>>]
      BY <2>1 DEF TaskOpenLane, InboxBegin, ListsInv, LaneOpen
    <3> QED BY <3>1 DEF IInv, TypeOK, InboxTypeOK
  <2>2. CASE ~TaskOpenLane(m)
    BY <2>2 DEF TaskBegin, TurnEnd, MissedEmpty, TaskDone, inboxVars
  <2> QED BY <2>1, <2>2
<1>4. \A x \in Msg : /\ InHand(x)' <=> InHand(x)
                     /\ InPending(x)' <=> InPending(x)
                     /\ AtWorker(x)' <=> AtWorker(x)
                     /\ InParked(x)' <=> InParked(x)
                     /\ InBatch(x)' <=> InBatch(x)
                     /\ InMissed(x)' <=> InMissed(x)
  BY <1>1, <1>2, <1>3 DEF InHand, InPending, AtWorker, InParked, InBatch, InMissed,
     dispatcherVars, loopVars
<1>5. Moved({}, "run")
  BY <1>1, <1>2, <1>4 DEF Moved, loopVars
<1> QED BY <1>5, MovedPlaced DEF PlaceName

(***************************************************************************)
(* The invariant of lanes and places is inductive.                         *)
(***************************************************************************)
LEMMA NextSInv == SInv /\ [Next]_vars => SInv'
<1> SUFFICES ASSUME SInv, [Next]_vars PROVE SInv'
  OBVIOUS
<1>i. IInv /\ HoldInv /\ PlaceInv /\ IInv'
  BY NextInv DEF SInv
<1>1. CASE LoopTop \/ FetchNothing \/ FetchError \/ LoopReturn
  <2>1. UNCHANGED <<dispatcherVars, inboxVars, frameVars, lcur, unfetched, submitted>>
        /\ lpc \notin {"submit", "serial"} /\ lpc' \notin {"submit", "serial"}
        /\ (Serial => lpc' # "wait")
    BY <1>1 DEF LoopTop, FetchNothing, FetchError, LoopReturn
  <2>2. HoldInv'
    BY <1>i, <2>1, QuietHold
  <2>3. PlaceInv'
    BY <1>i, <2>1, QuietPlace DEF dispatcherVars, frameVars
  <2> QED BY <1>i, <2>2, <2>3 DEF SInv
<1>2. CASE (\E t \in Task : CancelTask(t)) \/ CtxCancel \/ UNCHANGED vars
  <2>1. UNCHANGED <<dispatcherVars, inboxVars, frameVars, lpc, lcur, unfetched, submitted>>
    BY <1>2 DEF CancelTask, CtxCancel, vars, loopVars
  <2>2. HoldInv'
    BY <1>i, <2>1, QuietHold
  <2>3. PlaceInv'
    BY <1>i, <2>1, QuietPlace DEF dispatcherVars, frameVars
  <2> QED BY <1>i, <2>2, <2>3 DEF SInv
<1>3. ASSUME NEW m \in Msg, FetchTurn(m) \/ FetchParked(m) \/ FetchMissed(m) PROVE SInv'
  BY <1>3, <1>i, FetchTurnHold, FetchParkedHold, FetchMissedHold, FetchPlace DEF SInv
<1>4. CASE LoopSubmit
  BY <1>4, <1>i, LoopSubmitHold, LoopSubmitPlace DEF SInv
<1>5. CASE SerialReturn
  <2>1. PlaceInv'
    BY <1>5, <1>i, QuietPlace DEF SerialReturn, dispatcherVars
  <2> QED BY <1>5, <1>i, <2>1, SerialReturnHold DEF SInv
<1>6. ASSUME NEW w \in Msg, WorkerStep(w) PROVE SInv'
  <2>1. CASE WorkerAcquire(w) \/ WorkerNext(w)
    BY <2>1, <1>i, WorkerAcquireHold, WorkerNextHold, WorkerPlace DEF SInv
  <2>2. CASE WorkerRelease(w)
    <3>1. \A v \in Msg : wpc'[v] = "acquire" <=> wpc[v] = "acquire"
      BY <2>2, <1>i DEF WorkerRelease, release, IInv, TypeOK, DispatcherTypeOK
    <3>2. PlaceInv'
      BY <2>2, <3>1, <1>i, QuietPlace DEF WorkerRelease, release
    <3> QED BY <2>2, <1>i, <3>2, WorkerReleaseHold DEF SInv
  <2> QED BY <1>6, <2>1, <2>2 DEF WorkerStep
<1>7. ASSUME NEW m \in Msg, FrameStep(m) PROVE SInv'
  <2>1. CASE \/ TaskBegin(m) \/ \E r \in Result \ {"none"} : TurnEnd(m, r)
             \/ MissedEmpty(m) \/ TaskDone(m)
    BY <2>1, <1>i, FramePlainHold, FramePlainPlace DEF SInv
  <2>2. CASE TaskOpenLane(m)
    BY <2>2, <1>i, TaskOpenLaneHold, FramePlainPlace DEF SInv
  <2>3. CASE TurnDrain(m)
    BY <2>3, <1>i, TurnDrainHold, TurnDrainPlace DEF SInv
  <2>4. CASE TurnDeliver(m) \/ TurnDeliverFails(m)
    BY <2>4, <1>i, TurnDeliverHold, TurnDeliverPlace DEF SInv
  <2>5. CASE TaskClose(m)
    BY <2>5, <1>i, TaskCloseHold, TaskClosePlace DEF SInv
  <2>6. CASE MissedFallback(m) \/ MissedReject(m) \/ ChildReturn(m)
    BY <2>6, <1>i, MissedFallbackHold, MissedRejectHold, ChildReturnHold, LeftoverPlace DEF SInv
  <2> QED BY <1>7, <2>1, <2>2, <2>3, <2>4, <2>5, <2>6 DEF FrameStep
<1> QED BY <1>1, <1>2, <1>3, <1>4, <1>5, <1>6, <1>7 DEF Next, LoopNext, Terminated

-----------------------------------------------------------------------------
(* The results.                                                            *)

LEMMA SteeringInvariant == Spec => []SInv
<1>1. Init => SInv
  BY InitInv, InitHold, InitPlace DEF SInv
<1> QED BY <1>1, NextSInv, PTL DEF Spec

(***************************************************************************)
(* Two turns never execute at once on one transcript, for any addresses    *)
(* (dispatch.go; steering.go, ConversationKey; run_once.go, runTask).      *)
(***************************************************************************)
THEOREM TurnsOfALaneAreSerial == Spec => []LaneSerial
<1>1. SInv => LaneSerial
  BY TranscriptHasLane DEF SInv, HoldInv, CurrentInv, Current, LaneSerial, InTurn
<1> QED BY <1>1, SteeringInvariant, PTL

(***************************************************************************)
(* The one place of a message is the one element of its homes.             *)
(***************************************************************************)
LEMMA PlaceIsHome == SInv => MessageHasOneHome
<1> SUFFICES ASSUME SInv, NEW m \in Msg
             PROVE  Cardinality(Homes(m)) = IF m \in unfetched THEN 0 ELSE 1
  BY DEF MessageHasOneHome
<1> USE DEF SInv, HoldInv
<1>1. PICK at \in [Msg -> PlaceName] : Placed(at)
  BY DEF PlaceInv
<1> DEFINE Hand == IF InHand(m) THEN {"hand"} ELSE {}
           Pending == {<<"pending", k>> : k \in {k \in Lane : Occurs(pending[k], m)}}
           Worker == {<<"worker", w>> : w \in {w \in Msg : wpc[w] = "acquire" /\ wcur[w] = m}}
           Parked == {<<"parked", n>> : n \in {n \in Msg : Occurs(parked[n], m)}}
           Batch == {<<"batch", n>> : n \in {n \in Msg : Occurs(batch[n], m)}}
           Missed == {<<"missed", n>> : n \in {n \in Msg : Occurs(missed[n], m) /\ pc[m] = "idle"}}
           Run == IF pc[m] # "idle" THEN {"run"} ELSE {}
           Delivered == IF m \in delivered THEN {"delivered"} ELSE {}
           Rejected == IF m \in rejected THEN {"rejected"} ELSE {}
           Dropped == IF m \in dropped THEN {"dropped"} ELSE {}
<1>2. Homes(m) = Hand \cup Pending \cup Worker \cup Parked \cup Batch \cup Missed
                 \cup Run \cup Delivered \cup Rejected \cup Dropped
  BY DEF Homes, InHand
<1>3. \A j, k \in Lane : Occurs(pending[j], m) /\ Occurs(pending[k], m) => j = k
  BY DEF SubmitInv
<1>4. \A v, w \in Msg : wpc[v] = "acquire" /\ wcur[v] = m /\ wpc[w] = "acquire" /\ wcur[w] = m
         => v = w
  BY DEF SubmitInv, IInv, LaneInv, Live
<1>5. \A n, p \in Msg : Occurs(parked[n], m) /\ Occurs(parked[p], m) => n = p
  <2> SUFFICES ASSUME NEW n \in Msg, NEW p \in Msg, Occurs(parked[n], m), Occurs(parked[p], m)
               PROVE  n = p
    OBVIOUS
  <2>1. /\ parked[n] # <<>> /\ parked[p] # <<>>
        /\ InboxKey(m) = InboxKey(n) /\ InboxKey(m) = InboxKey(p)
    BY OccursSome DEF ListsInv, IInv, TypeOK, InboxTypeOK
  <2>2. LaneOpen(n) /\ LaneOpen(p)
    BY <2>1 DEF ListsInv
  <2> QED BY <2>1, <2>2 DEF EntryInv, OpenLaneIsOwn
<1>6. \A n, p \in Msg : Occurs(batch[n], m) /\ Occurs(batch[p], m) => n = p
  BY DEF ListsInv
<1>7. \A n, p \in Msg : Occurs(missed[n], m) /\ Occurs(missed[p], m) => n = p
  BY DEF NestInv
<1>8. /\ Hand = IF at[m] = "hand" THEN {"hand"} ELSE {}
      /\ Run = IF at[m] = "run" THEN {"run"} ELSE {}
      /\ Delivered = IF at[m] = "delivered" THEN {"delivered"} ELSE {}
      /\ Rejected = IF at[m] = "rejected" THEN {"rejected"} ELSE {}
      /\ Dropped = IF at[m] = "dropped" THEN {"dropped"} ELSE {}
  BY <1>1 DEF Placed
<1>9. IF at[m] = "pending" THEN \E x : Pending = {x} ELSE Pending = {}
  <2>1. CASE InPending(m)
    <3>1. PICK k \in Lane : Occurs(pending[k], m)
      BY <2>1 DEF InPending
    <3>2. {j \in Lane : Occurs(pending[j], m)} = {k}
      BY <1>3, <3>1
    <3>3. Pending = {<<"pending", k>>}
      BY <3>2
    <3> QED BY <1>1, <2>1, <3>3 DEF Placed
  <2>2. CASE ~InPending(m)
    BY <1>1, <2>2 DEF Placed, InPending
  <2> QED BY <2>1, <2>2
<1>10. IF at[m] = "worker" THEN \E x : Worker = {x} ELSE Worker = {}
  <2>1. CASE AtWorker(m)
    <3>1. PICK w \in Msg : wpc[w] = "acquire" /\ wcur[w] = m
      BY <2>1 DEF AtWorker
    <3>2. {v \in Msg : wpc[v] = "acquire" /\ wcur[v] = m} = {w}
      BY <1>4, <3>1
    <3>3. Worker = {<<"worker", w>>}
      BY <3>2
    <3> QED BY <1>1, <2>1, <3>3 DEF Placed
  <2>2. CASE ~AtWorker(m)
    BY <1>1, <2>2 DEF Placed, AtWorker
  <2> QED BY <2>1, <2>2
<1>11. IF at[m] = "parked" THEN \E x : Parked = {x} ELSE Parked = {}
  <2>1. CASE InParked(m)
    <3>1. PICK n \in Msg : Occurs(parked[n], m)
      BY <2>1 DEF InParked
    <3>2. {p \in Msg : Occurs(parked[p], m)} = {n}
      BY <1>5, <3>1
    <3>3. Parked = {<<"parked", n>>}
      BY <3>2
    <3> QED BY <1>1, <2>1, <3>3 DEF Placed
  <2>2. CASE ~InParked(m)
    BY <1>1, <2>2 DEF Placed, InParked
  <2> QED BY <2>1, <2>2
<1>12. IF at[m] = "batch" THEN \E x : Batch = {x} ELSE Batch = {}
  <2>1. CASE InBatch(m)
    <3>1. PICK n \in Msg : Occurs(batch[n], m)
      BY <2>1 DEF InBatch
    <3>2. {p \in Msg : Occurs(batch[p], m)} = {n}
      BY <1>6, <3>1
    <3>3. Batch = {<<"batch", n>>}
      BY <3>2
    <3> QED BY <1>1, <2>1, <3>3 DEF Placed
  <2>2. CASE ~InBatch(m)
    BY <1>1, <2>2 DEF Placed, InBatch
  <2> QED BY <2>1, <2>2
<1>13. IF at[m] = "missed" THEN \E x : Missed = {x} ELSE Missed = {}
  <2>1. CASE InMissed(m)
    <3>1. PICK n \in Msg : Occurs(missed[n], m) /\ pc[m] = "idle"
      BY <2>1 DEF InMissed
    <3>2. {p \in Msg : Occurs(missed[p], m) /\ pc[m] = "idle"} = {n}
      BY <1>7, <3>1
    <3>3. Missed = {<<"missed", n>>}
      BY <3>2
    <3> QED BY <1>1, <2>1, <3>3 DEF Placed
  <2>2. CASE ~InMissed(m)
    BY <1>1, <2>2 DEF Placed, InMissed
  <2> QED BY <2>1, <2>2
<1>14. m \in unfetched <=> at[m] = "source"
  BY <1>1 DEF Placed
<1>15. at[m] \in PlaceName
  BY <1>1
<1> HIDE DEF Hand, Pending, Worker, Parked, Batch, Missed, Run, Delivered, Rejected, Dropped,
             SInv, HoldInv
<1>16. CASE at[m] = "source"
  <2>1. Homes(m) = {}
    BY <1>2, <1>8, <1>9, <1>10, <1>11, <1>12, <1>13, <1>16
  <2> QED BY <1>14, <1>16, <2>1, FS_EmptySet
<1>17. CASE at[m] # "source"
  <2>1. \E x : Homes(m) = {x}
    <3>1. CASE at[m] = "hand"
      <4>1. Homes(m) = {"hand"}
        BY <1>2, <1>8, <1>9, <1>10, <1>11, <1>12, <1>13, <3>1
      <4> QED BY <4>1
    <3>2. CASE at[m] = "run"
      <4>1. Homes(m) = {"run"}
        BY <1>2, <1>8, <1>9, <1>10, <1>11, <1>12, <1>13, <3>2
      <4> QED BY <4>1
    <3>3. CASE at[m] = "delivered"
      <4>1. Homes(m) = {"delivered"}
        BY <1>2, <1>8, <1>9, <1>10, <1>11, <1>12, <1>13, <3>3
      <4> QED BY <4>1
    <3>4. CASE at[m] = "rejected"
      <4>1. Homes(m) = {"rejected"}
        BY <1>2, <1>8, <1>9, <1>10, <1>11, <1>12, <1>13, <3>4
      <4> QED BY <4>1
    <3>5. CASE at[m] = "dropped"
      <4>1. Homes(m) = {"dropped"}
        BY <1>2, <1>8, <1>9, <1>10, <1>11, <1>12, <1>13, <3>5
      <4> QED BY <4>1
    <3>6. CASE at[m] = "pending"
      <4>1. PICK x : Pending = {x}
        BY <1>9, <3>6
      <4>2. Homes(m) = {x}
        BY <1>2, <1>8, <1>9, <1>10, <1>11, <1>12, <1>13, <3>6, <4>1
      <4> QED BY <4>2
    <3>7. CASE at[m] = "worker"
      <4>1. PICK x : Worker = {x}
        BY <1>10, <3>7
      <4>2. Homes(m) = {x}
        BY <1>2, <1>8, <1>9, <1>10, <1>11, <1>12, <1>13, <3>7, <4>1
      <4> QED BY <4>2
    <3>8. CASE at[m] = "parked"
      <4>1. PICK x : Parked = {x}
        BY <1>11, <3>8
      <4>2. Homes(m) = {x}
        BY <1>2, <1>8, <1>9, <1>10, <1>11, <1>12, <1>13, <3>8, <4>1
      <4> QED BY <4>2
    <3>9. CASE at[m] = "batch"
      <4>1. PICK x : Batch = {x}
        BY <1>12, <3>9
      <4>2. Homes(m) = {x}
        BY <1>2, <1>8, <1>9, <1>10, <1>11, <1>12, <1>13, <3>9, <4>1
      <4> QED BY <4>2
    <3>10. CASE at[m] = "missed"
      <4>1. PICK x : Missed = {x}
        BY <1>13, <3>10
      <4>2. Homes(m) = {x}
        BY <1>2, <1>8, <1>9, <1>10, <1>11, <1>12, <1>13, <3>10, <4>1
      <4> QED BY <4>2
    <3> QED BY <1>15, <1>17, <3>1, <3>2, <3>3, <3>4, <3>5, <3>6, <3>7, <3>8, <3>9, <3>10 DEF PlaceName
  <2> QED BY <1>14, <1>17, <2>1, FS_Singleton
<1> QED BY <1>16, <1>17

(***************************************************************************)
(* An open lane is its turn's own, what is parked has an open turn, and a  *)
(* fetched message is in exactly one place until it is delivered, handed   *)
(* back, dropped or run (steering.go; run_once.go, runTask).               *)
(***************************************************************************)
THEOREM NoMessageIsLostOrDoubled == Spec => []SteeringIsKept
<1>1. SInv => OpenLaneIsOwn /\ ParkedHasTurn
  BY DEF SInv, HoldInv, EntryInv, ListsInv, ParkedHasTurn
<1>2. SInv => SteeringIsKept
  BY <1>1, PlaceIsHome DEF SteeringIsKept
<1> QED BY <1>2, SteeringInvariant, PTL

(***************************************************************************)
(* When every message names its thread, a turn drains exactly what is      *)
(* parked on its own lane.  The hypothesis is needed: see the run          *)
(* turn_new_chat (turn/steering.go, deliverSteering; runner.go, Run).      *)
(***************************************************************************)
THEOREM DrainsTheirOwnLane ==
    ASSUME \A m \in Msg : AddrOf[m].thread # NoThread
    PROVE  Spec => []DrainReachesParked
<1>1. \A m \in Msg : DrainKey(m) = InboxKey(m)
  BY DEF DrainKey, InboxKey, ResolvedAddr, turnAddress
<1>2. SInv => DrainReachesParked
  BY <1>1, KeysInRange DEF SInv, HoldInv, EntryInv, OpenLaneIsOwn, DrainReachesParked, Drained
<1> QED BY <1>2, SteeringInvariant, PTL

(***************************************************************************)
(* The serial loop never finds a turn to steer when it fetches (run_once.go*)
(* RunOnce).                                                               *)
(***************************************************************************)
THEOREM SerialLoopNeverSteers == Spec => []SerialNeverParks
<1>1. SInv => SerialNeverParks
  <2> SUFFICES ASSUME SInv, Serial, NEW k \in Key, lpc = "fetching", entry[k] # None PROVE FALSE
    BY DEF SerialNeverParks
  <2>1. entry[k] \in Msg /\ LaneOpen(entry[k])
    BY DEF SInv, HoldInv, EntryInv, IInv, TypeOK, InboxTypeOK
  <2>2. Current(entry[k])
    BY <2>1 DEF Current, LaneOpen
  <2> QED BY <2>1, <2>2 DEF SInv, HoldInv, CurrentInv, LaneIsServed, ModeInv
<1> QED BY <1>1, SteeringInvariant, PTL

-----------------------------------------------------------------------------
(* Cancels.                                                                *)

\* Two frames of one task that both need their registration are one.
CInv == SInv /\ CancelInv

LEMMA NextCancelInv ==
    ASSUME TasksHaveOneLane
    PROVE  CInv /\ [Next]_vars => CancelInv'
<1> SUFFICES ASSUME CInv, [Next]_vars PROVE CancelInv'
  OBVIOUS
<1> USE DEF CInv, SInv, HoldInv
<1>t. /\ registered \in [Task -> Msg \cup {None}] /\ pc \in [Msg -> FramePC]
      /\ \A m \in Msg : TaskOf(m) # NoTask => TaskOf(m) \in Task
  BY DEF IInv, TypeOK, CancellerTypeOK, FrameTypeOK, TaskOf, turnAddress, Address
<1>o. ASSUME NEW m \in Msg, NEW n \in Msg, Current(m), pc[n] \in {"open", "exec", "deliver"},
             TaskOf(m) = TaskOf(n), TaskOf(m) # NoTask
      PROVE  m = n
  BY <1>o DEF TasksHaveOneLane, CurrentInv, Current
\* Steps that leave the canceller alone and start nothing half-way.
<1>s. ASSUME UNCHANGED cancellerVars, asked \subseteq asked',
             \A m \in Msg : /\ pc[m] \notin {"idle", "begin", "returned"} =>
                                 pc'[m] \notin {"idle", "begin", "returned"}
                            /\ pc[m] \notin {"idle", "begin"} => pc'[m] \notin {"idle", "begin"}
                            /\ pc'[m] \in {"open", "exec", "deliver"} =>
                                 pc[m] \in {"open", "exec", "deliver"}
      PROVE  CancelInv'
  <2>1. cancelled \subseteq Msg
    BY DEF IInv, TypeOK, CancellerTypeOK
  <2>2. \A t \in Task : registered[t] # None => registered[t] \in Msg
    BY <1>t
  <2> QED BY <1>s, <2>1, <2>2 DEF CancelInv, cancellerVars
<1>1. CASE LoopNext
  <2>1. UNCHANGED <<cancellerVars, asked>>
    BY <1>1 DEF LoopNext, LoopTop, FetchNothing, FetchError, LoopReturn, FetchTurn,
       FetchParked, FetchMissed, LoopSubmit, SerialReturn
  <2>2. ASSUME NEW m \in Msg, FetchTurn(m) PROVE CancelInv'
    <3>1. pc[m] = "idle"
      BY <2>2 DEF FetchTurn, PlaceInv, Placed
    <3>2. \A n \in Msg : pc'[n] = pc[n] \/ (n = m /\ pc'[n] = "begin")
      BY <1>t, <2>2 DEF FetchTurn
    <3> QED BY <1>s, <2>1, <3>1, <3>2
  <2>3. CASE \A m \in Msg : ~FetchTurn(m)
    <3>1. pc' = pc
      BY <1>1, <2>3 DEF LoopNext, LoopTop, FetchNothing, FetchError, LoopReturn, FetchTurn,
         FetchParked, FetchMissed, LoopSubmit, SerialReturn, frameVars
    <3> QED BY <1>s, <2>1, <3>1
  <2> QED BY <2>2, <2>3
<1>2. ASSUME NEW w \in Msg, WorkerStep(w) PROVE CancelInv'
  <2>1. UNCHANGED <<cancellerVars, asked>>
    BY <1>2 DEF WorkerStep, WorkerAcquire, WorkerRelease, WorkerNext, loopVars
  <2>2. CASE WorkerAcquire(w)
    <3>c. PICK c \in Msg : c = wcur[w]
      BY DEF IInv, TypeOK, DispatcherTypeOK
    <3>1. pc[c] = "idle" /\ pc' = [pc EXCEPT ![c] = "begin"]
      BY <2>2, <3>c DEF WorkerAcquire, acquire, PlaceInv, Placed, AtWorker
    <3>2. \A n \in Msg : pc'[n] = pc[n] \/ (n = c /\ pc'[n] = "begin")
      BY <1>t, <3>1
    <3> QED BY <1>s, <2>1, <3>1, <3>2
  <2>3. CASE WorkerRelease(w) \/ WorkerNext(w)
    <3>1. pc' = pc
      BY <2>3 DEF WorkerRelease, WorkerNext, frameVars
    <3> QED BY <1>s, <2>1, <3>1
  <2> QED BY <1>2, <2>2, <2>3 DEF WorkerStep
<1>3. ASSUME NEW m \in Msg, TaskBegin(m) PROVE CancelInv'
  <2>1. /\ pc[m] = "begin" /\ asked' = asked /\ CancellerBegin(m)
        /\ \A n \in Msg : pc'[n] = IF n = m THEN "open" ELSE pc[n]
    BY <1>3, <1>t DEF TaskBegin, loopVars
  <2>2. CASE TaskOf(m) = NoTask
    <3>1. UNCHANGED cancellerVars
      BY <2>1, <2>2 DEF CancellerBegin
    <3>2. m \notin cancelled /\ \A t \in Task : registered[t] # m
      BY <2>1 DEF CancelInv, IInv, TypeOK, CancellerTypeOK
    <3>3. cancelled \subseteq Msg
      BY DEF IInv, TypeOK, CancellerTypeOK
    <3> QED BY <1>t, <2>1, <2>2, <3>1, <3>2, <3>3 DEF CancelInv, cancellerVars
  <2>3. CASE TaskOf(m) # NoTask
    <3> DEFINE t == TaskOf(m)
    <3>1. /\ cancelled' = cancelled \cup ({registered[t]} \ {None})
          /\ registered' = [registered EXCEPT ![t] = m] /\ t \in Task
      BY <1>t, <2>1, <2>3 DEF CancellerBegin
    <3>2. m \notin cancelled /\ \A s \in Task : registered[s] # m
      BY <2>1 DEF CancelInv, IInv, TypeOK, CancellerTypeOK
    <3>3. registered[t] # None =>
             registered[t] \in Msg /\ TaskOf(registered[t]) = t
             /\ pc[registered[t]] \notin {"idle", "begin", "returned", "open", "exec", "deliver"}
      <4> SUFFICES ASSUME registered[t] # None
                   PROVE  registered[t] \in Msg /\ TaskOf(registered[t]) = t
                          /\ pc[registered[t]] \notin
                                {"idle", "begin", "returned", "open", "exec", "deliver"}
        OBVIOUS
      <4>1. PICK x \in Msg : x = registered[t]
        BY <1>t, <3>1
      <4>2. TaskOf(x) = t /\ pc[x] \notin {"idle", "begin", "returned"} /\ x # m
        BY <3>1, <3>2, <4>1 DEF CancelInv
      <4>3. pc[x] \notin {"open", "exec", "deliver"}
        BY <1>o, <2>1, <2>3, <4>2 DEF Current
      <4> QED BY <4>1, <4>2, <4>3
    <3>4. \A s \in Task : registered'[s] = IF s = t THEN m ELSE registered[s]
      BY <1>t, <3>1
    <3>5. \A s \in Task : registered'[s] # None =>
             TaskOf(registered'[s]) = s /\ pc'[registered'[s]] \notin {"idle", "begin", "returned"}
      BY <1>t, <2>1, <3>2, <3>4 DEF CancelInv
    <3>6. \A n \in cancelled' : pc'[n] \notin {"idle", "begin"}
      <4>1. cancelled \subseteq Msg
        BY DEF IInv, TypeOK, CancellerTypeOK
      <4> QED BY <2>1, <3>1, <3>3, <4>1 DEF CancelInv
    <3>7. ASSUME NEW n \in Msg, pc'[n] \in {"open", "exec", "deliver"}
          PROVE  /\ n \notin cancelled' /\ TaskOf(n) # NoTask => registered'[TaskOf(n)] = n
                 /\ n \in cancelled' => TaskOf(n) \in asked'
      <4>1. CASE n = m
        BY <3>1, <3>2, <3>4, <4>1
      <4>2. CASE n # m
        <5>1. pc[n] \in {"open", "exec", "deliver"}
          BY <2>1, <3>7, <4>2
        <5>2. TaskOf(n) # t
          BY <1>o, <2>1, <2>3, <4>2, <5>1 DEF Current
        <5>3. n \in cancelled' => n \in cancelled
          BY <3>1, <3>3, <5>1
        <5>4. TaskOf(n) # NoTask => registered'[TaskOf(n)] = registered[TaskOf(n)]
          BY <1>t, <3>4, <5>2
        <5> QED BY <2>1, <3>1, <5>1, <5>3, <5>4 DEF CancelInv
      <4> QED BY <4>1, <4>2
    <3> QED BY <3>5, <3>6, <3>7 DEF CancelInv
  <2> QED BY <2>2, <2>3
<1>4. ASSUME NEW m \in Msg, TaskDone(m) PROVE CancelInv'
  <2>1. /\ pc[m] = "done" /\ asked' = asked /\ CancellerDone(m)
        /\ \A n \in Msg : pc'[n] = IF n = m THEN "returned" ELSE pc[n]
    BY <1>4, <1>t DEF TaskDone, loopVars
  <2>c. cancelled \subseteq Msg
    BY DEF IInv, TypeOK, CancellerTypeOK
  <2>2. CASE TaskOf(m) = NoTask
    <3>1. UNCHANGED cancellerVars
      BY <2>1, <2>2 DEF CancellerDone
    <3>2. \A t \in Task : registered[t] # m
      <4>1. NoTask \notin Task /\ m # None
        OBVIOUS
      <4> QED BY <2>2, <4>1 DEF CancelInv
    <3> QED BY <1>t, <2>1, <2>c, <3>1, <3>2 DEF CancelInv, cancellerVars
  <2>3. CASE TaskOf(m) # NoTask
    <3> DEFINE t == TaskOf(m)
    <3>1. /\ cancelled' = cancelled \cup {m} /\ t \in Task
          /\ \A s \in Task : registered'[s] = IF s = t THEN None ELSE registered[s]
      BY <1>t, <2>1, <2>3 DEF CancellerDone
    <3>2. \A s \in Task : registered[s] = m => s = t
      BY DEF CancelInv
    <3>3. \A s \in Task : registered'[s] # None =>
             TaskOf(registered'[s]) = s /\ pc'[registered'[s]] \notin {"idle", "begin", "returned"}
      BY <1>t, <2>1, <3>1, <3>2 DEF CancelInv
    <3>4. \A n \in cancelled' : pc'[n] \notin {"idle", "begin"}
      BY <2>1, <2>c, <3>1 DEF CancelInv
    <3>5. ASSUME NEW n \in Msg, pc'[n] \in {"open", "exec", "deliver"}
          PROVE  /\ n \notin cancelled' /\ TaskOf(n) # NoTask => registered'[TaskOf(n)] = n
                 /\ n \in cancelled' => TaskOf(n) \in asked'
      <4>1. n # m /\ pc[n] \in {"open", "exec", "deliver"}
        BY <2>1, <3>5
      <4>2. TaskOf(n) # t
        BY <1>o, <2>1, <2>3, <4>1 DEF Current
      <4>3. TaskOf(n) # NoTask => registered'[TaskOf(n)] = registered[TaskOf(n)]
        BY <1>t, <3>1, <4>2
      <4> QED BY <2>1, <3>1, <4>1, <4>3 DEF CancelInv
    <3> QED BY <3>3, <3>4, <3>5 DEF CancelInv
  <2> QED BY <2>2, <2>3
<1>5. ASSUME NEW m \in Msg, FrameStep(m), ~TaskBegin(m), ~TaskDone(m) PROVE CancelInv'
  <2>1. UNCHANGED <<cancellerVars, asked>>
    BY <1>5 DEF FrameStep, TaskOpenLane, TurnDrain, TurnDeliver, TurnDeliverFails, TurnEnd,
       TaskClose, MissedFallback, ChildReturn, MissedReject, MissedEmpty, loopVars
  <2>2. CASE MissedFallback(m)
    <3>c. PICK c \in Msg : c = Head(missed[m]) /\ Occurs(missed[m], c)
      BY <2>2, OccursHead DEF MissedFallback, IInv, TypeOK, FrameTypeOK
    <3>1. /\ pc[m] = "missed" /\ pc[c] = "idle"
          /\ pc' = [pc EXCEPT ![m] = "child", ![c] = "begin"]
      BY <2>2, <3>c DEF MissedFallback, NestInv
    <3>2. \A n \in Msg : \/ pc'[n] = pc[n]
                         \/ n = c /\ pc'[n] = "begin"
                         \/ n = m /\ pc'[n] = "child"
      BY <1>t, <3>1
    <3> QED BY <1>s, <2>1, <3>1, <3>2
  <2>3. CASE ~MissedFallback(m)
    <3>1. \A n \in Msg : n # m => pc'[n] = pc[n]
      BY <1>5, <1>t, <2>3 DEF FrameStep, TaskOpenLane, TurnDrain, TurnDeliver,
         TurnDeliverFails, TurnEnd, TaskClose, ChildReturn, MissedReject, MissedEmpty
    <3>2. /\ pc[m] \in {"open", "exec", "deliver", "close", "missed", "child"}
          /\ pc'[m] \in {"exec", "deliver", "close", "missed", "done"}
          /\ pc'[m] \in {"exec", "deliver"} => pc[m] \in {"open", "exec", "deliver"}
      BY <1>5, <1>t, <2>3 DEF FrameStep, TaskOpenLane, TurnDrain, TurnDeliver,
         TurnDeliverFails, TurnEnd, TaskClose, ChildReturn, MissedReject, MissedEmpty
    <3> QED BY <1>s, <2>1, <3>1, <3>2
  <2> QED BY <2>2, <2>3
<1>6. ASSUME NEW t \in Task, CancelTask(t) PROVE CancelInv'
  <2>1. /\ cancelled' = cancelled \cup ({registered[t]} \ {None}) /\ registered' = registered
        /\ asked' = asked \cup {t} /\ pc' = pc
    BY <1>6 DEF CancelTask, CancellerCancel, frameVars
  <2>2. cancelled \subseteq Msg
    BY DEF IInv, TypeOK, CancellerTypeOK
  <2>3. \A n \in cancelled' : pc'[n] \notin {"idle", "begin"}
    BY <2>1, <2>2 DEF CancelInv
  <2>4. \A n \in Msg : n \in cancelled' => n \in cancelled \/ TaskOf(n) = t
    BY <2>1 DEF CancelInv
  <2> QED BY <1>t, <2>1, <2>3, <2>4 DEF CancelInv
<1>7. CASE CtxCancel \/ UNCHANGED vars
  <2>1. UNCHANGED <<cancellerVars, asked, pc>>
    BY <1>7 DEF CtxCancel, vars, frameVars, loopVars
  <2> QED BY <1>s, <2>1
<1> QED BY <1>1, <1>2, <1>3, <1>4, <1>5, <1>6, <1>7 DEF Next, Terminated

(***************************************************************************)
(* When the messages of one task belong to one conversation, a cancel      *)
(* reaches the turn that executes under its task id, and no turn is        *)
(* cancelled that nobody asked to cancel (turncancel.go, Begin and done,   *)
(* whose done func removes whatever is registered under the id).           *)
(***************************************************************************)
THEOREM CancelsHitTheirTurn ==
    ASSUME TasksHaveOneLane
    PROVE  Spec => []CancelIsExact
<1>1. Init => CInv
  BY InitInv, InitHold, InitPlace
     DEF CInv, SInv, CancelInv, Init, CancellerInit
<1>2. CInv /\ [Next]_vars => CInv'
  BY NextSInv, NextCancelInv DEF CInv
<1>3. CInv => CancelIsExact
  BY DEF CInv, CancelInv, CancelIsExact, CancelReachesTurn, CancelOnlyOnRequest, InTurn
<1> QED BY <1>1, <1>2, <1>3, PTL DEF Spec

-----------------------------------------------------------------------------
(***************************************************************************)
(* The runtime implements LaneQueue, and leaves nothing behind when its    *)
(* loop returns.                                                           *)
(*                                                                         *)
(* A step of the runtime is at most one step of one lane: submitting       *)
(* accepts, a worker's permit serves, giving it back completes.  A worker  *)
(* that takes its next message only moves it from pending to its hand,     *)
(* which is the same queue.                                                *)
(***************************************************************************)

\* The lanes and keys of LaneQueue are the dispatcher's (steering.go,
\* ConversationKey).
LEMMA SameLanes ==
    /\ \A m \in Msg : LaneService!threadKey(m) = threadKey(m)
    /\ LaneService!Lane = Lane
<1>1. \A m \in Msg : LaneService!threadKey(m) = threadKey(m)
  BY DEF LaneService!threadKey, LaneService!turnAddress, LaneService!ConversationKey,
         LaneService!AddressKey, threadKey, turnAddress, ConversationKey, AddressKey
<1> QED BY <1>1 DEF LaneService!Lane, Lane

\* What is waiting and served on the lane of a live worker.
WorkerView ==
    \A w \in Msg :
        /\ wpc[w] = "acquire" =>
              /\ Waiting(threadKey(w)) = <<wcur[w]>> \o pending[threadKey(w)]
              /\ Serving(threadKey(w)) = None
        /\ wpc[w] = "run" =>
              /\ Waiting(threadKey(w)) = pending[threadKey(w)]
              /\ Serving(threadKey(w)) = wcur[w]
        /\ wpc[w] = "next" =>
              /\ Waiting(threadKey(w)) = pending[threadKey(w)]
              /\ Serving(threadKey(w)) = None

\* And on a lane without one.
IdleView ==
    \A k \in Lane : (\A w \in Msg : Live(w) => threadKey(w) # k) =>
        Waiting(k) = <<>> /\ Serving(k) = None /\ pending[k] = <<>> /\ k \notin active

\* So is the count of its busy lanes.
LEMMA SameCount == \A S : LaneService!Cardinality(S) = Cardinality(S)
BY DEF LaneService!Cardinality, Cardinality

(***************************************************************************)
(* A lane has one worker, so the queue starts with the message in its hand *)
(* and the lane serves the message it runs (dispatch.go, launch).          *)
(***************************************************************************)
LEMMA LaneView == SInv => WorkerView
<1> SUFFICES ASSUME SInv, NEW w \in Msg
             PROVE  /\ wpc[w] = "acquire" =>
                          /\ Waiting(threadKey(w)) = <<wcur[w]>> \o pending[threadKey(w)]
                          /\ Serving(threadKey(w)) = None
                    /\ wpc[w] = "run" =>
                          /\ Waiting(threadKey(w)) = pending[threadKey(w)]
                          /\ Serving(threadKey(w)) = wcur[w]
                    /\ wpc[w] = "next" =>
                          /\ Waiting(threadKey(w)) = pending[threadKey(w)]
                          /\ Serving(threadKey(w)) = None
  BY DEF WorkerView
<1> USE DEF SInv
<1> DEFINE k == threadKey(w)
<1>1. \A x \in Msg : Live(x) /\ Live(w) /\ threadKey(x) = k => x = w
  BY DEF IInv, LaneInv
<1>2. k \in Lane /\ pending[k] \in Seq(Msg)
  BY KeysInRange DEF IInv, TypeOK, DispatcherTypeOK
<1>3. ASSUME wpc[w] = "acquire"
      PROVE  Waiting(k) = <<wcur[w]>> \o pending[k] /\ Serving(k) = None
  <2>1. \A x \in Msg : wpc[x] = "acquire" /\ threadKey(x) = k <=> x = w
    BY <1>1, <1>3 DEF Live
  <2>2. \A x \in Msg : ~(wpc[x] = "run" /\ threadKey(x) = k)
    BY <1>1, <1>3 DEF Live
  <2>3. (CHOOSE x \in Msg : wpc[x] = "acquire" /\ threadKey(x) = k) = w
    BY <2>1
  <2> QED BY <2>1, <2>2, <2>3 DEF Waiting, Serving
<1>4. ASSUME wpc[w] \in {"run", "next"}
      PROVE  Waiting(k) = pending[k]
  <2>1. \A x \in Msg : ~(wpc[x] = "acquire" /\ threadKey(x) = k)
    BY <1>1, <1>4 DEF Live
  <2>2. Waiting(k) = <<>> \o pending[k]
    BY <2>1 DEF Waiting
  <2> QED BY <1>2, <2>2
<1>5. ASSUME wpc[w] = "run" PROVE Serving(k) = wcur[w]
  <2>1. \A x \in Msg : wpc[x] = "run" /\ threadKey(x) = k <=> x = w
    BY <1>1, <1>5 DEF Live
  <2>2. (CHOOSE x \in Msg : wpc[x] = "run" /\ threadKey(x) = k) = w
    BY <2>1
  <2> QED BY <2>1, <2>2 DEF Serving
<1>6. ASSUME wpc[w] = "next" PROVE Serving(k) = None
  <2>1. \A x \in Msg : ~(wpc[x] = "run" /\ threadKey(x) = k)
    BY <1>1, <1>6 DEF Live
  <2> QED BY <2>1 DEF Serving
<1> QED BY <1>3, <1>4, <1>5, <1>6

(***************************************************************************)
(* A lane without a live worker is empty and idle (dispatch.go, submit and *)
(* launch).                                                                *)
(***************************************************************************)
LEMMA IdleLane == SInv => IdleView
<1> SUFFICES ASSUME SInv, NEW k \in Lane, \A w \in Msg : Live(w) => threadKey(w) # k
             PROVE  Waiting(k) = <<>> /\ Serving(k) = None /\ pending[k] = <<>> /\ k \notin active
  BY DEF IdleView
<1>1. k \notin active /\ pending[k] = <<>>
  BY DEF SInv, IInv, LaneInv
<1>2. Waiting(k) = <<>> \o pending[k]
  BY DEF Waiting, Live
<1>3. Serving(k) = None
  BY DEF Serving, Live
<1> QED BY <1>1, <1>2, <1>3

(***************************************************************************)
(* What a step does to the workers and the queue of one lane shows on that *)
(* lane only.                                                              *)
(***************************************************************************)
LEMMA OtherLane ==
    ASSUME SInv, SInv', NEW k \in Lane, pending'[k] = pending[k],
           \A w \in Msg : threadKey(w) = k => wpc'[w] = wpc[w] /\ wcur'[w] = wcur[w]
    PROVE  Waiting(k)' = Waiting(k) /\ Serving(k)' = Serving(k)
<1>v. WorkerView /\ IdleView
  BY LaneView, IdleLane
<1>w. WorkerView' /\ IdleView'
  BY LaneView, IdleLane, PTL
<1>1. CASE \E w \in Msg : Live(w) /\ threadKey(w) = k
  <2>1. PICK w \in Msg : Live(w) /\ threadKey(w) = k
    BY <1>1
  <2>2. wpc'[w] = wpc[w] /\ wcur'[w] = wcur[w]
    BY <2>1
  <2>3. /\ wpc[w] = "acquire" =>
              Waiting(k) = <<wcur[w]>> \o pending[k] /\ Serving(k) = None
        /\ wpc[w] = "run" => Waiting(k) = pending[k] /\ Serving(k) = wcur[w]
        /\ wpc[w] = "next" => Waiting(k) = pending[k] /\ Serving(k) = None
    BY <1>v, <2>1 DEF WorkerView
  <2>4. /\ wpc'[w] = "acquire" =>
              Waiting(k)' = <<wcur'[w]>> \o pending'[k] /\ Serving(k)' = None
        /\ wpc'[w] = "run" => Waiting(k)' = pending'[k] /\ Serving(k)' = wcur'[w]
        /\ wpc'[w] = "next" => Waiting(k)' = pending'[k] /\ Serving(k)' = None
    BY <1>w, <2>1 DEF WorkerView
  <2> QED BY <2>1, <2>2, <2>3, <2>4 DEF Live
<1>2. CASE \A w \in Msg : Live(w) => threadKey(w) # k
  <2>1. \A w \in Msg : Live(w)' => threadKey(w) # k
    BY <1>2 DEF Live
  <2> QED BY <1>v, <1>w, <1>2, <2>1 DEF IdleView
<1> QED BY <1>1, <1>2

-----------------------------------------------------------------------------
(* The steps.                                                              *)

\* The queues and servers the runtime shows.
Queues == [k \in Lane |-> Waiting(k)]
Servers == [k \in Lane |-> Serving(k)]

LaneStep == [LaneService!Next]_<<Queues, Servers, submitted>>

(***************************************************************************)
(* The queues as functions change in one place only.                       *)
(***************************************************************************)
LEMMA QueueChange ==
    ASSUME NEW k \in Lane, NEW q, \A j \in Lane : Waiting(j)' = IF j = k THEN q ELSE Waiting(j)
    PROVE  Queues' = [Queues EXCEPT ![k] = q]
<1>1. Queues' = [j \in Lane |-> Waiting(j)']
  BY DEF Queues
<1> QED BY <1>1 DEF Queues

LEMMA ServerChange ==
    ASSUME NEW k \in Lane, NEW s, \A j \in Lane : Serving(j)' = IF j = k THEN s ELSE Serving(j)
    PROVE  Servers' = [Servers EXCEPT ![k] = s]
<1>1. Servers' = [j \in Lane |-> Serving(j)']
  BY DEF Servers
<1> QED BY <1>1 DEF Servers

LEMMA QueueStay ==
    ASSUME \A j \in Lane : Waiting(j)' = Waiting(j)
    PROVE  Queues' = Queues
BY DEF Queues

LEMMA ServerStay ==
    ASSUME \A j \in Lane : Serving(j)' = Serving(j)
    PROVE  Servers' = Servers
BY DEF Servers

(***************************************************************************)
(* Submitting accepts the message at the end of its lane's queue           *)
(* (dispatch.go, submit).                                                  *)
(***************************************************************************)
LEMMA SubmitAccepts ==
    ASSUME SInv, SInv', LoopSubmit
    PROVE  LaneStep
<1> USE DEF SInv
<1>m. PICK m \in Msg : m = lcur
  BY DEF LoopSubmit, IInv, HandInv
<1> DEFINE k == threadKey(m)
<1>1. submit(m) /\ submitted' = submitted \cup {m} /\ m \notin submitted /\ k \in Lane
  BY <1>m, KeysInRange DEF LoopSubmit, HoldInv, SubmitInv
<1>v. WorkerView /\ IdleView /\ WorkerView' /\ IdleView'
  BY LaneView, IdleLane, PTL
<1>t. pending \in [Lane -> Seq(Msg)] /\ wpc \in [Msg -> WorkerPC] /\ wcur \in [Msg -> Msg]
  BY DEF IInv, TypeOK, DispatcherTypeOK
<1>2. \A j \in Lane : j # k => Waiting(j)' = Waiting(j) /\ Serving(j)' = Serving(j)
  <2> SUFFICES ASSUME NEW j \in Lane, j # k
               PROVE  Waiting(j)' = Waiting(j) /\ Serving(j)' = Serving(j)
    OBVIOUS
  <2>1. pending'[j] = pending[j]
        /\ \A w \in Msg : threadKey(w) = j => wpc'[w] = wpc[w] /\ wcur'[w] = wcur[w]
    BY <1>1, <1>t DEF submit
  <2> QED BY <2>1, OtherLane
<1>3. Waiting(k)' = Append(Waiting(k), m) /\ Serving(k)' = Serving(k)
  <2>1. CASE k \in active
    <3>1. PICK w \in Msg : Live(w) /\ threadKey(w) = k
      BY <2>1 DEF IInv, LaneInv
    <3>2. pending'[k] = Append(pending[k], m) /\ wpc' = wpc /\ wcur' = wcur
          /\ pending[k] \in Seq(Msg) /\ wcur[w] \in Msg
      BY <1>1, <1>t, <2>1 DEF submit
    <3>3. CASE wpc[w] = "acquire"
      <4>1. Waiting(k) = <<wcur[w]>> \o pending[k] /\ Serving(k) = None
        BY <1>v, <3>1, <3>3 DEF WorkerView
      <4>2. Waiting(k)' = <<wcur'[w]>> \o pending'[k] /\ Serving(k)' = None
        BY <1>v, <3>1, <3>2, <3>3 DEF WorkerView
      <4>3. <<wcur[w]>> \o Append(pending[k], m) = Append(<<wcur[w]>> \o pending[k], m)
        BY <3>2
      <4> QED BY <3>2, <4>1, <4>2, <4>3
    <3>4. CASE wpc[w] = "run"
      <4>1. Waiting(k) = pending[k] /\ Serving(k) = wcur[w]
        BY <1>v, <3>1, <3>4 DEF WorkerView
      <4>2. Waiting(k)' = pending'[k] /\ Serving(k)' = wcur'[w]
        BY <1>v, <3>1, <3>2, <3>4 DEF WorkerView
      <4> QED BY <3>2, <4>1, <4>2
    <3>5. CASE wpc[w] = "next"
      <4>1. Waiting(k) = pending[k] /\ Serving(k) = None
        BY <1>v, <3>1, <3>5 DEF WorkerView
      <4>2. Waiting(k)' = pending'[k] /\ Serving(k)' = None
        BY <1>v, <3>1, <3>2, <3>5 DEF WorkerView
      <4> QED BY <3>2, <4>1, <4>2
    <3> QED BY <3>1, <3>3, <3>4, <3>5 DEF Live
  <2>2. CASE k \notin active
    <3>1. \A w \in Msg : Live(w) => threadKey(w) # k
      BY <2>2 DEF IInv, LaneInv
    <3>2. Waiting(k) = <<>> /\ Serving(k) = None /\ pending[k] = <<>>
      BY <1>1, <1>v, <3>1 DEF IdleView
    <3>3. wpc'[m] = "acquire" /\ wcur'[m] = m /\ pending' = pending
      BY <1>1, <1>t, <2>2 DEF submit
    <3>4. Waiting(k)' = <<m>> \o <<>> /\ Serving(k)' = None
      BY <1>v, <3>2, <3>3 DEF WorkerView
    <3>5. <<m>> \o <<>> = Append(<<>>, m)
      OBVIOUS
    <3> QED BY <3>2, <3>4, <3>5
  <2> QED BY <2>1, <2>2
<1>4. Queues' = [Queues EXCEPT ![k] = Append(@, m)]
  <2>1. \A j \in Lane : Waiting(j)' = IF j = k THEN Append(Waiting(k), m) ELSE Waiting(j)
    BY <1>2, <1>3
  <2>2. Queues' = [Queues EXCEPT ![k] = Append(Waiting(k), m)]
    BY <1>1, <2>1, QueueChange
  <2> QED BY <1>1, <2>2 DEF Queues
<1>5. Servers' = Servers
  BY <1>2, <1>3, ServerStay
<1>6. LaneService!Accept(m)
  BY <1>1, <1>4, <1>5, SameLanes DEF LaneService!Accept, Queues, Servers
<1> QED BY <1>6 DEF LaneStep, LaneService!Next

(***************************************************************************)
(* No more lanes are busy than workers run.                                *)
(***************************************************************************)
LEMMA BusyLanes ==
    ASSUME SInv
    PROVE  IsFiniteSet(LaneService!Busy) /\ Cardinality(LaneService!Busy) <= sem
<1> USE DEF SInv
<1> DEFINE R == {w \in Msg : wpc[w] = "run"}
           f == [w \in R |-> threadKey(w)]
<1>1. IsFiniteSet(R) /\ Cardinality(R) = sem
  BY FS_Subset DEF IInv, PermitsAreRunners
<1>2. LaneService!Busy = {k \in Lane : \E w \in R : threadKey(w) = k}
  <2>1. LaneService!Busy = {k \in Lane : Serving(k) # None}
    BY SameLanes DEF LaneService!Busy
  <2>2. ASSUME NEW k \in Lane PROVE Serving(k) # None <=> \E w \in R : threadKey(w) = k
    <3>1. ASSUME NEW w \in R, threadKey(w) = k PROVE Serving(k) # None
      <4>1. Serving(k) = wcur[w] /\ wcur[w] \in Msg
        BY <3>1, LaneView DEF WorkerView, IInv, TypeOK, DispatcherTypeOK
      <4> QED BY <4>1
    <3>2. (\A w \in R : threadKey(w) # k) => Serving(k) = None
      BY DEF Serving
    <3> QED BY <3>1, <3>2
  <2> QED BY <2>1, <2>2
<1>3. f \in Surjection(R, LaneService!Busy)
  <2>1. f \in [R -> LaneService!Busy]
    BY <1>2, KeysInRange
  <2>2. \A k \in LaneService!Busy : \E w \in R : f[w] = k
    BY <1>2
  <2> QED BY <2>1, <2>2 DEF Surjection
<1> HIDE DEF R, f
<1>4. IsFiniteSet(LaneService!Busy) /\ Cardinality(LaneService!Busy) <= Cardinality(R)
  BY <1>1, <1>3, FS_Surjection
<1> QED BY <1>1, <1>4

(***************************************************************************)
(* A worker's steps: its permit serves the head of its lane, giving it     *)
(* back completes, taking the next message leaves the lane as it was       *)
(* (dispatch.go, launch).                                                  *)
(***************************************************************************)
LEMMA WorkerServes ==
    ASSUME SInv, SInv', NEW w \in Msg, WorkerStep(w)
    PROVE  LaneStep
<1> USE DEF SInv
<1> DEFINE k == threadKey(w)
<1>1. k \in Lane
  BY KeysInRange
<1>v. WorkerView /\ IdleView /\ WorkerView' /\ IdleView'
  BY LaneView, IdleLane, PTL
<1>t. pending \in [Lane -> Seq(Msg)] /\ wpc \in [Msg -> WorkerPC] /\ wcur \in [Msg -> Msg]
      /\ Cardinality(LaneService!Busy) <= sem /\ sem \in 0..Concurrency
      /\ IsFiniteSet(LaneService!Busy)
  BY BusyLanes DEF IInv, TypeOK, DispatcherTypeOK
<1>s. submitted' = submitted
  BY DEF WorkerStep, WorkerAcquire, WorkerRelease, WorkerNext, loopVars
<1>2. \A j \in Lane : j # k => Waiting(j)' = Waiting(j) /\ Serving(j)' = Serving(j)
  <2> SUFFICES ASSUME NEW j \in Lane, j # k
               PROVE  Waiting(j)' = Waiting(j) /\ Serving(j)' = Serving(j)
    OBVIOUS
  <2>1. pending'[j] = pending[j]
        /\ \A x \in Msg : x # w => wpc'[x] = wpc[x] /\ wcur'[x] = wcur[x]
    BY <1>t DEF WorkerStep, WorkerAcquire, acquire, WorkerRelease, release, WorkerNext, popOrExit
  <2> QED BY <2>1, OtherLane
<1>3. CASE WorkerAcquire(w)
  <2>1. wpc[w] = "acquire" /\ wpc'[w] = "run" /\ sem < Concurrency
        /\ UNCHANGED <<pending, wcur>>
    BY <1>3, <1>t DEF WorkerAcquire, acquire
  <2>c. PICK c \in Msg : c = wcur[w]
    BY <1>t
  <2>2. Waiting(k) = <<c>> \o pending[k] /\ Serving(k) = None
    BY <1>v, <2>1, <2>c DEF WorkerView
  <2>3. Waiting(k)' = pending[k] /\ Serving(k)' = c
    BY <1>v, <2>1, <2>c DEF WorkerView
  <2>4. <<c>> \o pending[k] # <<>> /\ Head(<<c>> \o pending[k]) = c
        /\ Tail(<<c>> \o pending[k]) = pending[k]
    <3> DEFINE s == pending[k]
    <3>1. s \in Seq(Msg)
      BY <1>1, <1>t
    <3> HIDE DEF s
    <3>2. <<c>> \o s # <<>> /\ Head(<<c>> \o s) = c
      BY <3>1
    <3>3. Tail(<<c>> \o s) = s
      BY <3>1
    <3> QED BY <3>2, <3>3 DEF s
  <2>5. \A j \in Lane : Waiting(j)' = IF j = k THEN pending[k] ELSE Waiting(j)
    BY <1>2, <2>3
  <2>6. \A j \in Lane : Serving(j)' = IF j = k THEN c ELSE Serving(j)
    BY <1>2, <2>3
  <2>7. Queues' = [Queues EXCEPT ![k] = pending[k]] /\ Servers' = [Servers EXCEPT ![k] = c]
    BY <1>1, <2>5, <2>6, QueueChange, ServerChange
  <2>8. Queues[k] = <<c>> \o pending[k] /\ Servers[k] = None
    BY <1>1, <2>2 DEF Queues, Servers
  <2>9. Cardinality(LaneService!Busy) < Concurrency
    <3>1. Cardinality(LaneService!Busy) \in Nat
      BY <1>t, FS_CardinalityType
    <3> QED BY <1>t, <2>1, <3>1
  <2>10. /\ Servers[k] = None /\ Queues[k] # <<>>
         /\ Servers' = [Servers EXCEPT ![k] = Head(Queues[k])]
         /\ Queues' = [Queues EXCEPT ![k] = Tail(@)]
    BY <2>4, <2>7, <2>8
  <2>11. LaneService!Serve(k)
    <3>1. /\ [j \in Lane |-> Serving(j)][k] = None /\ [j \in Lane |-> Waiting(j)][k] # <<>>
          /\ [j \in Lane |-> Serving(j)]'
                = [[j \in Lane |-> Serving(j)] EXCEPT ![k] = Head([j \in Lane |-> Waiting(j)][k])]
          /\ [j \in Lane |-> Waiting(j)]' = [[j \in Lane |-> Waiting(j)] EXCEPT ![k] = Tail(@)]
      BY <2>10, Zenon DEF Queues, Servers
    <3> QED BY <1>s, <2>9, <3>1, SameCount, Zenon DEF LaneService!Serve
  <2> QED BY <1>1, <2>11, SameLanes DEF LaneStep, LaneService!Next
<1>4. CASE WorkerRelease(w)
  <2>1. wpc[w] = "run" /\ wpc'[w] = "next" /\ UNCHANGED <<pending, wcur>>
    BY <1>4, <1>t DEF WorkerRelease, release
  <2>2. Waiting(k) = pending[k] /\ Serving(k) = wcur[w] /\ wcur[w] \in Msg
    BY <1>t, <1>v, <2>1 DEF WorkerView
  <2>3. Waiting(k)' = pending[k] /\ Serving(k)' = None
    BY <1>v, <2>1 DEF WorkerView
  <2>4. \A j \in Lane : Waiting(j)' = Waiting(j)
    BY <1>2, <2>2, <2>3
  <2>5. \A j \in Lane : Serving(j)' = IF j = k THEN None ELSE Serving(j)
    BY <1>2, <2>3
  <2>6. Queues' = Queues /\ Servers' = [Servers EXCEPT ![k] = None]
    BY <1>1, <2>4, <2>5, QueueStay, ServerChange
  <2>7. Servers[k] # None
    BY <1>1, <2>2 DEF Servers
  <2>8. LaneService!Complete(k)
    BY <1>s, <2>6, <2>7 DEF LaneService!Complete, Queues, Servers
  <2> QED BY <1>1, <2>8, SameLanes DEF LaneStep, LaneService!Next
<1>5. CASE WorkerNext(w)
  <2>1. wpc[w] = "next"
    BY <1>5 DEF WorkerNext, popOrExit
  <2>2. Waiting(k) = pending[k] /\ Serving(k) = None
    BY <1>v, <2>1 DEF WorkerView
  <2>3. CASE pending[k] = <<>>
    <3>1. active' = active \ {k}
      BY <1>5, <2>3 DEF WorkerNext, popOrExit
    <3>2. \A x \in Msg : Live(x)' => threadKey(x) # k
      BY <3>1 DEF IInv, LaneInv
    <3>3. Waiting(k)' = <<>> /\ Serving(k)' = None
      BY <1>1, <1>v, <3>2 DEF IdleView
    <3>4. Queues' = Queues /\ Servers' = Servers
      BY <1>2, <2>2, <2>3, <3>3, QueueStay, ServerStay
    <3> QED BY <1>s, <3>4 DEF LaneStep
  <2>4. CASE pending[k] # <<>>
    <3> DEFINE s == pending[k]
    <3>1. wpc'[w] = "acquire" /\ wcur'[w] = Head(s) /\ pending'[k] = Tail(s)
      BY <1>1, <1>5, <1>t, <2>4 DEF WorkerNext, popOrExit
    <3>2. Waiting(k)' = <<Head(s)>> \o Tail(s) /\ Serving(k)' = None
      BY <1>v, <3>1 DEF WorkerView
    <3>3. <<Head(s)>> \o Tail(s) = s
      <4>1. s \in Seq(Msg) /\ s # <<>>
        BY <1>1, <1>t, <2>4
      <4> HIDE DEF s
      <4> QED BY <4>1
    <3>4. Queues' = Queues /\ Servers' = Servers
      BY <1>2, <2>2, <3>2, <3>3, QueueStay, ServerStay
    <3> QED BY <1>s, <3>4 DEF LaneStep
  <2> QED BY <2>3, <2>4
<1> QED BY <1>3, <1>4, <1>5 DEF WorkerStep

(***************************************************************************)
(* The runtime is a FIFO queue with one server per lane, at most           *)
(* Concurrency of them busy: it implements LaneQueue (dispatch.go).        *)
(***************************************************************************)
THEOREM RuntimeImplementsLaneQueue == Spec => ImplementsLaneQueue
<1>1. Init => LaneService!Init
  <2> SUFFICES ASSUME Init PROVE LaneService!Init
    OBVIOUS
  <2>1. SInv
    BY InitInv, InitHold, InitPlace DEF SInv
  <2>2. \A w \in Msg : ~Live(w)
    BY DEF Init, DispatcherInit, Live
  <2>3. \A k \in Lane : Waiting(k) = <<>> /\ Serving(k) = None
    BY <2>1, <2>2, IdleLane DEF IdleView
  <2>4. submitted = {}
    BY DEF Init
  <2> QED BY <2>3, <2>4, SameLanes DEF LaneService!Init
<1>2. SInv /\ SInv' /\ [Next]_vars
         => [LaneService!Next]_<<[k \in Lane |-> Waiting(k)], [k \in Lane |-> Serving(k)], submitted>>
  <2> SUFFICES ASSUME SInv, SInv', [Next]_vars PROVE LaneStep
    BY DEF LaneStep, Queues, Servers
  <2>1. CASE LoopSubmit
    BY <2>1, SubmitAccepts
  <2>2. ASSUME NEW w \in Msg, WorkerStep(w) PROVE LaneStep
    BY <2>2, WorkerServes
  <2>3. ASSUME UNCHANGED <<dispatcherVars, submitted>> PROVE LaneStep
    BY <2>3 DEF LaneStep, Queues, Servers, Waiting, Serving, dispatcherVars
  <2>4. ASSUME NEW m \in Msg, FrameStep(m) PROVE LaneStep
    BY <2>3, <2>4, FrameLeavesLoop DEF loopVars
  <2>5. CASE LoopNext /\ ~LoopSubmit
    <3>1. UNCHANGED <<dispatcherVars, submitted>>
      BY <2>5 DEF LoopNext, LoopTop, FetchNothing, FetchError, LoopReturn, FetchTurn,
         FetchParked, FetchMissed, SerialReturn
    <3> QED BY <2>3, <3>1
  <2>6. CASE (\E t \in Task : CancelTask(t)) \/ CtxCancel \/ UNCHANGED vars
    <3>1. UNCHANGED <<dispatcherVars, submitted>>
      BY <2>6 DEF CancelTask, CtxCancel, vars, loopVars
    <3> QED BY <2>3, <3>1
  <2> QED BY <2>1, <2>2, <2>4, <2>5, <2>6 DEF Next, Terminated
<1> QED BY <1>1, <1>2, SteeringInvariant, PTL DEF Spec, ImplementsLaneQueue, LaneService!Spec

-----------------------------------------------------------------------------
(* What is left when the loop returns.                                     *)

\* Running, or waiting for a nested frame.
Active(m) == Current(m) \/ pc[m] = "child"

\* The frames of a lane are a stack: the worker's or the serial loop's frame at
\* depth 0, the current one on top, each waiting frame right under its leftover.
Stacked(d) ==
    /\ \A m, n \in Msg :
          Active(m) /\ Active(n) /\ threadKey(m) = threadKey(n) /\ d[m] = d[n] => m = n
    /\ \A m, n \in Msg :
          Current(m) /\ pc[n] = "child" /\ threadKey(m) = threadKey(n) => d[n] < d[m]
    /\ \A w \in Msg : wpc[w] = "run" => d[wcur[w]] = 0
    /\ lpc = "serial" => d[lcur] = 0
    /\ \A n \in Msg : pc[n] = "child" => d[Head(missed[n])] = d[n] + 1
    /\ \A n \in Msg : pc[n] = "child" => LaneIsServed(n)

StackInv == \E d \in [Msg -> Nat] : Stacked(d)

\* What was submitted is queued, with a worker, or has a frame.
ReachInv == \A m \in submitted : InPending(m) \/ AtWorker(m) \/ pc[m] # "idle"

\* Turns whose result a worker has recorded.
Counted == {m \in submitted : pc[m] = "returned" /\ res[m] = "none"}

CountInv == ~Serial => stats.turns + stats.errors = Cardinality(Counted)

\* A loop that has returned left no worker.
NoWorkerInv == lpc = "returned" => \A w \in Msg : ~Live(w)

QInv == SInv /\ StackInv /\ ReachInv /\ CountInv /\ NoWorkerInv

(***************************************************************************)
(* A step that starts no frame and nests none keeps the stack, when the    *)
(* lanes of waiting frames stay served.                                    *)
(***************************************************************************)
LEMMA StackStay ==
    ASSUME StackInv,
           \A n \in Msg : Current(n)' => Current(n),
           \A n \in Msg : pc'[n] = "child" => pc[n] = "child" /\ missed'[n] = missed[n],
           \A n \in Msg : pc'[n] = "child" => LaneIsServed(n)',
           \A w \in Msg : wpc'[w] = "run" => wpc[w] = "run" /\ wcur'[w] = wcur[w],
           lpc' = "serial" => lpc = "serial" /\ lcur' = lcur
    PROVE  StackInv'
<1>1. PICK d \in [Msg -> Nat] : Stacked(d)
  BY DEF StackInv
<1>2. \A n \in Msg : Active(n)' => Active(n)
  BY DEF Active
<1>3. \A n \in Msg : pc'[n] = "child" => d[Head(missed'[n])] = d[n] + 1
  BY <1>1 DEF Stacked
<1>4. Stacked(d)'
  BY <1>1, <1>2, <1>3 DEF Stacked
<1> QED BY <1>4 DEF StackInv

(***************************************************************************)
(* The stack of a lane whose base frame is current has no waiting frame.   *)
(***************************************************************************)
LEMMA BaseAlone ==
    ASSUME SInv, StackInv, NEW c \in Msg, Current(c),
           (\E w \in Msg : wpc[w] = "run" /\ wcur[w] = c) \/ (lpc = "serial" /\ lcur = c),
           NEW n \in Msg, threadKey(n) = threadKey(c)
    PROVE  pc[n] # "child"
<1>1. PICK d \in [Msg -> Nat] : Stacked(d)
  BY DEF StackInv
<1>2. d[c] = 0 /\ d[n] \in Nat
  BY <1>1 DEF Stacked
<1>3. pc[n] = "child" => d[n] < d[c]
  BY <1>1 DEF Stacked
<1> QED BY <1>2, <1>3

(***************************************************************************)
(* The loop keeps the stacks; the serial loop starts one on an empty lane  *)
(* and clears it (loop.go, RunLoop).                                       *)
(***************************************************************************)
LEMMA LoopStack ==
    ASSUME SInv, StackInv, LoopNext
    PROVE  StackInv'
<1> USE DEF SInv, HoldInv
<1>1. CASE SerialReturn
  <2>1. /\ lcur \in Msg /\ lpc = "serial" /\ lpc' # "serial" /\ pc[lcur] = "returned"
        /\ res' = [res EXCEPT ![lcur] = "none"] /\ UNCHANGED <<dispatcherVars, pc, missed>>
    BY <1>1 DEF SerialReturn, IInv, HandInv
  <2>2. Current(lcur) /\ \A w \in Msg : wpc[w] = "none"
    BY <2>1 DEF CurrentInv, ModeInv
  <2>3. \A n \in Msg : pc[n] # "child"
    <3> SUFFICES ASSUME NEW n \in Msg, pc[n] = "child" PROVE FALSE
      OBVIOUS
    <3>1. LaneIsServed(n)
      BY DEF StackInv, Stacked
    <3>2. threadKey(n) = threadKey(lcur)
      BY <2>2, <3>1 DEF LaneIsServed
    <3> QED BY <2>1, <2>2, <3>2, BaseAlone
  <2>4. \A n \in Msg : Current(n)' => Current(n)
    BY <2>1 DEF Current, IInv, TypeOK, FrameTypeOK
  <2> QED BY <2>1, <2>2, <2>3, <2>4, StackStay DEF dispatcherVars
<1>2. ASSUME NEW m \in Msg, FetchTurn(m), Serial PROVE StackInv'
  <2>1. /\ pc' = [pc EXCEPT ![m] = "begin"] /\ lpc = "fetching" /\ lpc' = "serial" /\ lcur' = m
        /\ UNCHANGED <<dispatcherVars, res, missed>>
    BY <1>2 DEF FetchTurn
  <2>2. \A n \in Msg : ~Active(n) /\ wpc[n] # "run"
    <3>1. \A n \in Msg : ~LaneIsServed(n) /\ wpc[n] # "run"
      BY <1>2, <2>1 DEF ModeInv, LaneIsServed
    <3>2. \A n \in Msg : pc[n] = "child" => LaneIsServed(n)
      BY DEF StackInv, Stacked
    <3> QED BY <3>1, <3>2 DEF Active, CurrentInv
  <2>3. \A n \in Msg : pc'[n] = IF n = m THEN "begin" ELSE pc[n]
    BY <2>1 DEF IInv, TypeOK, FrameTypeOK
  <2>4. \A n \in Msg : n # m => ~Active(n)' /\ ~Current(n)'
    BY <2>1, <2>2, <2>3 DEF Active, Current
  <2>5. \A n \in Msg : pc'[n] # "child"
    BY <2>2, <2>3 DEF Active
  <2> DEFINE d == [n \in Msg |-> 0]
  <2>6. d \in [Msg -> Nat] /\ d[m] = 0
    OBVIOUS
  <2> HIDE DEF d
  <2>7. Stacked(d)'
    BY <2>1, <2>2, <2>4, <2>5, <2>6 DEF Stacked, dispatcherVars
  <2> QED BY <2>6, <2>7 DEF StackInv
<1>3. CASE LoopNext /\ ~SerialReturn /\ ~(Serial /\ \E m \in Msg : FetchTurn(m))
  <2>1. UNCHANGED <<pc, res, missed>> /\ lpc' # "serial" /\ lpc # "serial"
    BY <1>3 DEF LoopNext, LoopTop, FetchNothing, FetchError, LoopReturn, FetchTurn,
       FetchParked, FetchMissed, LoopSubmit, frameVars
  <2>2. \A w \in Msg : (wpc'[w] = "run" <=> wpc[w] = "run")
                       /\ (wpc[w] = "run" => wcur'[w] = wcur[w])
    <3>1. CASE LoopSubmit
      <4>1. lcur \in Msg /\ submit(lcur)
        BY <3>1 DEF LoopSubmit, IInv, HandInv
      <4>2. threadKey(lcur) \notin active => wpc[lcur] # "run"
        BY <4>1 DEF IInv, LaneInv, Live
      <4> QED BY <4>1, <4>2 DEF submit, IInv, TypeOK, DispatcherTypeOK
    <3>2. CASE ~LoopSubmit
      BY <1>3, <3>2 DEF LoopNext, LoopTop, FetchNothing, FetchError, LoopReturn, FetchTurn,
         FetchParked, FetchMissed, dispatcherVars
    <3> QED BY <3>1, <3>2
  <2>3. \A n \in Msg : Current(n)' <=> Current(n)
    BY <2>1 DEF Current
  <2>4. \A n \in Msg : pc[n] = "child" => LaneIsServed(n)
    BY DEF StackInv, Stacked
  <2>5. \A n \in Msg : LaneIsServed(n) => LaneIsServed(n)'
    BY <2>1, <2>2 DEF LaneIsServed
  <2> QED BY <2>1, <2>2, <2>3, <2>4, <2>5, StackStay
<1> QED BY <1>1, <1>2, <1>3

(***************************************************************************)
(* A worker starts a stack on an empty lane and leaves its lane empty      *)
(* (dispatch.go, launch).                                                  *)
(***************************************************************************)
LEMMA WorkerStack ==
    ASSUME SInv, StackInv, NEW w \in Msg, WorkerStep(w)
    PROVE  StackInv'
<1> USE DEF SInv, HoldInv
<1>c. PICK c \in Msg : c = wcur[w]
  BY DEF IInv, TypeOK, DispatcherTypeOK
<1>0. UNCHANGED <<lpc, lcur, missed>>
  BY DEF WorkerStep, WorkerAcquire, WorkerRelease, WorkerNext, loopVars, frameVars
<1>4. \A n \in Msg : pc[n] = "child" => LaneIsServed(n)
  BY DEF StackInv, Stacked
<1>1. CASE WorkerAcquire(w)
  <2>1. /\ wpc[w] = "acquire" /\ wpc' = [wpc EXCEPT ![w] = "run"] /\ wcur' = wcur
        /\ pc' = [pc EXCEPT ![c] = "begin"] /\ res' = res
    BY <1>1, <1>c DEF WorkerAcquire, acquire
  <2>2. ~Serial /\ lpc # "serial" /\ c \in submitted /\ threadKey(c) = threadKey(w)
    BY <1>c, <2>1 DEF ModeInv, SubmitInv, Live
  <2>3. \A n \in Msg : LaneIsServed(n) => threadKey(n) # threadKey(c)
    BY <2>1, <2>2 DEF LaneIsServed, IInv, LaneInv, Live
  <2>4. \A n \in Msg : Active(n) => threadKey(n) # threadKey(c) /\ n # c
    BY <1>4, <2>3 DEF Active, CurrentInv
  <2>5. \A n \in Msg : pc'[n] = IF n = c THEN "begin" ELSE pc[n]
    BY <2>1 DEF IInv, TypeOK, FrameTypeOK
  <2>6. \A n \in Msg : n # c => (Current(n)' <=> Current(n)) /\ (Active(n)' <=> Active(n))
    BY <2>1, <2>5 DEF Active, Current
  <2>7. \A n \in Msg : pc'[n] = "child" => pc[n] = "child" /\ n # c
    BY <2>5
  <2>8. \A x \in Msg : wpc'[x] = IF x = w THEN "run" ELSE wpc[x]
    BY <2>1 DEF IInv, TypeOK, DispatcherTypeOK
  <2>9. \A x \in Msg : wpc[x] = "run" => wcur[x] # c /\ wcur[x] \in Msg
    BY <1>c, <2>1, <2>2 DEF SubmitInv, IInv, LaneInv, Live, TypeOK, DispatcherTypeOK
  <2>10. \A n \in Msg : pc[n] = "child" => Head(missed[n]) # c /\ Head(missed[n]) \in Msg
    BY <2>2, OccursHead DEF ListsInv, IInv, ChildInv, TypeOK, FrameTypeOK
  <2>11. PICK d \in [Msg -> Nat] : Stacked(d)
    BY DEF StackInv
  <2>d. PICK b \in [Msg -> Nat] : \A n \in Msg : b[n] = IF n = c THEN 0 ELSE d[n]
    <3>1. [d EXCEPT ![c] = 0] \in [Msg -> Nat]
          /\ \A n \in Msg : [d EXCEPT ![c] = 0][n] = IF n = c THEN 0 ELSE d[n]
      OBVIOUS
    <3> QED BY <3>1
  <2>12. \A m, n \in Msg :
            Active(m)' /\ Active(n)' /\ threadKey(m) = threadKey(n) /\ b[m] = b[n] => m = n
    BY <2>4, <2>6, <2>11, <2>d DEF Stacked
  <2>13. \A m, n \in Msg :
            Current(m)' /\ pc'[n] = "child" /\ threadKey(m) = threadKey(n) => b[n] < b[m]
    <3> SUFFICES ASSUME NEW m \in Msg, NEW n \in Msg, Current(m)', pc'[n] = "child",
                        threadKey(m) = threadKey(n)
                 PROVE  b[n] < b[m]
      OBVIOUS
    <3>1. pc[n] = "child" /\ n # c /\ m # c
      BY <2>4, <2>7 DEF Active
    <3> QED BY <2>6, <2>11, <2>d, <3>1 DEF Stacked
  <2>14. \A x \in Msg : wpc'[x] = "run" => b[wcur'[x]] = 0
    BY <1>c, <2>1, <2>8, <2>9, <2>11, <2>d DEF Stacked
  <2>15. \A n \in Msg : pc'[n] = "child" => b[Head(missed'[n])] = b[n] + 1
    BY <1>0, <2>7, <2>10, <2>11, <2>d DEF Stacked
  <2>16. \A n \in Msg : pc'[n] = "child" => LaneIsServed(n)'
    <3>1. \A n \in Msg : LaneIsServed(n) => LaneIsServed(n)'
      BY <1>0, <2>8 DEF LaneIsServed
    <3> QED BY <1>4, <2>7, <3>1
  <2>17. Stacked(b)'
    BY <1>0, <2>2, <2>12, <2>13, <2>14, <2>15, <2>16 DEF Stacked
  <2> QED BY <2>17 DEF StackInv
<1>2. CASE WorkerRelease(w)
  <2>1. /\ wpc[w] = "run" /\ wpc' = [wpc EXCEPT ![w] = "next"] /\ wcur' = wcur
        /\ pc[c] = "returned" /\ pc' = pc /\ res' = [res EXCEPT ![c] = "none"]
    BY <1>2, <1>c DEF WorkerRelease, release
  <2>2. lpc # "serial" /\ Current(c) /\ threadKey(c) = threadKey(w)
    BY <1>c, <2>1 DEF ModeInv, CurrentInv, SubmitInv, Live
  <2>3. \A n \in Msg : pc[n] = "child" => threadKey(n) # threadKey(w)
    BY <1>c, <2>1, <2>2, BaseAlone
  <2>4. \A x \in Msg : wpc'[x] = IF x = w THEN "next" ELSE wpc[x]
    BY <2>1 DEF IInv, TypeOK, DispatcherTypeOK
  <2>5. \A n \in Msg : Current(n)' => Current(n)
    BY <2>1 DEF Current, IInv, TypeOK, FrameTypeOK
  <2>6. \A n \in Msg : pc[n] = "child" => LaneIsServed(n)'
    <3> SUFFICES ASSUME NEW n \in Msg, pc[n] = "child" PROVE LaneIsServed(n)'
      OBVIOUS
    <3>1. PICK x \in Msg : wpc[x] = "run" /\ threadKey(x) = threadKey(n)
      BY <1>4, <2>2 DEF LaneIsServed
    <3>2. x # w
      BY <2>3, <3>1
    <3> QED BY <2>4, <3>1, <3>2 DEF LaneIsServed
  <2> QED BY <1>0, <2>1, <2>4, <2>5, <2>6, StackStay
<1>3. CASE WorkerNext(w)
  <2>1. wpc[w] = "next" /\ wpc'[w] # "run" /\ pc' = pc /\ res' = res
        /\ \A x \in Msg : x # w => wpc'[x] = wpc[x] /\ wcur'[x] = wcur[x]
    BY <1>3 DEF WorkerNext, popOrExit, frameVars, IInv, TypeOK, DispatcherTypeOK
  <2>2. \A n \in Msg : Current(n)' <=> Current(n)
    BY <2>1 DEF Current
  <2>3. \A n \in Msg : LaneIsServed(n) => LaneIsServed(n)'
    BY <1>0, <2>1 DEF LaneIsServed
  <2> QED BY <1>0, <1>4, <2>1, <2>2, <2>3, StackStay
<1> QED BY <1>1, <1>2, <1>3 DEF WorkerStep

(***************************************************************************)
(* Nesting a leftover puts its frame on top of the one that waits for it   *)
(* (run_once.go, runTask: the shell fallback).                             *)
(***************************************************************************)
LEMMA FallbackStack ==
    ASSUME SInv, StackInv, NEW m \in Msg, MissedFallback(m)
    PROVE  StackInv'
<1> USE DEF SInv, HoldInv
<1>c. PICK c \in Msg : c = Head(missed[m]) /\ Occurs(missed[m], c)
  BY OccursHead DEF MissedFallback, IInv, TypeOK, FrameTypeOK
<1>1. /\ pc[m] = "missed" /\ pc' = [pc EXCEPT ![m] = "child", ![c] = "begin"]
      /\ UNCHANGED <<dispatcherVars, lpc, lcur, res, missed>>
  BY <1>c DEF MissedFallback, loopVars
<1>2. c # m /\ pc[c] = "idle" /\ threadKey(c) = threadKey(m)
  BY <1>c, <1>1, KeysAgree DEF NestInv, ListsInv
<1>3. \A n \in Msg : pc'[n] = IF n = c THEN "begin" ELSE IF n = m THEN "child" ELSE pc[n]
  BY <1>1, <1>2 DEF IInv, TypeOK, FrameTypeOK
<1>4. Current(m) /\ ~Active(c) /\ LaneIsServed(m)
  BY <1>1, <1>2 DEF Current, Active, CurrentInv
<1>5. \A n \in Msg : n \notin {m, c} => (Current(n)' <=> Current(n)) /\ (Active(n)' <=> Active(n))
  BY <1>1, <1>3 DEF Current, Active
<1>6. ~Current(m)' /\ Current(c)'
  BY <1>2, <1>3 DEF Current
<1>7. \A n \in Msg : Current(n)' /\ threadKey(n) = threadKey(m) => n = c
  BY <1>4, <1>5, <1>6 DEF CurrentInv
<1>8. PICK d \in [Msg -> Nat] : Stacked(d)
  BY DEF StackInv
<1>d. PICK b \in [Msg -> Nat] : \A n \in Msg : b[n] = IF n = c THEN d[m] + 1 ELSE d[n]
  <2>1. [d EXCEPT ![c] = d[m] + 1] \in [Msg -> Nat]
        /\ \A n \in Msg : [d EXCEPT ![c] = d[m] + 1][n] = IF n = c THEN d[m] + 1 ELSE d[n]
    OBVIOUS
  <2> QED BY <2>1
<1>9. \A n \in Msg : d[n] \in Nat
  BY <1>8
<1>10. \A n \in Msg : pc[n] = "child" /\ threadKey(n) = threadKey(m) => d[n] < d[m]
  BY <1>4, <1>8 DEF Stacked
<1>11. \A n \in Msg : n # c /\ Active(n)' /\ threadKey(n) = threadKey(m) =>
          n = m \/ pc[n] = "child"
  BY <1>3, <1>7 DEF Active
<1>12. \A n \in Msg : n # c /\ Active(n)' /\ threadKey(n) = threadKey(m) => b[n] < b[c]
  BY <1>2, <1>9, <1>10, <1>11, <1>d
<1>13. \A n \in Msg : n # c => (Active(n)' <=> Active(n)) /\ b[n] = d[n]
  BY <1>1, <1>3, <1>5, <1>d, <1>4 DEF Active
<1>14. \A x, n \in Msg :
          Active(x)' /\ Active(n)' /\ threadKey(x) = threadKey(n) /\ b[x] = b[n] => x = n
  <2> SUFFICES ASSUME NEW x \in Msg, NEW n \in Msg, Active(x)', Active(n)',
                      threadKey(x) = threadKey(n), b[x] = b[n]
               PROVE  x = n
    OBVIOUS
  <2>1. \A y \in Msg : b[y] \in Nat
    OBVIOUS
  <2>2. ASSUME NEW y \in Msg, y # c, Active(y)', threadKey(y) = threadKey(c)
        PROVE  b[y] # b[c]
    <3>1. b[y] < b[c]
      BY <1>2, <1>12, <2>2
    <3>2. b[y] \in Nat /\ b[c] \in Nat
      BY <2>1
    <3> QED BY <3>1, <3>2
  <2>3. CASE x = c /\ n # c
    <3>1. n # c /\ Active(n)' /\ threadKey(n) = threadKey(c) /\ b[n] = b[c]
      BY <2>3
    <3> QED BY <2>2, <3>1
  <2>4. CASE x # c /\ n = c
    <3>1. x # c /\ Active(x)' /\ threadKey(x) = threadKey(c) /\ b[x] = b[c]
      BY <2>4
    <3> QED BY <2>2, <3>1
  <2>5. CASE x # c /\ n # c
    BY <1>8, <1>13, <2>5 DEF Stacked
  <2> QED BY <2>3, <2>4, <2>5
<1>15. \A x, n \in Msg :
          Current(x)' /\ pc'[n] = "child" /\ threadKey(x) = threadKey(n) => b[n] < b[x]
  <2> SUFFICES ASSUME NEW x \in Msg, NEW n \in Msg, Current(x)', pc'[n] = "child",
                      threadKey(x) = threadKey(n)
               PROVE  b[n] < b[x]
    OBVIOUS
  <2>1. n # c /\ Active(n)' /\ x # m
    BY <1>3, <1>6 DEF Active
  <2>2. CASE x = c
    BY <1>2, <1>12, <2>1, <2>2
  <2>3. CASE x # c
    <3>1. Current(x) /\ n # m /\ pc[n] = "child"
      BY <1>3, <1>5, <1>7, <2>1, <2>3
    <3> QED BY <1>8, <1>13, <2>1, <2>3, <3>1 DEF Stacked
  <2> QED BY <2>2, <2>3
<1>16. \A w \in Msg : wpc'[w] = "run" => b[wcur'[w]] = 0
  <2>1. \A w \in Msg : wpc[w] = "run" => wcur[w] # c /\ wcur[w] \in Msg
    BY <1>4 DEF CurrentInv, Active, IInv, TypeOK, DispatcherTypeOK
  <2> QED BY <1>1, <1>8, <1>13, <2>1 DEF Stacked, dispatcherVars
<1>17. lpc' = "serial" => b[lcur'] = 0
  <2>1. lpc = "serial" => lcur # c /\ lcur \in Msg
    BY <1>4 DEF CurrentInv, Active, IInv, HandInv
  <2> QED BY <1>1, <1>8, <1>13, <2>1 DEF Stacked
<1>18. \A n \in Msg : pc'[n] = "child" => b[Head(missed'[n])] = b[n] + 1
  <2> SUFFICES ASSUME NEW n \in Msg, pc'[n] = "child" PROVE b[Head(missed[n])] = b[n] + 1
    BY <1>1
  <2>1. CASE n = m
    BY <1>2, <1>c, <1>d, <2>1
  <2>2. CASE n # m
    <3>1. pc[n] = "child" /\ n # c
      BY <1>3, <2>2
    <3>2. Head(missed[n]) # c /\ Head(missed[n]) \in Msg
      BY <1>4, <3>1, OccursHead, SMTT(40) DEF NestInv, Active, IInv, ChildInv, TypeOK, FrameTypeOK
    <3> QED BY <1>8, <1>13, <3>1, <3>2 DEF Stacked
  <2> QED BY <2>1, <2>2
<1>19. \A n \in Msg : pc'[n] = "child" => LaneIsServed(n)'
  <2>1. \A n \in Msg : LaneIsServed(n) => LaneIsServed(n)'
    BY <1>1 DEF LaneIsServed, dispatcherVars
  <2> QED BY <1>3, <1>4, <1>8, <2>1 DEF Stacked
<1>20. Stacked(b)'
  BY <1>14, <1>15, <1>16, <1>17, <1>18, <1>19 DEF Stacked
<1> QED BY <1>20 DEF StackInv

(***************************************************************************)
(* The nested frame's return leaves the one below it on top (run_once.go,  *)
(* runTask).                                                               *)
(***************************************************************************)
LEMMA ChildStack ==
    ASSUME SInv, StackInv, NEW m \in Msg, ChildReturn(m)
    PROVE  StackInv'
<1> USE DEF SInv, HoldInv
<1>c. PICK c \in Msg : c = Head(missed[m]) /\ Occurs(missed[m], c)
  BY OccursHead DEF ChildReturn, IInv, ChildInv, TypeOK, FrameTypeOK
<1>1. /\ pc[m] = "child" /\ pc[c] = "returned" /\ c # m
      /\ pc' = [pc EXCEPT ![m] = "missed"]
      /\ res' = [res EXCEPT ![m] = IF @ = "ok" THEN res[c] ELSE @, ![c] = "none"]
      /\ missed' = [missed EXCEPT ![m] = Tail(@)]
      /\ UNCHANGED <<dispatcherVars, lpc, lcur>>
  BY <1>c DEF ChildReturn, loopVars
<1>2. threadKey(c) = threadKey(m) /\ Current(c)
  BY <1>c, <1>1, KeysAgree DEF NestInv, ListsInv
<1>3. \A n \in Msg : pc'[n] = IF n = m THEN "missed" ELSE pc[n]
  BY <1>1 DEF IInv, TypeOK, FrameTypeOK
<1>4. \A n \in Msg : n \notin {m, c} => res'[n] = res[n]
  BY <1>1 DEF IInv, TypeOK, FrameTypeOK
<1>5. res'[c] = "none"
  BY <1>1 DEF IInv, TypeOK, FrameTypeOK
<1>6. \A n \in Msg : n \notin {m, c} => (Current(n)' <=> Current(n)) /\ (Active(n)' <=> Active(n))
  BY <1>3, <1>4 DEF Current, Active
<1>7. ~Active(c)' /\ ~Current(c)' /\ Active(m)
  BY <1>1, <1>3, <1>5 DEF Current, Active
<1>8. PICK d \in [Msg -> Nat] : Stacked(d)
  BY DEF StackInv
<1>9. \A n \in Msg : d[n] \in Nat
  BY <1>8
<1>10. d[c] = d[m] + 1
  BY <1>c, <1>1, <1>8 DEF Stacked
<1>11. \A n \in Msg : Active(n)' => Active(n)
  BY <1>6, <1>7
<1>12. \A x, n \in Msg :
          Active(x)' /\ Active(n)' /\ threadKey(x) = threadKey(n) /\ d[x] = d[n] => x = n
  BY <1>8, <1>11 DEF Stacked
<1>13. \A x, n \in Msg :
          Current(x)' /\ pc'[n] = "child" /\ threadKey(x) = threadKey(n) => d[n] < d[x]
  <2> SUFFICES ASSUME NEW x \in Msg, NEW n \in Msg, Current(x)', pc'[n] = "child",
                      threadKey(x) = threadKey(n)
               PROVE  d[n] < d[x]
    OBVIOUS
  <2>1. x # c /\ n # m /\ pc[n] = "child"
    BY <1>3, <1>7
  <2>2. CASE x = m
    <3>1. d[n] < d[c]
      BY <1>2, <1>8, <2>1, <2>2 DEF Stacked
    <3>2. d[n] # d[m]
      BY <1>7, <1>8, <2>1, <2>2 DEF Stacked, Active
    <3> QED BY <1>9, <1>10, <2>2, <3>1, <3>2
  <2>3. CASE x # m
    BY <1>6, <1>8, <2>1, <2>3 DEF Stacked
  <2> QED BY <2>2, <2>3
<1>14. \A n \in Msg : pc'[n] = "child" => d[Head(missed'[n])] = d[n] + 1
  <2>1. \A n \in Msg : pc'[n] = "child" => n # m /\ pc[n] = "child" /\ missed'[n] = missed[n]
    BY <1>1, <1>3 DEF IInv, TypeOK, FrameTypeOK
  <2> QED BY <1>8, <2>1 DEF Stacked
<1>15. \A n \in Msg : pc'[n] = "child" => LaneIsServed(n)'
  <2>1. \A n \in Msg : LaneIsServed(n) => LaneIsServed(n)'
    BY <1>1 DEF LaneIsServed, dispatcherVars
  <2> QED BY <1>3, <1>8, <2>1 DEF Stacked
<1>16. (\A w \in Msg : wpc'[w] = "run" => d[wcur'[w]] = 0) /\ (lpc' = "serial" => d[lcur'] = 0)
  BY <1>1, <1>8 DEF Stacked, dispatcherVars
<1>17. Stacked(d)'
  BY <1>12, <1>13, <1>14, <1>15, <1>16 DEF Stacked
<1> QED BY <1>8, <1>17 DEF StackInv

(***************************************************************************)
(* The other steps of a frame only move it (run_once.go, runTask).         *)
(***************************************************************************)
LEMMA FrameStack ==
    ASSUME SInv, StackInv, NEW m \in Msg, FrameStep(m)
    PROVE  StackInv'
<1> USE DEF SInv, HoldInv
<1>1. CASE MissedFallback(m) \/ ChildReturn(m)
  BY <1>1, FallbackStack, ChildStack
<1>2. CASE FrameStep(m) /\ ~MissedFallback(m) /\ ~ChildReturn(m)
  <2>1. /\ UNCHANGED <<dispatcherVars, lpc, lcur>>
        /\ pc[m] \notin {"idle", "child", "returned"} /\ pc'[m] # "child"
        /\ \A n \in Msg : n # m => pc'[n] = pc[n] /\ res'[n] = res[n] /\ missed'[n] = missed[n]
    <3>1. CASE TaskBegin(m) \/ TaskOpenLane(m) \/ TurnDrain(m) \/ TurnDeliver(m)
      BY <3>1 DEF TaskBegin, TaskOpenLane, TurnDrain, TurnDeliver, loopVars,
         IInv, TypeOK, FrameTypeOK
    <3>2. CASE TurnDeliverFails(m) \/ TaskClose(m) \/ MissedReject(m)
      BY <3>2 DEF TurnDeliverFails, TaskClose, MissedReject, loopVars,
         IInv, TypeOK, FrameTypeOK
    <3>3. CASE MissedEmpty(m) \/ TaskDone(m) \/ \E r \in Result \ {"none"} : TurnEnd(m, r)
      BY <3>3 DEF MissedEmpty, TaskDone, TurnEnd, loopVars, IInv, TypeOK, FrameTypeOK
    <3> QED BY <1>2, <3>1, <3>2, <3>3 DEF FrameStep
  <2>2. \A n \in Msg : Current(n)' => Current(n)
    BY <2>1 DEF Current
  <2>3. \A n \in Msg : pc'[n] = "child" => n # m /\ pc[n] = "child" /\ missed'[n] = missed[n]
    BY <2>1
  <2>4. \A n \in Msg : pc[n] = "child" => LaneIsServed(n)
    BY DEF StackInv, Stacked
  <2>5. \A n \in Msg : LaneIsServed(n) => LaneIsServed(n)'
    BY <2>1 DEF LaneIsServed, dispatcherVars
  <2> QED BY <2>1, <2>2, <2>3, <2>4, <2>5, StackStay DEF dispatcherVars
<1> QED BY <1>1, <1>2

-----------------------------------------------------------------------------
(* What is left when the loop returns.                                     *)

(***************************************************************************)
(* Submitted messages are with the dispatcher until they have a frame      *)
(* (dispatch.go, submit and launch).                                       *)
(***************************************************************************)
LEMMA ReachStay ==
    ASSUME IInv, ReachInv, UNCHANGED <<dispatcherVars, submitted>>,
           \A n \in Msg : pc[n] # "idle" => pc'[n] # "idle"
    PROVE  ReachInv'
<1> USE DEF dispatcherVars
<1>1. \A x \in Msg : (InPending(x) => InPending(x)') /\ (AtWorker(x) => AtWorker(x)')
  BY DEF InPending, AtWorker
<1> SUFFICES ASSUME NEW x \in submitted
             PROVE  InPending(x)' \/ AtWorker(x)' \/ pc'[x] # "idle"
  BY DEF ReachInv
<1>2. x \in Msg
  BY DEF IInv, TypeOK, LoopTypeOK
<1>3. CASE pc[x] # "idle"
  BY <1>2, <1>3
<1>4. CASE InPending(x) \/ AtWorker(x)
  BY <1>1, <1>2, <1>4
<1> QED BY <1>3, <1>4 DEF ReachInv

LEMMA SubmitReach ==
    ASSUME SInv, ReachInv, LoopSubmit
    PROVE  ReachInv'
<1> USE DEF SInv
<1>m. PICK m \in Msg : m = lcur
  BY DEF LoopSubmit, IInv, HandInv
<1>1. submit(m) /\ submitted' = submitted \cup {m} /\ pc' = pc /\ threadKey(m) \in Lane
  BY <1>m, KeysInRange DEF LoopSubmit, frameVars
<1>2. submitted \subseteq Msg
  BY DEF IInv, TypeOK, LoopTypeOK
<1>3. CASE threadKey(m) \in active
  <2>1. wpc' = wpc /\ wcur' = wcur
        /\ \A k \in Lane : pending'[k] = IF k = threadKey(m) THEN Append(pending[k], m) ELSE pending[k]
    BY <1>1, <1>3 DEF submit, IInv, TypeOK, DispatcherTypeOK
  <2>2. \A k \in Lane : pending[k] \in Seq(Msg)
    BY DEF IInv, TypeOK, DispatcherTypeOK
  <2>3. InPending(m)'
    BY <1>1, <2>1, <2>2, OccursAppend DEF InPending
  <2>4. \A x \in Msg : InPending(x) => InPending(x)'
    BY <1>1, <2>1, <2>2, OccursAppend DEF InPending
  <2>5. \A x \in Msg : AtWorker(x) => AtWorker(x)'
    BY <2>1 DEF AtWorker
  <2> QED BY <1>1, <1>2, <2>3, <2>4, <2>5 DEF ReachInv
<1>4. CASE threadKey(m) \notin active
  <2>1. /\ \A w \in Msg : wpc'[w] = IF w = m THEN "acquire" ELSE wpc[w]
        /\ \A w \in Msg : wcur'[w] = IF w = m THEN m ELSE wcur[w]
        /\ pending' = pending
    BY <1>1, <1>4 DEF submit, IInv, TypeOK, DispatcherTypeOK
  <2>2. wpc[m] # "acquire"
    BY <1>4 DEF IInv, LaneInv, Live
  <2>3. \A x \in Msg : (InPending(x) => InPending(x)') /\ (AtWorker(x) => AtWorker(x)')
    BY <2>1, <2>2 DEF InPending, AtWorker
  <2>4. AtWorker(m)'
    BY <2>1 DEF AtWorker
  <2> QED BY <1>1, <1>2, <2>3, <2>4 DEF ReachInv
<1> QED BY <1>3, <1>4

LEMMA WorkerReach ==
    ASSUME SInv, ReachInv, NEW w \in Msg, WorkerStep(w)
    PROVE  ReachInv'
<1> USE DEF SInv, HoldInv
<1>1. submitted' = submitted /\ submitted \subseteq Msg /\ threadKey(w) \in Lane
  BY KeysInRange DEF WorkerStep, WorkerAcquire, WorkerRelease, WorkerNext, loopVars,
     IInv, TypeOK, LoopTypeOK
<1>2. CASE WorkerAcquire(w)
  <2>1. /\ pending' = pending /\ wcur' = wcur /\ wcur[w] \in Msg
        /\ \A x \in Msg : wpc'[x] = IF x = w THEN "run" ELSE wpc[x]
        /\ \A x \in Msg : pc'[x] = IF x = wcur[w] THEN "begin" ELSE pc[x]
    BY <1>2 DEF WorkerAcquire, acquire, IInv, TypeOK, DispatcherTypeOK, FrameTypeOK
  <2>2. \A x \in Msg : AtWorker(x) => AtWorker(x)' \/ pc'[x] # "idle"
    BY <2>1 DEF AtWorker
  <2>3. \A x \in Msg : (InPending(x) => InPending(x)') /\ (pc[x] # "idle" => pc'[x] # "idle")
    BY <2>1 DEF InPending
  <2> QED BY <1>1, <2>2, <2>3 DEF ReachInv
<1>3. CASE WorkerRelease(w)
  <2>1. pending' = pending /\ wcur' = wcur /\ pc' = pc
        /\ \A x \in Msg : wpc[x] = "acquire" => wpc'[x] = "acquire"
    BY <1>3 DEF WorkerRelease, release, IInv, TypeOK, DispatcherTypeOK
  <2>2. \A x \in Msg : (AtWorker(x) => AtWorker(x)') /\ (InPending(x) => InPending(x)')
    BY <2>1 DEF AtWorker, InPending
  <2> QED BY <1>1, <2>1, <2>2 DEF ReachInv
<1>4. CASE WorkerNext(w)
  <2>0. popOrExit(w) /\ pc' = pc
    BY <1>4 DEF WorkerNext, frameVars
  <2>1. CASE pending[threadKey(w)] = <<>>
    <3>1. pending' = pending /\ wcur' = wcur /\ \A x \in Msg : wpc[x] = "acquire" => wpc'[x] = "acquire"
      BY <2>0, <2>1 DEF popOrExit, IInv, TypeOK, DispatcherTypeOK
    <3>2. \A x \in Msg : (AtWorker(x) => AtWorker(x)') /\ (InPending(x) => InPending(x)')
      BY <3>1 DEF AtWorker, InPending
    <3> QED BY <1>1, <2>0, <3>2 DEF ReachInv
  <2>2. CASE pending[threadKey(w)] # <<>>
    <3> DEFINE k == threadKey(w)
               c == Head(pending[k])
    <3>1. /\ pending[k] \in Seq(Msg) /\ NoRepeat(pending[k]) /\ wpc[w] = "next"
          /\ \A j \in Lane : pending'[j] = IF j = k THEN Tail(pending[j]) ELSE pending[j]
          /\ \A x \in Msg : wpc'[x] = IF x = w THEN "acquire" ELSE wpc[x]
          /\ \A x \in Msg : wcur'[x] = IF x = w THEN c ELSE wcur[x]
      BY <1>1, <2>0, <2>2 DEF popOrExit, IInv, TypeOK, DispatcherTypeOK, SubmitInv
    <3>2. \A x \in Msg : AtWorker(x) => AtWorker(x)'
      BY <3>1 DEF AtWorker
    <3>3. \A x : Occurs(pending[k], x) => Occurs(Tail(pending[k]), x) \/ x = c
      BY <2>2, <3>1, OccursTail
    <3>4. \A x \in Msg : InPending(x) => InPending(x)' \/ (x = c /\ AtWorker(x)')
      <4> SUFFICES ASSUME NEW x \in Msg, NEW j \in Lane, Occurs(pending[j], x)
                   PROVE  InPending(x)' \/ (x = c /\ AtWorker(x)')
        BY DEF InPending
      <4> HIDE DEF k, c
      <4>1. CASE Occurs(pending'[j], x)
        BY <4>1 DEF InPending
      <4>2. CASE ~Occurs(pending'[j], x)
        <5>1. j = k /\ x = c
          BY <3>1, <3>3, <4>2
        <5> QED BY <3>1, <5>1 DEF AtWorker
      <4> QED BY <4>1, <4>2
    <3> QED BY <1>1, <2>0, <3>2, <3>4 DEF ReachInv
  <2> QED BY <2>1, <2>2
<1> QED BY <1>2, <1>3, <1>4 DEF WorkerStep

(***************************************************************************)
(* Every recorded turn is counted once (dispatch.go, launch; loop.go,      *)
(* record).                                                                *)
(***************************************************************************)
LEMMA CountStay ==
    ASSUME CountInv, stats' = stats, submitted' = submitted,
           \A x \in submitted : (pc[x] = "returned" /\ res[x] = "none")
                                <=> (pc'[x] = "returned" /\ res'[x] = "none")
    PROVE  CountInv'
<1>1. Counted' = Counted
  BY DEF Counted
<1> QED BY <1>1 DEF CountInv

LEMMA LoopCount ==
    ASSUME SInv, CountInv, LoopNext
    PROVE  CountInv'
<1> USE DEF SInv, HoldInv
<1> SUFFICES ASSUME ~Serial PROVE CountInv'
  BY DEF CountInv
<1>1. CASE LoopSubmit
  <2>1. lcur \in Msg /\ submitted' = submitted \cup {lcur} /\ UNCHANGED <<stats, pc, res>>
    BY <1>1 DEF LoopSubmit, IInv, HandInv, frameVars
  <2>2. InHand(lcur)
    BY <1>1 DEF LoopSubmit, InHand
  <2>3. pc[lcur] = "idle"
    BY <2>1, <2>2 DEF PlaceInv, Placed
  <2>4. Counted' = Counted
    BY <2>1, <2>3 DEF Counted
  <2> QED BY <2>1, <2>4 DEF CountInv
<1>2. CASE LoopNext /\ ~LoopSubmit
  <2>1. UNCHANGED <<submitted, pc, res, stats>>
    BY <1>2 DEF LoopNext, LoopTop, FetchNothing, FetchError, LoopReturn, FetchTurn, FetchParked,
       FetchMissed, SerialReturn, frameVars, ModeInv
  <2> QED BY <2>1, CountStay
<1> QED BY <1>1, <1>2

LEMMA WorkerCount ==
    ASSUME SInv, CountInv, NEW w \in Msg, WorkerStep(w)
    PROVE  CountInv'
<1> USE DEF SInv, HoldInv
<1>c. PICK c \in Msg : c = wcur[w]
  BY DEF IInv, TypeOK, DispatcherTypeOK
<1>1. CASE WorkerAcquire(w)
  <2>1. /\ AtWorker(c) /\ UNCHANGED <<stats, submitted, res>>
        /\ \A x \in Msg : pc'[x] = IF x = c THEN "begin" ELSE pc[x]
    BY <1>1, <1>c DEF WorkerAcquire, acquire, AtWorker, loopVars, IInv, TypeOK, FrameTypeOK
  <2>2. pc[c] = "idle"
    BY <2>1 DEF PlaceInv, Placed
  <2> QED BY <2>1, <2>2, CountStay DEF IInv, TypeOK, LoopTypeOK
<1>2. CASE WorkerRelease(w)
  <2>1. /\ wpc[w] = "run" /\ pc[c] = "returned" /\ stats' = record(stats, res[c])
        /\ \A x \in Msg : res'[x] = IF x = c THEN "none" ELSE res[x]
        /\ pc' = pc /\ submitted' = submitted /\ submitted \subseteq Msg
    BY <1>2, <1>c DEF WorkerRelease, release, IInv, TypeOK, FrameTypeOK, LoopTypeOK
  <2>2. c \in submitted /\ res[c] \in Result \ {"none"}
    BY <1>c, <2>1 DEF SubmitInv, Live, CurrentInv, Current, IInv, TypeOK, FrameTypeOK
  <2>3. stats'.turns + stats'.errors = stats.turns + stats.errors + 1
    BY <2>1, <2>2 DEF record, Result, IInv, TypeOK, LoopTypeOK
  <2>4. Counted' = Counted \cup {c} /\ c \notin Counted
    BY <2>1, <2>2 DEF Counted
  <2>5. IsFiniteSet(Counted)
    BY <2>1, FS_Subset DEF Counted
  <2>6. Cardinality(Counted') = Cardinality(Counted) + 1
    BY <2>4, <2>5, FS_AddElement
  <2> QED BY <2>3, <2>6 DEF CountInv
<1>3. CASE WorkerNext(w)
  BY <1>3, CountStay DEF WorkerNext, frameVars, loopVars
<1> QED BY <1>1, <1>2, <1>3 DEF WorkerStep

LEMMA FrameCount ==
    ASSUME SInv, CountInv, NEW m \in Msg, FrameStep(m)
    PROVE  CountInv'
<1> USE DEF SInv, HoldInv
<1>0. UNCHANGED <<stats, submitted>> /\ submitted \subseteq Msg
  BY DEF FrameStep, TaskBegin, TaskOpenLane, TurnDrain, TurnDeliver, TurnDeliverFails, TurnEnd,
     TaskClose, MissedFallback, ChildReturn, MissedReject, MissedEmpty, TaskDone, loopVars,
     IInv, TypeOK, LoopTypeOK
<1>1. CASE MissedFallback(m) \/ ChildReturn(m)
  <2>c. PICK c \in Msg : c = Head(missed[m]) /\ Occurs(missed[m], c)
    BY <1>1, OccursHead DEF MissedFallback, ChildReturn, IInv, ChildInv, TypeOK, FrameTypeOK
  <2>1. c \notin submitted
    BY <2>c DEF ListsInv
  <2>2. /\ \A x \in Msg : x \notin {m, c} => pc'[x] = pc[x] /\ res'[x] = res[x]
        /\ pc[m] # "returned" /\ (m # c => pc'[m] # "returned")
    BY <1>1, <2>c DEF MissedFallback, ChildReturn, IInv, TypeOK, FrameTypeOK
  <2> QED BY <1>0, <2>1, <2>2, CountStay
<1>2. CASE FrameStep(m) /\ ~MissedFallback(m) /\ ~ChildReturn(m)
  <2>1. /\ pc[m] # "returned" /\ (pc'[m] = "returned" => res'[m] # "none")
        /\ \A n \in Msg : n # m => pc'[n] = pc[n] /\ res'[n] = res[n]
    <3>1. CASE TaskBegin(m) \/ TaskOpenLane(m) \/ TurnDrain(m) \/ TurnDeliver(m)
      BY <3>1 DEF TaskBegin, TaskOpenLane, TurnDrain, TurnDeliver, IInv, TypeOK, FrameTypeOK
    <3>2. CASE TurnDeliverFails(m) \/ TaskClose(m) \/ MissedReject(m)
      BY <3>2 DEF TurnDeliverFails, TaskClose, MissedReject, IInv, TypeOK, FrameTypeOK
    <3>3. CASE MissedEmpty(m) \/ \E r \in Result \ {"none"} : TurnEnd(m, r)
      BY <3>3 DEF MissedEmpty, TurnEnd, IInv, TypeOK, FrameTypeOK
    <3>4. CASE TaskDone(m)
      BY <3>4 DEF TaskDone, CurrentInv, IInv, TypeOK, FrameTypeOK
    <3> QED BY <1>2, <3>1, <3>2, <3>3, <3>4 DEF FrameStep
  <2> QED BY <1>0, <2>1, CountStay
<1> QED BY <1>1, <1>2

(***************************************************************************)
(* The stacks, what was submitted, the counts and the empty dispatcher of  *)
(* a returned loop, together inductive (loop.go; dispatch.go;              *)
(* run_once.go).                                                           *)
(***************************************************************************)
LEMMA InitQ == Init => QInv
<1> SUFFICES ASSUME Init PROVE QInv
  OBVIOUS
<1>1. SInv
  BY InitInv, InitHold, InitPlace DEF SInv
<1>2. \A n \in Msg : ~Active(n) /\ wpc[n] = "none"
  BY DEF Init, DispatcherInit, Active, Current
<1>3. StackInv
  <2> DEFINE d == [n \in Msg |-> 0]
  <2>1. d \in [Msg -> Nat]
    OBVIOUS
  <2>2. Stacked(d)
    BY <1>2 DEF Stacked, Active, Init
  <2> QED BY <2>1, <2>2 DEF StackInv
<1>4. CountInv
  <2>1. Counted = {}
    BY DEF Counted, Init
  <2> QED BY <2>1, FS_EmptySet DEF CountInv, Init
<1>5. ReachInv /\ NoWorkerInv
  BY DEF ReachInv, NoWorkerInv, Init
<1> QED BY <1>1, <1>3, <1>4, <1>5 DEF QInv

LEMMA NextQInv == QInv /\ [Next]_vars => QInv'
<1> SUFFICES ASSUME QInv, [Next]_vars PROVE QInv'
  OBVIOUS
<1>i. SInv /\ StackInv /\ ReachInv /\ CountInv /\ NoWorkerInv /\ SInv'
  BY NextSInv DEF QInv
<1>t. ModeInv /\ IInv
  BY <1>i DEF SInv, HoldInv
<1>1. CASE LoopNext
  <2>1. StackInv' /\ CountInv'
    BY <1>1, <1>i, LoopStack, LoopCount
  <2>2. ReachInv'
    <3>1. CASE LoopSubmit
      BY <1>i, <3>1, SubmitReach
    <3>2. CASE LoopNext /\ ~LoopSubmit
      <4>1. UNCHANGED <<dispatcherVars, submitted>> /\ \A n \in Msg : pc[n] # "idle" => pc'[n] # "idle"
        BY <1>t, <3>2 DEF LoopNext, LoopTop, FetchNothing, FetchError, LoopReturn, FetchTurn,
           FetchParked, FetchMissed, SerialReturn, frameVars, IInv, TypeOK, FrameTypeOK
      <4> QED BY <1>i, <1>t, <4>1, ReachStay
    <3> QED BY <1>1, <3>1, <3>2
  <2>3. NoWorkerInv'
    <3> SUFFICES ASSUME lpc' = "returned" PROVE \A w \in Msg : ~Live(w)'
      BY DEF NoWorkerInv
    <3>1. UNCHANGED dispatcherVars /\ (Serial \/ allWorkersDone)
      <4>1. CASE LoopTop
        BY <4>1 DEF LoopTop
      <4>2. CASE FetchError
        BY <4>2 DEF FetchError
      <4>3. CASE SerialReturn
        BY <1>t, <4>3 DEF SerialReturn, ModeInv
      <4>4. CASE FetchNothing \/ LoopSubmit \/ LoopReturn
        BY <4>4 DEF FetchNothing, LoopSubmit, LoopReturn
      <4>5. ASSUME NEW m \in Msg, FetchTurn(m) \/ FetchParked(m) \/ FetchMissed(m)
            PROVE  UNCHANGED dispatcherVars /\ (Serial \/ allWorkersDone)
        BY <4>5 DEF FetchTurn, FetchParked, FetchMissed
      <4> QED BY <1>1, <4>1, <4>2, <4>3, <4>4, <4>5 DEF LoopNext
    <3> QED BY <1>t, <3>1 DEF ModeInv, allWorkersDone, Live, dispatcherVars
  <2> QED BY <1>i, <2>1, <2>2, <2>3 DEF QInv
<1>2. ASSUME NEW w \in Msg, WorkerStep(w) PROVE QInv'
  <2>1. StackInv' /\ CountInv' /\ ReachInv'
    BY <1>2, <1>i, WorkerStack, WorkerCount, WorkerReach
  <2>2. NoWorkerInv'
    <3>1. lpc' = lpc /\ Live(w)
      BY <1>2 DEF WorkerStep, WorkerAcquire, WorkerRelease, WorkerNext, acquire, release, popOrExit,
         loopVars, Live
    <3> QED BY <1>2, <1>i, <3>1 DEF NoWorkerInv
  <2> QED BY <1>i, <2>1, <2>2 DEF QInv
<1>3. ASSUME NEW m \in Msg, FrameStep(m) PROVE QInv'
  <2>1. StackInv' /\ CountInv'
    BY <1>3, <1>i, FrameStack, FrameCount
  <2>2. UNCHANGED <<dispatcherVars, submitted, lpc>> /\ \A n \in Msg : pc[n] # "idle" => pc'[n] # "idle"
    <3>1. CASE TaskBegin(m) \/ TaskOpenLane(m) \/ TurnDrain(m) \/ TurnDeliver(m)
      BY <1>t, <3>1 DEF TaskBegin, TaskOpenLane, TurnDrain, TurnDeliver, loopVars,
         IInv, TypeOK, FrameTypeOK
    <3>2. CASE TurnDeliverFails(m) \/ TaskClose(m) \/ MissedReject(m) \/ MissedEmpty(m)
      BY <1>t, <3>2 DEF TurnDeliverFails, TaskClose, MissedReject, MissedEmpty, loopVars,
         IInv, TypeOK, FrameTypeOK
    <3>3. CASE TaskDone(m) \/ \E r \in Result \ {"none"} : TurnEnd(m, r)
      BY <1>t, <3>3 DEF TaskDone, TurnEnd, loopVars, IInv, TypeOK, FrameTypeOK
    <3>4. CASE MissedFallback(m) \/ ChildReturn(m)
      BY <1>t, <3>4 DEF MissedFallback, ChildReturn, loopVars, IInv, TypeOK, FrameTypeOK
    <3> QED BY <1>3, <3>1, <3>2, <3>3, <3>4 DEF FrameStep
  <2>3. ReachInv' /\ NoWorkerInv'
    BY <1>i, <1>t, <2>2, ReachStay DEF NoWorkerInv, Live, dispatcherVars
  <2> QED BY <1>i, <2>1, <2>3 DEF QInv
<1>4. CASE CtxCancel \/ (\E t \in Task : CancelTask(t)) \/ UNCHANGED vars
  <2>1. UNCHANGED <<dispatcherVars, lpc, lcur, submitted, stats, pc, res, missed>>
    BY <1>4 DEF CtxCancel, CancelTask, vars, loopVars, frameVars
  <2>2. \A n \in Msg : (Current(n)' <=> Current(n)) /\ (LaneIsServed(n)' <=> LaneIsServed(n))
    BY <2>1 DEF Current, LaneIsServed, dispatcherVars
  <2>3. \A n \in Msg : pc[n] = "child" => LaneIsServed(n)
    BY <1>i DEF StackInv, Stacked
  <2>4. StackInv'
    BY <1>i, <2>1, <2>2, <2>3, StackStay DEF dispatcherVars
  <2>5. ReachInv' /\ CountInv' /\ NoWorkerInv'
    BY <1>i, <1>t, <2>1, ReachStay, CountStay DEF NoWorkerInv, Live, dispatcherVars
  <2> QED BY <1>i, <2>4, <2>5 DEF QInv
<1> QED BY <1>1, <1>2, <1>3, <1>4 DEF Next, Terminated

(***************************************************************************)
(* When the loop has returned, nothing it started is going, nothing is     *)
(* parked and every submitted turn is in the stats (loop.go: the           *)
(* dispatcher's wait before every return).                                 *)
(***************************************************************************)
THEOREM ReturnedLoopIsQuiescent == Spec => []ReturnIsQuiescent
<1>1. QInv => ReturnIsQuiescent
  <2> SUFFICES ASSUME QInv, lpc = "returned"
               PROVE  /\ \A m \in Msg : ~Started(m) /\ ~Live(m) /\ parked[m] = <<>>
                      /\ ~Serial => stats.turns + stats.errors = Cardinality(submitted)
    BY DEF ReturnIsQuiescent
  <2> USE DEF QInv, SInv, HoldInv
  <2>1. \A w \in Msg : ~Live(w)
    BY DEF NoWorkerInv
  <2>2. \A n \in Msg : ~LaneIsServed(n)
    BY <2>1 DEF LaneIsServed, Live
  <2>3. \A n \in Msg : ~Active(n)
    BY <2>2 DEF Active, CurrentInv, StackInv, Stacked
  <2>4. \A n \in Msg : ~Started(n) /\ parked[n] = <<>>
    BY <2>3 DEF Active, Current, Started, ListsInv, LaneOpen
  <2>5. \A m \in Msg : ~InPending(m) /\ ~AtWorker(m)
    <3>1. \A k \in Lane : pending[k] = <<>>
      BY <2>1 DEF IInv, LaneInv
    <3> QED BY <2>1, <3>1, OccursEmpty DEF InPending, AtWorker, Live
  <2>6. submitted \subseteq Msg
    BY DEF IInv, TypeOK, LoopTypeOK
  <2>7. \A m \in submitted : pc[m] = "returned" /\ res[m] = "none"
    BY <2>3, <2>4, <2>5, <2>6 DEF ReachInv, Started, Active, Current
  <2>8. Counted = submitted
    BY <2>7 DEF Counted
  <2> QED BY <2>1, <2>4, <2>8 DEF CountInv
<1> QED BY <1>1, InitQ, NextQInv, PTL DEF Spec

=============================================================================
