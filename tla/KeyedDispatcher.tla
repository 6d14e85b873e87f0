--------------------------- MODULE KeyedDispatcher ---------------------------
(***************************************************************************)
(* pkg/runtime/dispatch.go: turns of one lane run one at a time in submit  *)
(* order; turns of different lanes run concurrently, at most Concurrency   *)
(* of them.  A worker goroutine is named by the message it was launched    *)
(* for (a message launches at most one), so nothing in the state forbids   *)
(* two workers of one lane: that there is never more than one is checked.  *)
(***************************************************************************)
EXTENDS Addressing

CONSTANT Concurrency

ASSUME ConcurrencyAssumption == Concurrency \in Nat \ {0}

VARIABLES active,    \* lanes marked as being processed
          pending,   \* the messages queued behind each lane's running one
          wpc,       \* where each worker goroutine is
          wcur,      \* the message each worker is processing
          sem        \* permits taken from the semaphore channel

dispatcherVars == <<active, pending, wpc, wcur, sem>>

WorkerPC == {"none", "acquire", "run", "next", "exited"}

Live(w) == wpc[w] \in {"acquire", "run", "next"}

DispatcherTypeOK ==
    /\ active \subseteq Lane
    /\ pending \in [Lane -> Seq(Msg)]
    /\ wpc \in [Msg -> WorkerPC]
    /\ wcur \in [Msg -> Msg]
    /\ sem \in 0..Concurrency

DispatcherInit ==
    /\ active = {}
    /\ pending = [k \in Lane |-> <<>>]
    /\ wpc = [w \in Msg |-> "none"]
    /\ wcur = [w \in Msg |-> w]
    /\ sem = 0

submit(m) ==
    LET k == threadKey(m) IN
    IF k \in active
    THEN /\ pending' = [pending EXCEPT ![k] = Append(@, m)]
         /\ UNCHANGED <<active, wpc, wcur, sem>>
    ELSE /\ active' = active \cup {k}
         /\ wpc' = [wpc EXCEPT ![m] = "acquire"]
         /\ wcur' = [wcur EXCEPT ![m] = m]
         /\ UNCHANGED <<pending, sem>>

\* A semaphore of the wrong capacity.
acquireUnbounded(w) ==
    /\ wpc[w] = "acquire"
    /\ sem' = sem + 1
    /\ wpc' = [wpc EXCEPT ![w] = "run"]
    /\ UNCHANGED <<active, pending, wcur>>

\* launch: the worker takes a permit before it runs its message.
acquire(w) ==
    /\ wpc[w] = "acquire"
    /\ sem < Concurrency
    /\ sem' = sem + 1
    /\ wpc' = [wpc EXCEPT ![w] = "run"]
    /\ UNCHANGED <<active, pending, wcur>>

\* A worker that goes back to its lane with the permit still in its hand.
releaseKeepsPermit(w) ==
    /\ wpc[w] = "run"
    /\ wpc' = [wpc EXCEPT ![w] = "next"]
    /\ UNCHANGED <<active, pending, wcur, sem>>

release(w) ==
    /\ wpc[w] = "run"
    /\ sem' = sem - 1
    /\ wpc' = [wpc EXCEPT ![w] = "next"]
    /\ UNCHANGED <<active, pending, wcur>>

\* Taking the newest queued message instead of the oldest.
popOrExitNewest(w) ==
    LET k == threadKey(w) IN
    /\ wpc[w] = "next"
    /\ IF pending[k] = <<>>
       THEN /\ active' = active \ {k}
            /\ wpc' = [wpc EXCEPT ![w] = "exited"]
            /\ UNCHANGED <<pending, wcur, sem>>
       ELSE /\ wcur' = [wcur EXCEPT ![w] = pending[k][Len(pending[k])]]
            /\ pending' = [pending EXCEPT ![k] = SubSeq(@, 1, Len(@) - 1)]
            /\ wpc' = [wpc EXCEPT ![w] = "acquire"]
            /\ UNCHANGED <<active, sem>>

\* Leaving without looking at the queue again under the lock.
popOrExitBlind(w) ==
    /\ wpc[w] = "next"
    /\ active' = active \ {threadKey(w)}
    /\ wpc' = [wpc EXCEPT ![w] = "exited"]
    /\ UNCHANGED <<pending, wcur, sem>>

popOrExit(w) ==
    LET k == threadKey(w) IN
    /\ wpc[w] = "next"
    /\ IF pending[k] = <<>>
       THEN /\ active' = active \ {k}
            /\ wpc' = [wpc EXCEPT ![w] = "exited"]
            /\ UNCHANGED <<pending, wcur, sem>>
       ELSE /\ wcur' = [wcur EXCEPT ![w] = Head(pending[k])]
            /\ pending' = [pending EXCEPT ![k] = Tail(@)]
            /\ wpc' = [wpc EXCEPT ![w] = "acquire"]
            /\ UNCHANGED <<active, sem>>

\* wait: the WaitGroup is at zero.
allWorkersDone == \A w \in Msg : ~Live(w)

=============================================================================
