------------------------------ MODULE LaneQueue ------------------------------
(***************************************************************************)
(* What pkg/runtime/dispatch.go promises: each lane is a FIFO queue with a *)
(* single server, at most Concurrency servers are busy, a message is       *)
(* accepted once and served once, after everything accepted before it on   *)
(* its lane has been served.                                               *)
(***************************************************************************)
EXTENDS Addressing

CONSTANT Concurrency

VARIABLES queue, serving, accepted

Busy == {k \in Lane : serving[k] # None}

Init ==
    /\ queue = [k \in Lane |-> <<>>]
    /\ serving = [k \in Lane |-> None]
    /\ accepted = {}

Accept(m) ==
    /\ m \notin accepted
    /\ accepted' = accepted \cup {m}
    /\ queue' = [queue EXCEPT ![threadKey(m)] = Append(@, m)]
    /\ UNCHANGED serving

Serve(k) ==
    /\ serving[k] = None /\ queue[k] # <<>>
    /\ Cardinality(Busy) < Concurrency
    /\ serving' = [serving EXCEPT ![k] = Head(queue[k])]
    /\ queue' = [queue EXCEPT ![k] = Tail(@)]
    /\ UNCHANGED accepted

Complete(k) ==
    /\ serving[k] # None
    /\ serving' = [serving EXCEPT ![k] = None]
    /\ UNCHANGED <<queue, accepted>>

Next == \/ \E m \in Msg : Accept(m)
        \/ \E k \in Lane : Serve(k) \/ Complete(k)

Spec == Init /\ [][Next]_<<queue, serving, accepted>>

=============================================================================
