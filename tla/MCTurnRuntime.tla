---------------------------- MODULE MCTurnRuntime ----------------------------
(***************************************************************************)
(* Instances of TurnRuntime for TLC.  p and q are plain messages, s a      *)
(* steering send, h a shell result.                                        *)
(***************************************************************************)
EXTENDS TurnRuntime

CONSTANTS p1, q1, s1, h1, p2, p3, tA, tB, tC, k1, k2, u, v

At(user, owner, thread, task) ==
    [user |-> user, owner |-> owner, thread |-> thread, task |-> task]

Kind(m) == CASE m \in {p1, q1, p2, p3} -> "plain"
             [] m = s1              -> "steer"
             [] m = h1              -> "shell"

MCKind == [m \in Msg |-> Kind(m)]

\* One conversation without task ids: two turns, steering, a shell result.
LiveAddr == [m \in Msg |-> At(u, "user", tA, NoTask)]

\* A workspace-owned conversation with a turn of each user and a shell
\* result of the first; two more threads.
LanesAddr ==
    [m \in Msg |->
        CASE m = p1 -> At(u, "workspace", tA, k1)
          [] m = q1 -> At(v, "workspace", tA, NoTask)
          [] m = p2 -> At(u, "user", tB, k2)
          [] m = p3 -> At(u, "user", tC, NoTask)
          [] OTHER  -> At(u, "workspace", tA, NoTask)]

\* A new chat: the client has no thread id yet.
NewChatAddr ==
    [m \in Msg |-> At("", "", NoThread, NoTask)]

\* FetchError and SerialReturn are steps of a serial loop: with several
\* workers this is FairSpec.
ConcurrentNext ==
    \/ LoopTop \/ FetchNothing \/ LoopSubmit \/ LoopReturn
    \/ \E m \in Msg :
          \/ FetchTurn(m) \/ FetchParked(m) \/ FetchMissed(m)
          \/ WorkerStep(m) \/ FrameStep(m)
    \/ \E t \in Task : CancelTask(t)
    \/ CtxCancel
    \/ Terminated

ConcurrentSpec == Init /\ [][ConcurrentNext]_vars /\ Fairness
=============================================================================
