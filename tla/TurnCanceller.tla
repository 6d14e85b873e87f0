---------------------------- MODULE TurnCanceller ----------------------------
(***************************************************************************)
(* pkg/turncancel/turncancel.go: cancel funcs of active turns by task id.  *)
(* A cancel func is named by the message whose turn it aborts; calling it  *)
(* puts that message in cancelled (a done context stays done).             *)
(***************************************************************************)
EXTENDS Addressing

VARIABLES registered,   \* the cancel func registered under each task id
          cancelled     \* turns whose own context has been cancelled

cancellerVars == <<registered, cancelled>>

CancellerTypeOK ==
    /\ registered \in [Task -> Msg \cup {None}]
    /\ cancelled \subseteq Msg

CancellerInit ==
    /\ registered = [t \in Task |-> None]
    /\ cancelled = {}

CancellerBegin(m) ==
    LET t == TaskOf(m) IN
    IF t = NoTask
    THEN UNCHANGED cancellerVars
    ELSE /\ cancelled' = cancelled \cup ({registered[t]} \ {None})
         /\ registered' = [registered EXCEPT ![t] = m]

\* A done func that empties the table.
CancellerDoneClearsAll(m) ==
    IF TaskOf(m) = NoTask
    THEN UNCHANGED cancellerVars
    ELSE /\ registered' = [t \in Task |-> None]
         /\ cancelled' = cancelled \cup {m}

\* The done func: whatever is registered under the task id is removed.
CancellerDone(m) ==
    LET t == TaskOf(m) IN
    IF t = NoTask
    THEN UNCHANGED cancellerVars
    ELSE /\ registered' = [registered EXCEPT ![t] = None]
         /\ cancelled' = cancelled \cup {m}

CancellerCancel(t) ==
    /\ cancelled' = cancelled \cup ({registered[t]} \ {None})
    /\ UNCHANGED registered

=============================================================================
