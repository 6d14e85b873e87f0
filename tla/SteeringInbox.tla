---------------------------- MODULE SteeringInbox ----------------------------
(***************************************************************************)
(* pkg/steering/steering.go, type Inbox: messages parked for turns that    *)
(* are running.  An entry is named by the message whose turn opened it (a  *)
(* message opens at most one), which is the pointer identity the close     *)
(* func compares.                                                          *)
(***************************************************************************)
EXTENDS Addressing

VARIABLES entry,    \* the entry registered under each key, or None
          parked    \* the messages parked on each entry

inboxVars == <<entry, parked>>

InboxTypeOK ==
    /\ entry \in [Key -> Msg \cup {None}]
    /\ parked \in [Msg -> Seq(Msg)]

InboxInit ==
    /\ entry = [k \in Key |-> None]
    /\ parked = [m \in Msg |-> <<>>]

InboxBegin(m) ==
    /\ entry' = [entry EXCEPT ![InboxKey(m)] = m]
    /\ parked' = [parked EXCEPT ![m] = <<>>]

InboxClose(m) ==
    /\ entry' = [entry EXCEPT ![InboxKey(m)] = IF @ = m THEN None ELSE @]
    /\ parked' = [parked EXCEPT ![m] = <<>>]

\* Park reports false when no turn is running on the key; then nothing changes.
CanPark(m) == entry[InboxKey(m)] # None

Park(m) ==
    /\ CanPark(m)
    /\ parked' = [parked EXCEPT ![entry[InboxKey(m)]] = Append(@, m)]
    /\ UNCHANGED entry

\* What Drain(key) returns, and the queue it empties.
Drained(k) == IF k \in Key /\ entry[k] # None THEN parked[entry[k]] ELSE <<>>

Drain(k) ==
    /\ parked' = IF Drained(k) # <<>>
                 THEN [parked EXCEPT ![entry[k]] = <<>>]
                 ELSE parked
    /\ UNCHANGED entry

=============================================================================
