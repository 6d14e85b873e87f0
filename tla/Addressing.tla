----------------------------- MODULE Addressing -----------------------------
(***************************************************************************)
(* How an inbound message finds its lane.  pkg/steering spells two keys    *)
(* from a message address: AddressKey names the steering lane a running    *)
(* turn opens, ConversationKey the dispatcher lane turns queue on.         *)
(*                                                                         *)
(* A thread stands for a (tenant, workspace, thread) triple; NoThread is   *)
(* the empty thread id of a new chat.  The length-prefixed concatenation   *)
(* of steering.Key is an injective encoding, so a key is the tuple of its  *)
(* parts.  "" is the empty field of the Go struct.                         *)
(***************************************************************************)
EXTENDS Naturals, Sequences, FiniteSets

CONSTANTS Msg,        \* every message the task source will ever deliver
          Task,       \* task ids
          NoTask,     \* the empty task id
          Thread,     \* conversation threads, NoThread among them or not
          NoThread,   \* a thread id that is still to be minted
          User,       \* caller identities
          AddrOf,     \* the address each message carries
          KindOf,     \* plain input, a steering send, or a shell result
          None        \* "no message"

Address == [user : User, owner : {"", "user", "workspace"}, thread : Thread,
            task : Task \cup {NoTask}]

Kinds == {"plain", "steer", "shell"}

ASSUME AddressingAssumption ==
    /\ IsFiniteSet(Msg)
    /\ AddrOf \in [Msg -> Address]
    /\ KindOf \in [Msg -> Kinds]
    /\ None \notin Msg
    /\ NoTask \notin Task

AddressKey(a) ==
    IF a.user = "" /\ a.owner = ""
    THEN <<"", "", a.thread>>
    ELSE <<a.user, IF a.owner = "" THEN "user" ELSE a.owner, a.thread>>

\* Without the ownership test every caller of a shared transcript keeps a lane
\* of its own.
ConversationKeyPerUser(a) == AddressKey(a)

ConversationKey(a) ==
    AddressKey(IF a.owner = "workspace" THEN [a EXCEPT !.user = ""] ELSE a)

\* turnAddress: every transport fills the envelope from the message address.
turnAddress(m) == AddrOf[m]

threadKey(m) == ConversationKey(turnAddress(m))

InboxKey(m) == AddressKey(turnAddress(m))

\* turn.Runner.Run mints a fresh thread for a message without one (m itself
\* stands for the id minted by m's turn) and keys everything off the result.
ResolvedAddr(m) ==
    IF AddrOf[m].thread = NoThread THEN [AddrOf[m] EXCEPT !.thread = m]
    ELSE AddrOf[m]

\* Draining under the bare thread, without the caller's identity.
DrainKeyBare(m) == <<"", "", AddrOf[m].thread>>

DrainKey(m) == AddressKey(ResolvedAddr(m))

TaskOf(m) == turnAddress(m).task

Lane == {threadKey(m) : m \in Msg}
Key  == {InboxKey(m) : m \in Msg}

IsSteering(m) == KindOf[m] # "plain"

\* Shell results carry structured shell context: they fall back to a turn.
IsShell(m) == KindOf[m] = "shell"

=============================================================================
