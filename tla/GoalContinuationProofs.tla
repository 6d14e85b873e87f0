----------------------- MODULE GoalContinuationProofs -----------------------
(***************************************************************************)
(* The continuations of a goal, for any number of workers, turns, answers  *)
(* of the verifier, faults and crashes: follow-ups are planned before they *)
(* exist, within the limit, and run at most once.                          *)
(*                                                                         *)
(* The argument for the limit: a turn decides on a copy of the ledger, but *)
(* a worker has one turn at a time, so that its copy has every plan of its *)
(* own worker (BoundInv).  Once the limit is reached nobody new finds room *)
(* under it; those that still have a copy with room (Contender) are on     *)
(* other workers, one each, and each can add one plan.  The argument for   *)
(* the runs: a queued follow-up is in at most one place of its own         *)
(* worker's inbox (ProcInv), and has not run (TaskInv).                    *)
(***************************************************************************)
EXTENDS GoalContinuation, FiniteSetTheorems, WellFoundedInduction, TLAPS

GoalActions == {"none", "plan", "block", "complete", "stop"}
GoalReasons == {"none", "wrap_up", "budget", "max", "active", "terminal", "verifier_satisfied",
                "verifier_failed", "admission_failed"}
TurnRecord == [pc : {"new", "running", "listed", "updating", "deciding", "planned", "confirming",
                     "ending", "done", "lost"},
               worker : GoalWorker \cup {NoWorker}, tracked : BOOLEAN, read : Nat,
               over : BOOLEAN, outcome : GoalActions \X GoalReasons,
               child : 0 .. MaxGoalTurns, admitted : BOOLEAN]
DecisionRecord == [turn : GoalTurns, worker : GoalWorker,
                   action : {Planned, Admitted, Stopped, CompletedGoal}, reason : GoalReasons,
                   over : BOOLEAN, child : 0 .. MaxGoalTurns]
Process == [up : BOOLEAN, inbox : Seq(GoalTurns), seen : SUBSET GoalTurns,
            offers : SUBSET GoalTurns, handling : SUBSET GoalTurns]

TypeInv ==
    /\ goal \in [status : GoalStatuses, charged : SUBSET GoalTurns]
    /\ decisions \in Seq(DecisionRecord)
    /\ goalTurn \in [GoalTurns -> TurnRecord]
    /\ followUp \in [GoalTurns -> [state : {"none", "queued", "running", "over"},
                                   worker : GoalWorker \cup {NoWorker}]]
    /\ goalProc \in [GoalWorker -> Process]
    /\ goalRuns \in [GoalTurns -> Nat]

\* A turn runs on one worker that is up, and on it no other.
TurnInv ==
    /\ \A t \in GoalTurns :
          /\ goalTurn[t].pc = "new" <=> goalRuns[t] = 0
          /\ goalRuns[t] <= 1
          /\ InProgress(t) => goalTurn[t].worker \in GoalWorker /\ goalProc[goalTurn[t].worker].up
    /\ \A t, u \in GoalTurns :
          InProgress(t) /\ InProgress(u) /\ goalTurn[t].worker = goalTurn[u].worker => t = u

\* The task of a follow-up: planned before, and run only once it left the
\* queue.
TaskInv ==
    \A c \in GoalTurns :
        /\ c <= UserTurns => followUp[c].state = "none"
        /\ followUp[c].state = "none" /\ c > UserTurns => goalRuns[c] = 0
        /\ followUp[c].state = "queued" => goalRuns[c] = 0
        /\ followUp[c].state # "none" => HasPlan(c) /\ followUp[c].worker \in GoalWorker
        /\ \A t \in GoalTurns :
              goalTurn[t].pc = "planned" /\ goalTurn[t].child = c =>
                  /\ c > UserTurns /\ HasPlan(c) /\ followUp[c].state = "none"
                  /\ \A u \in GoalTurns :
                        goalTurn[u].pc = "planned" /\ goalTurn[u].child = c => u = t
        /\ \A t \in GoalTurns : goalTurn[t].pc = "planned" => goalTurn[t].child # 0

\* A worker knows only its own tasks, and has a queued one at one place.
ProcInv ==
    \A w \in GoalWorker :
        LET p == goalProc[w]
        IN  /\ \A c \in p.offers \cup p.seen : followUp[c].state # "none" /\ followUp[c].worker = w
            /\ p.handling \subseteq p.seen
            /\ \A k \in DOMAIN p.inbox :
                  /\ p.inbox[k] \in p.seen \ p.handling /\ followUp[p.inbox[k]].state = "queued"
                  /\ \A j \in DOMAIN p.inbox : p.inbox[j] = p.inbox[k] => j = k

Undecided(t) == goalTurn[t].pc \in {"listed", "updating", "deciding"}

\* The plans in the copy of the ledger a turn has.
PlansBefore(t) == {i \in 1 .. goalTurn[t].read : decisions[i].action = Planned}

HasRoom(t) == Undecided(t) /\ Cardinality(PlansBefore(t)) < MaxContinuations

Contender == {w \in GoalWorker : \E t \in GoalTurns : HasRoom(t) /\ goalTurn[t].worker = w}

FollowUps == {i \in PlansIn(decisions) : ~decisions[i].over}

BoundInv ==
    /\ \A t \in GoalTurns :
          /\ Undecided(t) =>
                /\ goalTurn[t].read <= Len(decisions)
                /\ \A i \in DOMAIN decisions :
                      decisions[i].action = Planned /\ decisions[i].worker = goalTurn[t].worker
                          => i <= goalTurn[t].read
          /\ goalTurn[t].pc = "updating" => goalTurn[t].outcome[1] \in {"block", "complete"}
          /\ goalTurn[t].pc = "deciding" /\ goalTurn[t].outcome[1] = "plan" /\ ~goalTurn[t].over
                => Cardinality(PlansBefore(t)) < MaxContinuations
    /\ Cardinality(FollowUps) >= MaxContinuations =>
          Cardinality(FollowUps) + Cardinality(Contender)
              <= MaxContinuations + Cardinality(GoalWorker) - 1
    /\ \A w \in GoalWorker :
          Cardinality({i \in FollowUps : decisions[i].worker = w}) <= MaxContinuations

GoalInv == TypeInv /\ TurnInv /\ TaskInv /\ ProcInv /\ BoundInv

-----------------------------------------------------------------------------
(* Facts about the operators of the model. *)

USE DEF GoalTurns

LEMMA LeastExists ==
  ASSUME NEW S, S \subseteq Nat, S # {}
  PROVE  \E n \in S : \A m \in S : n <= m
<1> DEFINE less == OpToRel(<, Nat)
<1>1. IsWellFoundedOn(less, Nat)
  BY NatLessThanWellFounded
<1> HIDE DEF less
<1>2. PICK n \in S : \A m \in S : <<m, n>> \notin less
  BY <1>1, WFMin
<1>3. ASSUME NEW m \in Nat, NEW k \in Nat, m < k
      PROVE  <<m, k>> \in less
  BY <1>3 DEF less, OpToRel
<1>4. ASSUME NEW m \in S
      PROVE  n <= m
  <2>1. m \in Nat /\ n \in Nat /\ ~ (m < n)
    BY <1>2, <1>3
  <2> QED BY <2>1
<1> QED BY <1>4

LEMMA HeadAndTail ==
  ASSUME NEW S, NEW s \in Seq(S), s # <<>>
  PROVE  /\ Tail(s) \in Seq(S) /\ 1 \in DOMAIN s /\ s[1] = Head(s)
         /\ \A k \in DOMAIN s : s[k] \in S
         /\ \A k \in DOMAIN Tail(s) : /\ k \in Nat /\ k + 1 # 1 /\ k + 1 \in DOMAIN s
                                      /\ Tail(s)[k] = s[k + 1]
<1>1. DOMAIN s = 1 .. Len(s) /\ Len(s) \in Nat /\ Len(s) # 0
  OBVIOUS
<1>2. Tail(s) \in Seq(S) /\ s[1] = Head(s)
  OBVIOUS
<1>3. DOMAIN Tail(s) = 1 .. Len(s) - 1 /\ \A k \in 1 .. Len(s) - 1 : Tail(s)[k] = s[k + 1]
  BY <1>1
<1>4. \A k \in 1 .. Len(s) : s[k] \in S
  OBVIOUS
<1> QED BY <1>1, <1>2, <1>3, <1>4

LEMMA PutLast ==
  ASSUME NEW S, NEW s \in Seq(S), NEW e \in S, NEW a, a = Append(s, e)
  PROVE  /\ a \in Seq(S) /\ DOMAIN a = 1 .. Len(s) + 1 /\ DOMAIN s = 1 .. Len(s)
         /\ Len(s) \in Nat /\ a[Len(s) + 1] = e /\ \A k \in 1 .. Len(s) : a[k] = s[k]
OBVIOUS

\* The id of a new follow-up is one nobody has used.
LEMMA NewChild ==
  ASSUME GoalInv, UnusedTurns # {}, NEW x,
         x = CHOOSE c \in UnusedTurns : \A d \in UnusedTurns : c <= d
  PROVE  /\ x \in GoalTurns /\ x > UserTurns /\ x # 0
         /\ \A t \in GoalTurns : goalTurn[t].child # x
         /\ \A i \in DOMAIN decisions : decisions[i].child # x
<1>1. UnusedTurns \subseteq Nat
  BY GoalAssumption DEF UnusedTurns
<1>2. \E c \in UnusedTurns : \A d \in UnusedTurns : c <= d
  BY <1>1, LeastExists
<1>3. x \in UnusedTurns
  BY <1>2
<1>4. x \in UserTurns + 1 .. MaxGoalTurns
      /\ (\A t \in GoalTurns : goalTurn[t].child # x)
      /\ x \notin {decisions[i].child : i \in DOMAIN decisions}
  BY <1>3 DEF UnusedTurns
<1>5. x \in GoalTurns /\ x > UserTurns /\ x # 0
  BY <1>4, GoalAssumption
<1> QED BY <1>4, <1>5

LEMMA ChangedTurn ==
  ASSUME TypeInv, NEW t \in GoalTurns, NEW r \in TurnRecord,
         goalTurn' = [goalTurn EXCEPT ![t] = r]
  PROVE  /\ goalTurn' \in [GoalTurns -> TurnRecord] /\ goalTurn'[t] = r
         /\ \A u \in GoalTurns : u # t => goalTurn'[u] = goalTurn[u]
  BY DEF TypeInv

LEMMA PlannedRecord ==
  ASSUME TypeInv, NEW t \in GoalTurns, NEW x
  PROVE  [goalTurn EXCEPT ![t].pc = "planned", ![t].child = x]
            = [goalTurn EXCEPT ![t] = [goalTurn[t] EXCEPT !.pc = "planned", !.child = x]]
BY DEF TypeInv

LEMMA Appended ==
  ASSUME TypeInv, NEW d \in DecisionRecord, decisions' = Append(decisions, d)
  PROVE  /\ decisions' \in Seq(DecisionRecord) /\ Len(decisions) \in Nat
         /\ DOMAIN decisions = 1 .. Len(decisions) /\ DOMAIN decisions' = 1 .. Len(decisions) + 1
         /\ Len(decisions') = Len(decisions) + 1 /\ decisions'[Len(decisions) + 1] = d
         /\ \A i \in 1 .. Len(decisions) : decisions'[i] = decisions[i]
  BY DEF TypeInv

LEMMA PlansFinite ==
  ASSUME TypeInv
  PROVE  /\ DOMAIN decisions = 1 .. Len(decisions) /\ Len(decisions) \in Nat
         /\ IsFiniteSet(FollowUps) /\ Cardinality(FollowUps) \in Nat
         /\ \A w : /\ IsFiniteSet({i \in FollowUps : decisions[i].worker = w})
                   /\ Cardinality({i \in FollowUps : decisions[i].worker = w}) \in Nat
         /\ IsFiniteSet(Contender) /\ Cardinality(Contender) \in Nat
         /\ Cardinality(GoalWorker) \in Nat
         /\ \A t \in GoalTurns : IsFiniteSet(PlansBefore(t)) /\ Cardinality(PlansBefore(t)) \in Nat
<1>1. decisions \in Seq(DecisionRecord) /\ Len(decisions) \in Nat
      /\ DOMAIN decisions = 1 .. Len(decisions)
  BY DEF TypeInv
<1>2. IsFiniteSet(1 .. Len(decisions))
  BY <1>1, FS_Interval
<1>3. IsFiniteSet(FollowUps)
  BY <1>1, <1>2, FS_Subset DEF FollowUps, PlansIn
<1>4. \A w : IsFiniteSet({i \in FollowUps : decisions[i].worker = w})
  BY <1>3, FS_Subset
<1>5. IsFiniteSet(GoalWorker) /\ IsFiniteSet(Contender)
  BY GoalAssumption, FS_Subset DEF Contender
<1>6. ASSUME NEW t \in GoalTurns
      PROVE  IsFiniteSet(PlansBefore(t))
  <2>1. goalTurn[t].read \in Nat
    BY DEF TypeInv, TurnRecord
  <2>2. IsFiniteSet(1 .. goalTurn[t].read)
    BY <2>1, FS_Interval
  <2> QED BY <2>2, FS_Subset DEF PlansBefore
<1> QED BY <1>1, <1>3, <1>4, <1>5, <1>6, FS_CardinalityType

-----------------------------------------------------------------------------
(* The initial state. *)

LEMMA FreshTyped == FreshTurn \in TurnRecord
BY GoalAssumption DEF FreshTurn, TurnRecord, GoalActions, GoalReasons

LEMMA IdleTyped ==
  /\ IdleProc \in Process /\ IdleProc.up = TRUE /\ IdleProc.inbox = <<>> /\ IdleProc.seen = {}
  /\ IdleProc.offers = {} /\ IdleProc.handling = {} /\ DOMAIN IdleProc.inbox = {}
<1>1. DOMAIN <<>> = {}
  OBVIOUS
<1>2. /\ IdleProc \in Process /\ IdleProc.up = TRUE /\ IdleProc.inbox = <<>> /\ IdleProc.seen = {}
      /\ IdleProc.offers = {} /\ IdleProc.handling = {}
  BY DEF IdleProc, Process
<1> QED BY <1>1, <1>2

LEMMA InitialGoal == GoalInit => GoalInv
<1> SUFFICES ASSUME GoalInit PROVE GoalInv
  OBVIOUS
<1>1. FreshTurn \in TurnRecord
  BY FreshTyped
<1>2. IdleProc \in Process
  BY DEF IdleProc, Process
<1>3. TypeInv
  BY <1>1, <1>2 DEF GoalInit, TypeInv, GoalStatuses
<1>4. \A t \in GoalTurns : goalTurn[t].pc = "new" /\ followUp[t].state = "none" /\ goalRuns[t] = 0
  BY DEF GoalInit, FreshTurn
<1>5. TurnInv /\ TaskInv
  BY <1>4 DEF TurnInv, TaskInv, InProgress
<1>6. \A w \in GoalWorker : goalProc[w] = IdleProc
  BY DEF GoalInit
<1>7. ProcInv
  BY <1>6 DEF ProcInv, IdleProc
<1>8. FollowUps = {} /\ Contender = {}
  BY <1>4 DEF GoalInit, FollowUps, PlansIn, Contender, HasRoom, Undecided
<1>9. Cardinality(GoalWorker) \in Nat /\ Cardinality(GoalWorker) # 0
  BY GoalAssumption, FS_CardinalityType, FS_EmptySet
<1>10. \A w \in GoalWorker : {i \in FollowUps : decisions[i].worker = w} = {}
  BY <1>8
<1>11. BoundInv
  BY <1>4, <1>8, <1>9, <1>10, FS_EmptySet, GoalAssumption DEF BoundInv, Undecided
<1> QED BY <1>3, <1>5, <1>7, <1>11 DEF GoalInv

-----------------------------------------------------------------------------
(* What most steps leave alone. *)

\* A step of a running turn: it stays on its worker, or is over.
LEMMA TurnStep ==
  ASSUME GoalInv, NEW t \in GoalTurns, InProgress(t),
         \A u \in GoalTurns : u # t => goalTurn'[u] = goalTurn[u],
         goalTurn'[t].pc # "new",
         goalTurn'[t].pc # "done" => goalTurn'[t].worker = goalTurn[t].worker,
         goalRuns' = goalRuns,
         \A w \in GoalWorker : goalProc'[w].up = goalProc[w].up
  PROVE  TurnInv'
<1>1. TurnInv
  BY DEF GoalInv
<1>2. goalTurn[t].pc # "new"
  BY DEF InProgress
<1>3. \A u \in GoalTurns : InProgress(u)' => InProgress(u) /\ goalTurn'[u].worker = goalTurn[u].worker
  BY DEF InProgress
<1>4. \A u \in GoalTurns : goalTurn'[u].pc = "new" <=> goalTurn[u].pc = "new"
  BY <1>2
<1> QED BY <1>1, <1>3, <1>4 DEF TurnInv

\* A step that plans nothing and moves no task.
LEMMA TaskStep ==
  ASSUME GoalInv, \A c \in GoalTurns : HasPlan(c) => HasPlan(c)', followUp' = followUp,
         goalRuns' = goalRuns,
         \A u \in GoalTurns : goalTurn'[u].pc = "planned" =>
             goalTurn[u].pc = "planned" /\ goalTurn'[u].child = goalTurn[u].child
  PROVE  TaskInv'
<1>1. TaskInv
  BY DEF GoalInv
<1> QED BY <1>1 DEF TaskInv

LEMMA ProcStep ==
  ASSUME GoalInv, followUp' = followUp, goalProc' = goalProc
  PROVE  ProcInv'
<1>1. ProcInv
  BY DEF GoalInv
<1> QED BY <1>1 DEF ProcInv

LEMMA PlansStay ==
  ASSUME TypeInv,
         decisions' = decisions \/ \E d \in DecisionRecord : decisions' = Append(decisions, d)
  PROVE  \A c \in GoalTurns : HasPlan(c) => HasPlan(c)'
<1>1. CASE decisions' = decisions
  BY <1>1 DEF HasPlan
<1>2. CASE \E d \in DecisionRecord : decisions' = Append(decisions, d)
  <2>1. PICK d \in DecisionRecord : decisions' = Append(decisions, d)
    BY <1>2
  <2>2. /\ DOMAIN decisions \subseteq DOMAIN decisions'
        /\ \A i \in DOMAIN decisions : decisions'[i] = decisions[i]
    BY <2>1, Appended
  <2> QED BY <2>2 DEF HasPlan
<1> QED BY <1>1, <1>2

\* A step that records nothing, and gives nobody a new copy of the ledger.
LEMMA BoundFrame ==
  ASSUME GoalInv, TypeInv', decisions' = decisions,
         \A t \in GoalTurns : Undecided(t)' =>
             /\ Undecided(t) /\ goalTurn'[t].read = goalTurn[t].read
             /\ goalTurn'[t].worker = goalTurn[t].worker,
         \A t \in GoalTurns : goalTurn'[t].pc = "updating" =>
             goalTurn'[t].outcome[1] \in {"block", "complete"},
         \A t \in GoalTurns :
             goalTurn'[t].pc = "deciding" /\ goalTurn'[t].outcome[1] = "plan" /\ ~goalTurn'[t].over
                => Cardinality(PlansBefore(t)) < MaxContinuations
  PROVE  BoundInv'
<1>1. BoundInv /\ TypeInv
  BY DEF GoalInv
<1>2. FollowUps' = FollowUps
  BY DEF FollowUps, PlansIn
<1>3. \A t \in GoalTurns : Undecided(t)' => PlansBefore(t)' = PlansBefore(t)
  BY DEF PlansBefore
<1>4. \A t \in GoalTurns : HasRoom(t)' => HasRoom(t) /\ goalTurn'[t].worker = goalTurn[t].worker
  BY <1>3 DEF HasRoom
<1>5. Contender' \subseteq Contender
  BY <1>4 DEF Contender
<1>6. Cardinality(Contender') <= Cardinality(Contender) /\ Cardinality(Contender') \in Nat
  BY <1>1, <1>5, PlansFinite, FS_Subset, FS_CardinalityType
<1>7. \A t \in GoalTurns :
          /\ Undecided(t)' =>
                /\ goalTurn'[t].read <= Len(decisions')
                /\ \A i \in DOMAIN decisions' :
                      decisions'[i].action = Planned /\ decisions'[i].worker = goalTurn'[t].worker
                          => i <= goalTurn'[t].read
          /\ goalTurn'[t].pc = "updating" => goalTurn'[t].outcome[1] \in {"block", "complete"}
  BY <1>1 DEF BoundInv
<1>8. \A t \in GoalTurns :
          goalTurn'[t].pc = "deciding" /\ goalTurn'[t].outcome[1] = "plan" /\ ~goalTurn'[t].over
                => Cardinality(PlansBefore(t)') < MaxContinuations
  BY <1>3 DEF Undecided
<1>9. Cardinality(FollowUps') >= MaxContinuations =>
          Cardinality(FollowUps') + Cardinality(Contender')
              <= MaxContinuations + Cardinality(GoalWorker) - 1
  BY <1>1, <1>2, <1>6, PlansFinite, GoalAssumption DEF BoundInv
<1>10. \A w \in GoalWorker :
          Cardinality({i \in FollowUps' : decisions'[i].worker = w}) <= MaxContinuations
  BY <1>1, <1>2 DEF BoundInv
<1> QED BY <1>7, <1>8, <1>9, <1>10 DEF BoundInv

\* A turn records what it decided: a plan within the budget is its worker's
\* only chance to plan on this copy of the ledger.
LEMMA BoundAppend ==
  ASSUME GoalInv, TypeInv', NEW t \in GoalTurns, InProgress(t), NEW d \in DecisionRecord,
         decisions' = Append(decisions, d), d.worker = goalTurn[t].worker,
         d.action = Planned /\ ~d.over => HasRoom(t),
         goalTurn'[t].pc \notin {"listed", "updating", "deciding"},
         \A u \in GoalTurns : u # t => goalTurn'[u] = goalTurn[u]
  PROVE  BoundInv'
<1> DEFINE n == Len(decisions)
<1>1. BoundInv /\ TypeInv /\ TurnInv
  BY DEF GoalInv
<1>2. /\ n \in Nat /\ DOMAIN decisions = 1 .. n /\ DOMAIN decisions' = 1 .. n + 1
      /\ Len(decisions') = n + 1 /\ decisions'[n + 1] = d
      /\ \A i \in 1 .. n : decisions'[i] = decisions[i]
  BY <1>1, Appended
<1> HIDE DEF n
<1>3. \A u \in GoalTurns : Undecided(u)' =>
          /\ u # t /\ Undecided(u) /\ goalTurn'[u] = goalTurn[u]
          /\ InProgress(u) /\ goalTurn[u].worker # goalTurn[t].worker
          /\ goalTurn[u].read \in Nat /\ goalTurn[u].read <= n
  <2> SUFFICES ASSUME NEW u \in GoalTurns, Undecided(u)'
               PROVE  /\ u # t /\ Undecided(u) /\ goalTurn'[u] = goalTurn[u]
                      /\ InProgress(u) /\ goalTurn[u].worker # goalTurn[t].worker
                      /\ goalTurn[u].read \in Nat /\ goalTurn[u].read <= n
    OBVIOUS
  <2>1. u # t /\ goalTurn'[u] = goalTurn[u]
    BY DEF Undecided
  <2>2. Undecided(u) /\ InProgress(u)
    BY <2>1 DEF Undecided, InProgress
  <2>3. goalTurn[u].worker # goalTurn[t].worker
    BY <1>1, <2>1, <2>2 DEF TurnInv
  <2>4. goalTurn[u].read \in Nat
    BY <1>1 DEF TypeInv, TurnRecord
  <2>5. goalTurn[u].read <= n
    BY <1>1, <2>2 DEF BoundInv, n
  <2> QED BY <2>1, <2>2, <2>3, <2>4, <2>5
<1>4. ASSUME NEW u \in GoalTurns, Undecided(u)'
      PROVE  PlansBefore(u)' = PlansBefore(u)
  <2>1. goalTurn'[u].read = goalTurn[u].read /\ goalTurn[u].read \in Nat /\ goalTurn[u].read <= n
    BY <1>3, <1>4
  <2>2. \A i \in 1 .. goalTurn[u].read : decisions'[i] = decisions[i]
    BY <1>2, <2>1
  <2> QED BY <2>1, <2>2 DEF PlansBefore
<1>5. ASSUME NEW u \in GoalTurns
      PROVE  /\ Undecided(u)' =>
                   /\ goalTurn'[u].read <= Len(decisions')
                   /\ \A i \in DOMAIN decisions' :
                         decisions'[i].action = Planned
                         /\ decisions'[i].worker = goalTurn'[u].worker
                             => i <= goalTurn'[u].read
             /\ goalTurn'[u].pc = "updating" => goalTurn'[u].outcome[1] \in {"block", "complete"}
             /\ goalTurn'[u].pc = "deciding" /\ goalTurn'[u].outcome[1] = "plan"
                /\ ~goalTurn'[u].over => Cardinality(PlansBefore(u)') < MaxContinuations
  <2>1. ASSUME Undecided(u)'
        PROVE  /\ goalTurn'[u].read <= Len(decisions')
               /\ \A i \in DOMAIN decisions' :
                     decisions'[i].action = Planned /\ decisions'[i].worker = goalTurn'[u].worker
                         => i <= goalTurn'[u].read
    <3>1. /\ Undecided(u) /\ goalTurn'[u] = goalTurn[u] /\ goalTurn[u].worker # d.worker
          /\ goalTurn[u].read \in Nat /\ goalTurn[u].read <= n
      BY <1>3, <2>1
    <3>2. \A i \in 1 .. n : decisions[i].action = Planned /\ decisions[i].worker = goalTurn[u].worker
                               => i <= goalTurn[u].read
      BY <1>1, <1>2, <3>1 DEF BoundInv
    <3> QED BY <1>2, <3>1, <3>2
  <2>2. goalTurn'[u].pc = "updating" => goalTurn'[u].outcome[1] \in {"block", "complete"}
    BY <1>1, <1>3 DEF BoundInv, Undecided
  <2>3. goalTurn'[u].pc = "deciding" /\ goalTurn'[u].outcome[1] = "plan"
        /\ ~goalTurn'[u].over => Cardinality(PlansBefore(u)') < MaxContinuations
    BY <1>1, <1>3, <1>4 DEF BoundInv, Undecided
  <2> QED BY <2>1, <2>2, <2>3
<1>6. Contender' \subseteq Contender
  <2>1. \A u \in GoalTurns : HasRoom(u)' => HasRoom(u) /\ goalTurn'[u].worker = goalTurn[u].worker
    BY <1>3, <1>4 DEF HasRoom
  <2> QED BY <2>1 DEF Contender
<1>7. /\ Cardinality(Contender') <= Cardinality(Contender) /\ Cardinality(Contender') \in Nat
      /\ IsFiniteSet(Contender')
  BY <1>1, <1>6, PlansFinite, FS_Subset, FS_CardinalityType
<1>8. CASE d.action # Planned \/ d.over
  <2>1. FollowUps' = FollowUps
    BY <1>2, <1>8 DEF FollowUps, PlansIn
  <2>2. \A w : {i \in FollowUps' : decisions'[i].worker = w} = {i \in FollowUps : decisions[i].worker = w}
    BY <1>2, <2>1 DEF FollowUps, PlansIn
  <2>3. \A w \in GoalWorker :
          Cardinality({i \in FollowUps' : decisions'[i].worker = w}) <= MaxContinuations
    BY <1>1, <2>2 DEF BoundInv
  <2>4. Cardinality(FollowUps') >= MaxContinuations =>
          Cardinality(FollowUps') + Cardinality(Contender')
              <= MaxContinuations + Cardinality(GoalWorker) - 1
    BY <1>1, <1>7, <2>1, PlansFinite, GoalAssumption DEF BoundInv
  <2> QED BY <1>5, <2>3, <2>4 DEF BoundInv
<1>9. CASE d.action = Planned /\ ~d.over
  <2>1. HasRoom(t) /\ goalTurn[t].worker \in GoalWorker
    BY <1>1, <1>9 DEF TurnInv
  <2> PICK w : w = goalTurn[t].worker
    OBVIOUS
  <2>2. w \in GoalWorker /\ w \in Contender /\ w \notin Contender'
    <3>1. w \in Contender
      BY <2>1 DEF Contender
    <3>2. \A u \in GoalTurns : HasRoom(u)' => goalTurn'[u].worker # w
      BY <1>3 DEF HasRoom
    <3> QED BY <2>1, <3>1, <3>2 DEF Contender
  <2>3. FollowUps' = FollowUps \cup {n + 1} /\ n + 1 \notin FollowUps
    BY <1>2, <1>9 DEF FollowUps, PlansIn
  <2>4. Cardinality(FollowUps') = Cardinality(FollowUps) + 1
    BY <1>1, <2>3, PlansFinite, FS_AddElement
  <2>5. /\ Cardinality(Contender') <= Cardinality(Contender) - 1
        /\ Cardinality(Contender') <= Cardinality(GoalWorker) - 1
    <3>1. Contender' \subseteq Contender \ {w} /\ Contender' \subseteq GoalWorker \ {w}
      BY <1>6, <2>2 DEF Contender
    <3>2. /\ IsFiniteSet(Contender \ {w}) /\ Cardinality(Contender \ {w}) = Cardinality(Contender) - 1
          /\ IsFiniteSet(GoalWorker \ {w}) /\ Cardinality(GoalWorker \ {w}) = Cardinality(GoalWorker) - 1
      BY <1>1, <2>2, PlansFinite, FS_RemoveElement, GoalAssumption
    <3> QED BY <3>1, <3>2, FS_Subset
  <2>6. Cardinality(FollowUps') >= MaxContinuations =>
          Cardinality(FollowUps') + Cardinality(Contender')
              <= MaxContinuations + Cardinality(GoalWorker) - 1
    <3>1. /\ Cardinality(FollowUps) \in Nat /\ Cardinality(Contender) \in Nat
          /\ Cardinality(GoalWorker) \in Nat /\ MaxContinuations \in Nat
      BY <1>1, PlansFinite, GoalAssumption
    <3>2. Cardinality(FollowUps) >= MaxContinuations =>
          Cardinality(FollowUps) + Cardinality(Contender)
              <= MaxContinuations + Cardinality(GoalWorker) - 1
      BY <1>1 DEF BoundInv
    <3> QED BY <1>7, <2>4, <2>5, <3>1, <3>2
  <2>7. ASSUME NEW v \in GoalWorker
        PROVE  Cardinality({i \in FollowUps' : decisions'[i].worker = v}) <= MaxContinuations
    <3>1. CASE v # w
      <4>1. {i \in FollowUps' : decisions'[i].worker = v} = {i \in FollowUps : decisions[i].worker = v}
        BY <1>2, <2>3, <3>1 DEF FollowUps, PlansIn
      <4> QED BY <1>1, <4>1 DEF BoundInv
    <3>2. CASE v = w
      <4> PICK own : own = {i \in FollowUps : decisions[i].worker = w}
        OBVIOUS
      <4>1. {i \in FollowUps' : decisions'[i].worker = v} = own \cup {n + 1} /\ n + 1 \notin own
        BY <1>2, <2>3, <3>2 DEF FollowUps, PlansIn
      <4>2. own \subseteq PlansBefore(t)
        <5>1. \A i \in 1 .. n : decisions[i].action = Planned /\ decisions[i].worker = w
                                   => i <= goalTurn[t].read
          BY <1>1, <1>2, <2>1 DEF BoundInv, HasRoom
        <5>2. goalTurn[t].read \in Nat
          BY <1>1 DEF TypeInv, TurnRecord
        <5> QED BY <1>2, <5>1, <5>2 DEF PlansBefore, FollowUps, PlansIn
      <4>3. IsFiniteSet(own) /\ Cardinality(own) \in Nat
        BY <1>1, PlansFinite
      <4>4. /\ IsFiniteSet(PlansBefore(t)) /\ Cardinality(PlansBefore(t)) \in Nat
            /\ Cardinality(PlansBefore(t)) < MaxContinuations
        BY <1>1, <2>1, PlansFinite DEF HasRoom
      <4>5. Cardinality(own) <= Cardinality(PlansBefore(t))
        BY <4>2, <4>4, FS_Subset
      <4>6. Cardinality(own \cup {n + 1}) = Cardinality(own) + 1
        BY <4>1, <4>3, FS_AddElement
      <4>7. Cardinality(own \cup {n + 1}) <= MaxContinuations
        BY <4>3, <4>4, <4>5, <4>6, GoalAssumption
      <4> QED BY <4>1, <4>7
    <3> QED BY <3>1, <3>2
  <2> QED BY <1>5, <2>6, <2>7 DEF BoundInv
<1> QED BY <1>8, <1>9

\* What AfterTurn decides on a copy of the ledger.
LEMMA OutcomeTyped ==
  ASSUME TypeInv, NEW t \in GoalTurns, goalTurn[t].read <= Len(decisions), NEW over \in BOOLEAN,
         NEW verdict, NEW o,
         o = OutcomeOf(SubSeq(decisions, 1, goalTurn[t].read), goal.status, over, verdict)
  PROVE  /\ o \in GoalActions \X GoalReasons
         /\ o[1] = "plan" /\ ~over => Cardinality(PlansBefore(t)) < MaxContinuations
<1> PICK records : records = SubSeq(decisions, 1, goalTurn[t].read)
  OBVIOUS
<1>1. goalTurn[t].read \in Nat
  BY DEF TypeInv, TurnRecord
<1>2. decisions \in Seq(DecisionRecord) /\ Len(decisions) \in Nat
  BY DEF TypeInv
<1>3. DOMAIN records = 1 .. goalTurn[t].read
      /\ \A i \in 1 .. goalTurn[t].read : records[i] = decisions[i]
  BY <1>1, <1>2
<1>4. PlansIn(records) = PlansBefore(t)
  BY <1>3 DEF PlansIn, PlansBefore
<1>5. Cardinality(PlansBefore(t)) \in Nat
  BY PlansFinite
<1> PICK p : p = Policy(records, over)
  OBVIOUS
<1>6. /\ p \in {<<"plan", "wrap_up">>, <<"block", "budget">>, <<"stop", "max">>, <<"block", "max">>,
                <<"plan", "active">>}
      /\ p[1] = "plan" /\ ~over => Cardinality(PlansBefore(t)) < MaxContinuations
  BY <1>4, <1>5, GoalAssumption DEF Policy
<1>7. /\ o \in {<<"stop", "terminal">>, <<"complete", "verifier_satisfied">>,
                <<"block", "verifier_failed">>, <<"plan", "verifier_failed">>, p}
      /\ o[1] = "plan" => p[1] = "plan"
  BY DEF OutcomeOf
<1>8. o \in GoalActions \X GoalReasons
  BY <1>6, <1>7 DEF GoalActions, GoalReasons
<1> QED BY <1>6, <1>7, <1>8

-----------------------------------------------------------------------------
(* The steps of a turn. *)

LEMMA BeginKeeps ==
  ASSUME GoalInv, NEW t \in GoalTurns, NEW w \in GoalWorker, GoalBegin(t, w)
  PROVE  GoalInv'
<1>1. TypeInv /\ TurnInv /\ TaskInv /\ ProcInv
  BY DEF GoalInv
<1> PICK b \in BOOLEAN : b = (goal.status = "active")
  OBVIOUS
<1> PICK r : r = [FreshTurn EXCEPT !.pc = "running", !.worker = w, !.tracked = b]
  OBVIOUS
<1>2. r \in TurnRecord /\ r.pc = "running" /\ r.worker = w
  BY FreshTyped DEF TurnRecord
<1>3. goalTurn' = [goalTurn EXCEPT ![t] = r]
  BY DEF GoalBegin
<1>4. /\ goalTurn' \in [GoalTurns -> TurnRecord] /\ goalTurn'[t] = r
      /\ \A u \in GoalTurns : u # t => goalTurn'[u] = goalTurn[u]
  BY <1>1, <1>2, <1>3, ChangedTurn
<1>5. /\ goal' = goal /\ decisions' = decisions
      /\ goalRuns' = [goalRuns EXCEPT ![t] = goalRuns[t] + 1]
      /\ goalProc[w].up /\ \A u \in GoalTurns : InProgress(u) => goalTurn[u].worker # w
  BY DEF GoalBegin, FreeWorker
<1>6. /\ goalRuns' \in [GoalTurns -> Nat] /\ goalRuns'[t] = goalRuns[t] + 1
      /\ \A u \in GoalTurns : u # t => goalRuns'[u] = goalRuns[u]
  BY <1>1, <1>5 DEF TypeInv
<1>7. ASSUME TypeInv' PROVE BoundInv'
  <2>1. \A u \in GoalTurns : Undecided(u)' => u # t
    BY <1>2, <1>4 DEF Undecided
  <2>2. \A u \in GoalTurns : Undecided(u)' =>
             /\ Undecided(u) /\ goalTurn'[u].read = goalTurn[u].read
             /\ goalTurn'[u].worker = goalTurn[u].worker
    BY <1>4, <2>1 DEF Undecided
  <2>3. \A u \in GoalTurns : goalTurn'[u].pc = "updating" =>
             goalTurn'[u].outcome[1] \in {"block", "complete"}
    BY <1>4, <2>1 DEF GoalInv, BoundInv, Undecided
  <2>4. \A u \in GoalTurns :
             goalTurn'[u].pc = "deciding" /\ goalTurn'[u].outcome[1] = "plan" /\ ~goalTurn'[u].over
                => Cardinality(PlansBefore(u)) < MaxContinuations
    BY <1>4, <2>1 DEF GoalInv, BoundInv, Undecided
  <2> QED BY <1>5, <1>7, <2>2, <2>3, <2>4, BoundFrame
<1>8. ASSUME goalTurn[t].pc = "new", \A v \in GoalWorker : goalProc'[v].up = goalProc[v].up
      PROVE  TurnInv'
  <2>1. goalRuns[t] = 0
    BY <1>1, <1>8 DEF TurnInv
  <2>2. InProgress(t)' /\ goalTurn'[t].worker = w /\ goalTurn'[t].pc # "new"
    BY <1>2, <1>4 DEF InProgress
  <2>3. \A u \in GoalTurns : u # t => (InProgress(u)' <=> InProgress(u)) /\ goalTurn'[u] = goalTurn[u]
    BY <1>4 DEF InProgress
  <2>4. \A u \in GoalTurns :
          /\ goalTurn'[u].pc = "new" <=> goalRuns'[u] = 0
          /\ goalRuns'[u] <= 1
    BY <1>1, <1>6, <2>1, <2>2, <2>3 DEF TurnInv
  <2>5. \A u \in GoalTurns :
          InProgress(u)' => goalTurn'[u].worker \in GoalWorker /\ goalProc'[goalTurn'[u].worker].up
    BY <1>1, <1>5, <1>8, <2>2, <2>3 DEF TurnInv
  <2>6. \A u, v \in GoalTurns :
          InProgress(u)' /\ InProgress(v)' /\ goalTurn'[u].worker = goalTurn'[v].worker => u = v
    BY <1>1, <1>5, <2>2, <2>3 DEF TurnInv
  <2> QED BY <2>4, <2>5, <2>6 DEF TurnInv
<1>9. \A u \in GoalTurns : goalTurn'[u].pc = "planned" => u # t /\ goalTurn'[u] = goalTurn[u]
  BY <1>2, <1>4
<1>10. \A c \in GoalTurns : HasPlan(c)' <=> HasPlan(c)
  BY <1>5 DEF HasPlan
<1>11. CASE t <= UserTurns /\ goalTurn[t].pc = "new" /\ followUp' = followUp /\ goalProc' = goalProc
  <2>1. TypeInv'
    BY <1>1, <1>4, <1>5, <1>6, <1>11 DEF TypeInv
  <2>2. TaskInv'
    <3>1. \A c \in GoalTurns :
              c > UserTurns \/ followUp[c].state = "queued" => c # t /\ goalRuns'[c] = goalRuns[c]
      BY <1>1, <1>6, <1>11, GoalAssumption DEF TaskInv
    <3> QED BY <1>1, <1>9, <1>10, <1>11, <3>1 DEF TaskInv
  <2>3. ProcInv'
    BY <1>11, ProcStep
  <2> QED BY <1>7, <1>8, <1>11, <2>1, <2>2, <2>3 DEF GoalInv
<1>12. CASE /\ goalProc[w].inbox # <<>> /\ Head(goalProc[w].inbox) = t
            /\ followUp[t].state \in {"queued", "running"}
            /\ followUp' = [followUp EXCEPT ![t].state = "running"]
            /\ goalProc' = [goalProc EXCEPT ![w].inbox = Tail(@)]
  <2> PICK p \in Process : p = goalProc[w]
    BY <1>1 DEF TypeInv
  <2> PICK rest : rest = Tail(p.inbox)
    OBVIOUS
  <2> PICK q : q = [p EXCEPT !.inbox = rest]
    OBVIOUS
  <2>1. /\ p.inbox \in Seq(GoalTurns) /\ rest \in Seq(GoalTurns)
        /\ 1 \in DOMAIN p.inbox /\ p.inbox[1] = t /\ \A k \in DOMAIN p.inbox : p.inbox[k] \in GoalTurns
        /\ \A k \in DOMAIN rest : /\ k \in Nat /\ k + 1 # 1 /\ k + 1 \in DOMAIN p.inbox
                                  /\ rest[k] = p.inbox[k + 1]
    <3>1. p.inbox \in Seq(GoalTurns) /\ p.inbox # <<>> /\ Head(p.inbox) = t
      BY <1>12 DEF Process
    <3> QED BY <3>1, HeadAndTail
  <2>2. /\ q \in Process /\ q.up = p.up /\ q.inbox = rest /\ q.seen = p.seen
        /\ q.offers = p.offers /\ q.handling = p.handling
    BY <2>1 DEF Process
  <2>3. goalProc' = [goalProc EXCEPT ![w] = q]
    BY <1>12
  <2>4. /\ goalProc' \in [GoalWorker -> Process] /\ goalProc'[w] = q
        /\ \A v \in GoalWorker : v # w => goalProc'[v] = goalProc[v]
    BY <1>1, <2>2, <2>3 DEF TypeInv
  <2>5. /\ followUp' \in [GoalTurns -> [state : {"none", "queued", "running", "over"},
                                        worker : GoalWorker \cup {NoWorker}]]
        /\ followUp'[t].state = "running" /\ followUp'[t].worker = followUp[t].worker
        /\ \A c \in GoalTurns : c # t => followUp'[c] = followUp[c]
    BY <1>1, <1>12 DEF TypeInv
  <2>6. followUp[t].state = "queued" /\ followUp[t].worker = w
    BY <1>1, <2>1 DEF ProcInv
  <2>7. goalRuns[t] = 0 /\ t > UserTurns /\ goalTurn[t].pc = "new"
    <3>1. goalRuns[t] = 0 /\ ~ (t <= UserTurns)
      BY <1>1, <2>6 DEF TaskInv
    <3> QED BY <1>1, <3>1, GoalAssumption DEF TurnInv
  <2>8. TypeInv'
    BY <1>1, <1>4, <1>5, <1>6, <2>4, <2>5 DEF TypeInv
  <2>9. TurnInv'
    BY <1>8, <2>2, <2>4, <2>7
  <2>10. TaskInv'
    <3> SUFFICES ASSUME NEW c \in GoalTurns
                 PROVE  /\ c <= UserTurns => followUp'[c].state = "none"
                        /\ followUp'[c].state = "none" /\ c > UserTurns => goalRuns'[c] = 0
                        /\ followUp'[c].state = "queued" => goalRuns'[c] = 0
                        /\ followUp'[c].state # "none" =>
                              HasPlan(c)' /\ followUp'[c].worker \in GoalWorker
                        /\ \A u \in GoalTurns :
                              goalTurn'[u].pc = "planned" /\ goalTurn'[u].child = c =>
                                  /\ c > UserTurns /\ HasPlan(c)' /\ followUp'[c].state = "none"
                                  /\ \A v \in GoalTurns :
                                        goalTurn'[v].pc = "planned" /\ goalTurn'[v].child = c
                                            => v = u
                        /\ \A u \in GoalTurns : goalTurn'[u].pc = "planned" => goalTurn'[u].child # 0
      BY DEF TaskInv
    <3>1. CASE c # t
      <4>1. /\ followUp'[c] = followUp[c] /\ goalRuns'[c] = goalRuns[c] /\ (HasPlan(c)' <=> HasPlan(c))
        BY <1>6, <1>10, <2>5, <3>1
      <4> QED BY <1>1, <1>9, <4>1 DEF TaskInv
    <3>2. CASE c = t
      <4>1. HasPlan(t)' /\ followUp'[t].worker \in GoalWorker
        BY <1>1, <1>10, <2>5, <2>6 DEF TaskInv
      <4>2. \A u \in GoalTurns : ~ (goalTurn'[u].pc = "planned" /\ goalTurn'[u].child = t)
        BY <1>1, <1>9, <2>6 DEF TaskInv
      <4>3. \A u \in GoalTurns : goalTurn'[u].pc = "planned" => goalTurn'[u].child # 0
        BY <1>1, <1>9 DEF TaskInv
      <4> QED BY <2>5, <2>7, <3>2, <4>1, <4>2, <4>3, GoalAssumption
    <3> QED BY <3>1, <3>2
  <2>11. ProcInv'
    <3> SUFFICES ASSUME NEW v \in GoalWorker
                 PROVE  /\ \A c \in goalProc'[v].offers \cup goalProc'[v].seen :
                              followUp'[c].state # "none" /\ followUp'[c].worker = v
                        /\ goalProc'[v].handling \subseteq goalProc'[v].seen
                        /\ \A k \in DOMAIN goalProc'[v].inbox :
                              /\ goalProc'[v].inbox[k] \in goalProc'[v].seen \ goalProc'[v].handling
                              /\ followUp'[goalProc'[v].inbox[k]].state = "queued"
                              /\ \A j \in DOMAIN goalProc'[v].inbox :
                                    goalProc'[v].inbox[j] = goalProc'[v].inbox[k] => j = k
      BY DEF ProcInv
    <3>1. \A c \in GoalTurns : followUp[c].state # "none" =>
              followUp'[c].state # "none" /\ followUp'[c].worker = followUp[c].worker
      BY <2>5
    <3>2. goalProc[v] \in Process
      BY <1>1 DEF TypeInv
    <3>3. /\ goalProc'[v].offers = goalProc[v].offers /\ goalProc'[v].seen = goalProc[v].seen
          /\ goalProc'[v].handling = goalProc[v].handling
      BY <2>2, <2>4
    <3>4. \A c \in goalProc'[v].offers \cup goalProc'[v].seen :
              followUp'[c].state # "none" /\ followUp'[c].worker = v
      BY <1>1, <3>1, <3>2, <3>3 DEF ProcInv, Process
    <3>5. goalProc'[v].handling \subseteq goalProc'[v].seen
      BY <1>1, <3>3 DEF ProcInv
    <3>6. CASE v # w
      <4>1. \A k \in DOMAIN goalProc[v].inbox : goalProc[v].inbox[k] \in GoalTurns
                                                /\ goalProc[v].inbox[k] # t
        BY <1>1, <2>6, <3>2, <3>6 DEF ProcInv, Process
      <4>2. \A k \in DOMAIN goalProc[v].inbox :
                followUp'[goalProc[v].inbox[k]] = followUp[goalProc[v].inbox[k]]
        BY <2>5, <4>1
      <4> QED BY <1>1, <2>4, <3>4, <3>5, <3>6, <4>2 DEF ProcInv
    <3>7. CASE v = w
      <4>1. ASSUME NEW k \in DOMAIN q.inbox
            PROVE  /\ k \in Nat /\ k + 1 \in DOMAIN p.inbox /\ q.inbox[k] = p.inbox[k + 1]
                   /\ q.inbox[k] \in GoalTurns /\ q.inbox[k] # t
        <5>1. k \in Nat /\ k + 1 # 1 /\ k + 1 \in DOMAIN p.inbox /\ q.inbox[k] = p.inbox[k + 1]
          BY <2>1, <2>2
        <5>2. p.inbox[k + 1] \in GoalTurns
          BY <2>1, <5>1
        <5>3. \A i, j \in DOMAIN p.inbox : p.inbox[j] = p.inbox[i] => j = i
          BY <1>1 DEF ProcInv
        <5>4. p.inbox[k + 1] # p.inbox[1]
          BY <2>1, <5>1, <5>3
        <5> QED BY <2>1, <5>1, <5>2, <5>4
      <4>2. ASSUME NEW k \in DOMAIN q.inbox
            PROVE  q.inbox[k] \in q.seen \ q.handling /\ followUp'[q.inbox[k]].state = "queued"
        <5>1. k + 1 \in DOMAIN p.inbox /\ q.inbox[k] = p.inbox[k + 1]
              /\ followUp'[q.inbox[k]] = followUp[q.inbox[k]]
          BY <2>5, <4>1
        <5>2. p.inbox[k + 1] \in p.seen \ p.handling /\ followUp[p.inbox[k + 1]].state = "queued"
          BY <1>1, <5>1 DEF ProcInv
        <5> QED BY <2>2, <5>1, <5>2
      <4>3. \A j, k \in DOMAIN p.inbox : p.inbox[j] = p.inbox[k] => j = k
        BY <1>1 DEF ProcInv
      <4>4. \A j, k \in DOMAIN q.inbox : q.inbox[j] = q.inbox[k] => j = k
        <5> SUFFICES ASSUME NEW j \in DOMAIN q.inbox, NEW k \in DOMAIN q.inbox,
                            q.inbox[j] = q.inbox[k]
                     PROVE  j = k
          OBVIOUS
        <5>1. j + 1 = k + 1 /\ j \in Nat /\ k \in Nat
          BY <4>1, <4>3
        <5> QED BY <5>1
      <4> QED BY <2>4, <3>4, <3>5, <3>7, <4>2, <4>4, ZenonT(40)
    <3> QED BY <3>6, <3>7
  <2> QED BY <1>7, <2>8, <2>9, <2>10, <2>11 DEF GoalInv
<1> QED BY <1>11, <1>12 DEF GoalBegin, At

\* A turn goes on, or to its end, and touches no task.
LEMMA QuietStep ==
  ASSUME GoalInv, NEW t \in GoalTurns, InProgress(t), NEW r \in TurnRecord,
         goalTurn' = [goalTurn EXCEPT ![t] = r],
         r.pc # "new", r.pc # "done" => r.worker = goalTurn[t].worker,
         goal' \in [status : GoalStatuses, charged : SUBSET GoalTurns],
         decisions' = decisions \/ \E d \in DecisionRecord : decisions' = Append(decisions, d),
         followUp' = followUp, goalProc' = goalProc, goalRuns' = goalRuns
  PROVE  TypeInv' /\ TurnInv' /\ ProcInv' /\ (r.pc # "planned" => TaskInv')
<1>1. TypeInv
  BY DEF GoalInv
<1>2. /\ goalTurn' \in [GoalTurns -> TurnRecord] /\ goalTurn'[t] = r
      /\ \A u \in GoalTurns : u # t => goalTurn'[u] = goalTurn[u]
  BY <1>1, ChangedTurn
<1>3. decisions' \in Seq(DecisionRecord)
  BY <1>1, Appended DEF TypeInv
<1>4. TypeInv'
  BY <1>1, <1>2, <1>3 DEF TypeInv
<1>5. TurnInv'
  BY <1>2, TurnStep
<1>6. ProcInv'
  BY ProcStep
<1>7. r.pc # "planned" => TaskInv'
  BY <1>1, <1>2, PlansStay, TaskStep
<1> QED BY <1>4, <1>5, <1>6, <1>7

\* The same for what it knows of the ledger, when it records nothing.
LEMMA QuietBound ==
  ASSUME GoalInv, TypeInv', NEW t \in GoalTurns, NEW r \in TurnRecord,
         goalTurn' = [goalTurn EXCEPT ![t] = r], decisions' = decisions,
         r.pc \in {"listed", "updating", "deciding"} =>
             Undecided(t) /\ r.read = goalTurn[t].read /\ r.worker = goalTurn[t].worker,
         r.pc = "updating" => r.outcome[1] \in {"block", "complete"},
         r.pc = "deciding" /\ r.outcome[1] = "plan" /\ ~r.over =>
             Cardinality(PlansBefore(t)) < MaxContinuations
  PROVE  BoundInv'
<1>1. TypeInv /\ BoundInv
  BY DEF GoalInv
<1>2. goalTurn'[t] = r /\ \A u \in GoalTurns : u # t => goalTurn'[u] = goalTurn[u]
  BY <1>1, ChangedTurn
<1>3. \A u \in GoalTurns : Undecided(u)' =>
             /\ Undecided(u) /\ goalTurn'[u].read = goalTurn[u].read
             /\ goalTurn'[u].worker = goalTurn[u].worker
  BY <1>2 DEF Undecided
<1>4. \A u \in GoalTurns : goalTurn'[u].pc = "updating" =>
             goalTurn'[u].outcome[1] \in {"block", "complete"}
  BY <1>1, <1>2 DEF BoundInv
<1>5. \A u \in GoalTurns :
             goalTurn'[u].pc = "deciding" /\ goalTurn'[u].outcome[1] = "plan" /\ ~goalTurn'[u].over
                => Cardinality(PlansBefore(u)) < MaxContinuations
  BY <1>1, <1>2 DEF BoundInv
<1> QED BY <1>3, <1>4, <1>5, BoundFrame

\* AfterTurn ends.
LEMMA EndKeeps ==
  ASSUME GoalInv, NEW t \in GoalTurns, InProgress(t), EndTurn(t),
         decisions' = decisions \/ \E d \in DecisionRecord :
             decisions' = Append(decisions, d) /\ d.worker = goalTurn[t].worker
             /\ (d.action = Planned /\ ~d.over => HasRoom(t)),
         goal' = goal, followUp' = followUp, goalProc' = goalProc, goalRuns' = goalRuns
  PROVE  GoalInv'
<1>1. TypeInv /\ goalTurn[t] \in TurnRecord
  BY DEF GoalInv, TypeInv
<1> PICK r : r = [goalTurn[t] EXCEPT !.pc = "ending"]
  OBVIOUS
<1>2. r \in TurnRecord /\ r.pc = "ending" /\ r.worker = goalTurn[t].worker
  BY <1>1 DEF TurnRecord
<1>3. goalTurn' = [goalTurn EXCEPT ![t] = r]
  BY DEF EndTurn
<1>4. goal' \in [status : GoalStatuses, charged : SUBSET GoalTurns]
  BY <1>1 DEF TypeInv
<1>5. TypeInv' /\ TurnInv' /\ ProcInv' /\ TaskInv'
  BY <1>2, <1>3, <1>4, QuietStep
<1>6. CASE decisions' = decisions
  <2>1. BoundInv'
    BY <1>2, <1>3, <1>5, <1>6, QuietBound
  <2> QED BY <1>5, <2>1 DEF GoalInv
<1>7. CASE \E d \in DecisionRecord :
             decisions' = Append(decisions, d) /\ d.worker = goalTurn[t].worker
             /\ (d.action = Planned /\ ~d.over => HasRoom(t))
  <2>1. PICK d \in DecisionRecord :
             decisions' = Append(decisions, d) /\ d.worker = goalTurn[t].worker
             /\ (d.action = Planned /\ ~d.over => HasRoom(t))
    BY <1>7
  <2>2. goalTurn'[t] = r /\ \A u \in GoalTurns : u # t => goalTurn'[u] = goalTurn[u]
    BY <1>1, <1>2, <1>3, ChangedTurn
  <2>3. BoundInv'
    BY <1>2, <1>5, <2>1, <2>2, BoundAppend
  <2> QED BY <1>5, <2>3 DEF GoalInv
<1> QED BY <1>6, <1>7

LEMMA ToolKeeps ==
  ASSUME GoalInv, NEW t \in GoalTurns, NEW status \in GoalToolStatuses, GoalTool(t, status)
  PROVE  GoalInv'
<1>1. TypeInv /\ BoundInv /\ goalTurn[t] \in TurnRecord
  BY DEF GoalInv, TypeInv
<1>2. goalTurn[t].pc = "running" /\ InProgress(t)
  BY DEF GoalTool, At, InProgress
<1> PICK b \in BOOLEAN : b = (goalTurn[t].tracked \/ status = "active")
  OBVIOUS
<1> PICK r : r = [goalTurn[t] EXCEPT !.tracked = b]
  OBVIOUS
<1>3. r \in TurnRecord /\ r.pc = "running" /\ r.worker = goalTurn[t].worker
  BY <1>1, <1>2 DEF TurnRecord
<1>4. goalTurn' = [goalTurn EXCEPT ![t] = r]
  BY DEF GoalTool
<1>5. goal' \in [status : GoalStatuses, charged : SUBSET GoalTurns]
  BY <1>1, GoalAssumption DEF GoalTool, TypeInv, GoalStatuses
<1>6. /\ decisions' = decisions /\ followUp' = followUp /\ goalProc' = goalProc
      /\ goalRuns' = goalRuns
  BY DEF GoalTool
<1>7. TypeInv' /\ TurnInv' /\ ProcInv' /\ TaskInv'
  BY <1>2, <1>3, <1>4, <1>5, <1>6, QuietStep
<1>8. BoundInv'
  BY <1>3, <1>4, <1>6, <1>7, QuietBound
<1> QED BY <1>7, <1>8 DEF GoalInv

\* What a turn lists has every plan there is, so that it finds room only while
\* there is room.
LEMMA ListKeeps ==
  ASSUME GoalInv, NEW t \in GoalTurns, GoalList(t)
  PROVE  GoalInv'
<1>1. TypeInv /\ BoundInv /\ goalTurn[t] \in TurnRecord
  BY DEF GoalInv, TypeInv
<1>2. goalTurn[t].pc = "running" /\ InProgress(t)
  BY DEF GoalList, At, InProgress
<1>3. /\ goal' = goal /\ decisions' = decisions /\ followUp' = followUp /\ goalProc' = goalProc
      /\ goalRuns' = goalRuns
  BY DEF GoalList
<1>4. CASE EndTurn(t)
  BY <1>2, <1>3, <1>4, EndKeeps
<1>5. CASE goalTurn' = [goalTurn EXCEPT ![t].pc = "listed", ![t].read = Len(decisions)]
  <2> PICK r : r = [goalTurn[t] EXCEPT !.pc = "listed", !.read = Len(decisions)]
    OBVIOUS
  <2>1. /\ r \in TurnRecord /\ r.pc = "listed" /\ r.worker = goalTurn[t].worker
        /\ r.read = Len(decisions) /\ Len(decisions) \in Nat /\ DOMAIN decisions = 1 .. Len(decisions)
    <3>1. Len(decisions) \in Nat /\ DOMAIN decisions = 1 .. Len(decisions)
      BY <1>1 DEF TypeInv
    <3> QED BY <1>1, <3>1 DEF TurnRecord
  <2>2. goalTurn' = [goalTurn EXCEPT ![t] = r]
    BY <1>1, <1>5 DEF TypeInv
  <2>3. goal' \in [status : GoalStatuses, charged : SUBSET GoalTurns]
    BY <1>1, <1>3 DEF TypeInv
  <2>4. TypeInv' /\ TurnInv' /\ ProcInv' /\ TaskInv'
    BY <1>2, <1>3, <2>1, <2>2, <2>3, QuietStep
  <2>5. goalTurn'[t] = r /\ \A u \in GoalTurns : u # t => goalTurn'[u] = goalTurn[u]
    BY <1>1, <2>1, <2>2, ChangedTurn
  <2>6. FollowUps' = FollowUps /\ \A u \in GoalTurns : u # t => PlansBefore(u)' = PlansBefore(u)
    BY <1>3, <2>5 DEF FollowUps, PlansIn, PlansBefore
  <2>7. FollowUps \subseteq PlansBefore(t)' /\ IsFiniteSet(PlansBefore(t)')
    <3>1. PlansBefore(t)' = {i \in 1 .. Len(decisions) : decisions[i].action = Planned}
      BY <1>3, <2>1, <2>5 DEF PlansBefore
    <3>2. IsFiniteSet(1 .. Len(decisions))
      BY <2>1, FS_Interval
    <3> QED BY <2>1, <3>1, <3>2, FS_Subset DEF FollowUps, PlansIn
  <2>8. Cardinality(FollowUps) <= Cardinality(PlansBefore(t)')
        /\ Cardinality(PlansBefore(t)') \in Nat
    BY <2>7, FS_Subset, FS_CardinalityType
  <2>9. Cardinality(FollowUps') >= MaxContinuations =>
          Cardinality(FollowUps') + Cardinality(Contender')
              <= MaxContinuations + Cardinality(GoalWorker) - 1
    <3> SUFFICES ASSUME Cardinality(FollowUps) >= MaxContinuations
                 PROVE  Cardinality(FollowUps) + Cardinality(Contender')
                            <= MaxContinuations + Cardinality(GoalWorker) - 1
      BY <2>6
    <3>1. ~ HasRoom(t)'
      BY <1>1, <2>8, PlansFinite, GoalAssumption DEF HasRoom
    <3>2. \A u \in GoalTurns : HasRoom(u)' => HasRoom(u) /\ goalTurn'[u] = goalTurn[u]
      BY <2>5, <2>6, <3>1 DEF HasRoom, Undecided
    <3>3. Contender' \subseteq Contender
      BY <3>2 DEF Contender
    <3>4. Cardinality(Contender') <= Cardinality(Contender) /\ Cardinality(Contender') \in Nat
      BY <1>1, <3>3, PlansFinite, FS_Subset, FS_CardinalityType
    <3> QED BY <1>1, <3>4, PlansFinite, GoalAssumption DEF BoundInv
  <2>10. \A w \in GoalWorker :
          Cardinality({i \in FollowUps' : decisions'[i].worker = w}) <= MaxContinuations
    BY <1>1, <1>3, <2>6 DEF BoundInv
  <2>11. ASSUME NEW u \in GoalTurns
         PROVE  /\ Undecided(u)' =>
                      /\ goalTurn'[u].read <= Len(decisions')
                      /\ \A i \in DOMAIN decisions' :
                            decisions'[i].action = Planned
                            /\ decisions'[i].worker = goalTurn'[u].worker
                                => i <= goalTurn'[u].read
                /\ goalTurn'[u].pc = "updating" => goalTurn'[u].outcome[1] \in {"block", "complete"}
                /\ goalTurn'[u].pc = "deciding" /\ goalTurn'[u].outcome[1] = "plan"
                   /\ ~goalTurn'[u].over => Cardinality(PlansBefore(u)') < MaxContinuations
    <3>1. CASE u = t
      <4>1. goalTurn'[u].pc = "listed" /\ goalTurn'[u].read = Len(decisions)
        BY <2>1, <2>5, <3>1
      <4>2. \A i \in DOMAIN decisions' : i <= Len(decisions)
        BY <1>3, <2>1
      <4>3. Len(decisions) <= Len(decisions')
        BY <1>3, <2>1
      <4> QED BY <4>1, <4>2, <4>3
    <3>2. CASE u # t
      BY <1>1, <1>3, <2>5, <2>6, <3>2 DEF BoundInv, Undecided
    <3> QED BY <3>1, <3>2
  <2>12. BoundInv'
    BY <2>9, <2>10, <2>11 DEF BoundInv
  <2> QED BY <2>4, <2>12 DEF GoalInv
<1> QED BY <1>4, <1>5 DEF GoalList

\* The decision leaves room for its plan in the copy it was made on.
LEMMA DecideKeeps ==
  ASSUME GoalInv, NEW t \in GoalTurns, NEW verdict, GoalDecide(t, verdict)
  PROVE  GoalInv'
<1>1. TypeInv /\ BoundInv /\ goalTurn[t] \in TurnRecord
  BY DEF GoalInv, TypeInv
<1>2. goalTurn[t].pc = "listed" /\ InProgress(t) /\ Undecided(t)
  BY DEF GoalDecide, At, InProgress, Undecided
<1> PICK over : over = (Cardinality(goal.charged \cup {t}) >= GoalBudget)
  OBVIOUS
<1> PICK o : o = OutcomeOf(SubSeq(decisions, 1, goalTurn[t].read), goal.status, over, verdict)
  OBVIOUS
<1> PICK pc : pc = IF o[1] \in {"block", "complete"} THEN "updating" ELSE "deciding"
  OBVIOUS
<1> PICK r : r = [goalTurn[t] EXCEPT !.outcome = o, !.over = over, !.pc = pc]
  OBVIOUS
<1>3. over \in BOOLEAN
  <2>1. goal.charged \cup {t} \subseteq GoalTurns /\ IsFiniteSet(GoalTurns)
    <3>1. IsFiniteSet(1 .. MaxGoalTurns)
      <4>1. 1 \in Int /\ MaxGoalTurns \in Int
        BY GoalAssumption
      <4> QED BY <4>1, FS_Interval
    <3>2. goal.charged \subseteq GoalTurns
      BY <1>1 DEF TypeInv
    <3> QED BY <3>1, <3>2
  <2>2. Cardinality(goal.charged \cup {t}) \in Nat
    BY <2>1, FS_Subset, FS_CardinalityType
  <2> QED BY <2>2, GoalAssumption
<1>4. goalTurn[t].read <= Len(decisions)
  BY <1>1, <1>2 DEF BoundInv
<1>5. /\ o \in GoalActions \X GoalReasons
      /\ o[1] = "plan" /\ ~over => Cardinality(PlansBefore(t)) < MaxContinuations
  BY <1>1, <1>3, <1>4, OutcomeTyped
<1>6. /\ pc \in {"updating", "deciding"}
      /\ pc = "updating" => o[1] \in {"block", "complete"}
  OBVIOUS
<1>7. /\ r \in TurnRecord /\ r.pc = pc /\ r.worker = goalTurn[t].worker
      /\ r.read = goalTurn[t].read /\ r.outcome = o /\ r.over = over
  BY <1>1, <1>3, <1>5, <1>6, ZenonT(40) DEF TurnRecord
<1>8. goalTurn' = [goalTurn EXCEPT ![t] = r]
  BY <1>1 DEF GoalDecide, TypeInv
<1>9. goal' \in [status : GoalStatuses, charged : SUBSET GoalTurns]
  BY <1>1 DEF GoalDecide, TypeInv
<1>10. /\ decisions' = decisions /\ followUp' = followUp /\ goalProc' = goalProc
       /\ goalRuns' = goalRuns
  BY DEF GoalDecide
<1>11. TypeInv' /\ TurnInv' /\ ProcInv' /\ TaskInv'
  BY <1>2, <1>6, <1>7, <1>8, <1>9, <1>10, QuietStep
<1>12. BoundInv'
  BY <1>2, <1>5, <1>6, <1>7, <1>8, <1>10, <1>11, QuietBound
<1> QED BY <1>11, <1>12 DEF GoalInv

LEMMA UpdateKeeps ==
  ASSUME GoalInv, NEW t \in GoalTurns, GoalUpdate(t)
  PROVE  GoalInv'
<1>1. TypeInv /\ BoundInv /\ goalTurn[t] \in TurnRecord
  BY DEF GoalInv, TypeInv
<1>2. goalTurn[t].pc = "updating" /\ InProgress(t) /\ Undecided(t)
  BY DEF GoalUpdate, At, InProgress, Undecided
<1>3. /\ decisions' = decisions /\ followUp' = followUp /\ goalProc' = goalProc
      /\ goalRuns' = goalRuns
  BY DEF GoalUpdate
<1>4. CASE EndTurn(t) /\ UNCHANGED goal
  BY <1>2, <1>3, <1>4, EndKeeps
<1>5. CASE /\ goal' = [goal EXCEPT !.status = IF goalTurn[t].outcome[1] = "block"
                                                 THEN "blocked" ELSE "completed"]
           /\ goalTurn' = [goalTurn EXCEPT ![t].pc = "deciding"]
  <2> PICK r : r = [goalTurn[t] EXCEPT !.pc = "deciding"]
    OBVIOUS
  <2>1. /\ r \in TurnRecord /\ r.pc = "deciding" /\ r.worker = goalTurn[t].worker
        /\ r.read = goalTurn[t].read /\ r.outcome = goalTurn[t].outcome
    BY <1>1 DEF TurnRecord
  <2>2. r.outcome[1] \in {"block", "complete"}
    BY <1>1, <1>2, <2>1 DEF BoundInv
  <2>3. goalTurn' = [goalTurn EXCEPT ![t] = r]
    BY <1>5
  <2>4. goal' \in [status : GoalStatuses, charged : SUBSET GoalTurns]
    BY <1>1, <1>5 DEF TypeInv, GoalStatuses
  <2>5. TypeInv' /\ TurnInv' /\ ProcInv' /\ TaskInv'
    BY <1>2, <1>3, <2>1, <2>3, <2>4, QuietStep
  <2>6. BoundInv'
    BY <1>2, <1>3, <2>1, <2>2, <2>3, <2>5, QuietBound
  <2> QED BY <2>5, <2>6 DEF GoalInv
<1> QED BY <1>4, <1>5 DEF GoalUpdate

\* The first decision of a turn: a plan makes its follow-up known before the
\* task exists.
LEMMA AppendFirstKeeps ==
  ASSUME GoalInv, NEW t \in GoalTurns, GoalAppendFirst(t)
  PROVE  GoalInv'
<1>1. TypeInv /\ BoundInv /\ TaskInv /\ goalTurn[t] \in TurnRecord
  BY DEF GoalInv, TypeInv
<1>2. goalTurn[t].pc = "deciding" /\ InProgress(t) /\ Undecided(t)
      /\ goalTurn[t].worker \in GoalWorker
  BY DEF GoalAppendFirst, At, InProgress, Undecided, GoalInv, TurnInv
<1>3. /\ goal' = goal /\ followUp' = followUp /\ goalProc' = goalProc
      /\ goalRuns' = goalRuns
  BY DEF GoalAppendFirst
<1> PICK plan : plan = (goalTurn[t].outcome[1] = "plan")
  OBVIOUS
<1> PICK new : new = CHOOSE c \in UnusedTurns : \A d \in UnusedTurns : c <= d
  OBVIOUS
<1> PICK child : child = IF plan THEN new ELSE 0
  OBVIOUS
<1> PICK action : action = IF plan THEN Planned
                           ELSE IF goal.status = "completed" /\ goalTurn[t].outcome[1] = "complete"
                                THEN CompletedGoal ELSE Stopped
  OBVIOUS
<1> PICK d : d = Decision(t, action, goalTurn[t].outcome[2], child)
  OBVIOUS
<1>4. plan => /\ child \in GoalTurns /\ child > UserTurns /\ child # 0
              /\ \A u \in GoalTurns : goalTurn[u].child # child
              /\ \A i \in DOMAIN decisions : decisions[i].child # child
  BY NewChild DEF GoalAppendFirst
<1>5. child \in 0 .. MaxGoalTurns
  BY <1>4, GoalAssumption
<1>6. /\ d \in DecisionRecord /\ d.worker = goalTurn[t].worker /\ d.action = action
      /\ d.over = goalTurn[t].over /\ d.child = child
  <2>1. /\ goalTurn[t].outcome[2] \in GoalReasons /\ goalTurn[t].over \in BOOLEAN
    BY <1>1 DEF TurnRecord
  <2>2. action \in {Planned, Admitted, Stopped, CompletedGoal}
    OBVIOUS
  <2> QED BY <1>2, <1>5, <2>1, <2>2 DEF Decision, DecisionRecord
<1>7. action = Planned => plan
  BY DEF Planned, CompletedGoal, Stopped
<1>8. d.action = Planned /\ ~d.over => HasRoom(t)
  BY <1>1, <1>2, <1>6, <1>7 DEF BoundInv, HasRoom
<1>9. CASE EndTurn(t) /\ decisions' \in {decisions, Append(decisions, d)}
  BY <1>2, <1>3, <1>6, <1>8, <1>9, EndKeeps
<1>10. CASE /\ plan /\ decisions' = Append(decisions, d)
            /\ goalTurn' = [goalTurn EXCEPT ![t].pc = "planned", ![t].child = child]
  <2> PICK r : r = [goalTurn[t] EXCEPT !.pc = "planned", !.child = child]
    OBVIOUS
  <2>1. /\ r \in TurnRecord /\ r.pc = "planned" /\ r.worker = goalTurn[t].worker
        /\ r.child = child
    BY <1>1, <1>5 DEF TurnRecord
  <2>2. goalTurn' = [goalTurn EXCEPT ![t] = r]
    <3>1. goalTurn' = [goalTurn EXCEPT ![t].pc = "planned", ![t].child = child]
      BY <1>10
    <3> QED BY <1>1, <3>1, PlannedRecord, ZenonT(40)
  <2>3. goal' \in [status : GoalStatuses, charged : SUBSET GoalTurns]
    BY <1>1, <1>3 DEF TypeInv
  <2>4. TypeInv' /\ TurnInv' /\ ProcInv'
    BY <1>2, <1>3, <1>6, <1>10, <2>1, <2>2, <2>3, QuietStep
  <2>5. goalTurn'[t] = r /\ \A u \in GoalTurns : u # t => goalTurn'[u] = goalTurn[u]
    BY <1>1, <2>1, <2>2, ChangedTurn
  <2>6. BoundInv'
    BY <1>2, <1>6, <1>8, <1>10, <2>1, <2>4, <2>5, BoundAppend
  <2>7. \A c \in GoalTurns : HasPlan(c) => HasPlan(c)'
    BY <1>1, <1>6, <1>10, PlansStay
  <2>8. HasPlan(child)'
    <3>a. TypeInv /\ d \in DecisionRecord /\ decisions' = Append(decisions, d)
      BY <1>1, <1>6, <1>10
    <3>b. /\ Len(decisions) \in Nat /\ DOMAIN decisions' = 1 .. Len(decisions) + 1
          /\ decisions'[Len(decisions) + 1] = d
      BY <3>a, Appended
    <3>1. Len(decisions) + 1 \in DOMAIN decisions' /\ decisions'[Len(decisions) + 1] = d
      BY <3>b
    <3> QED BY <1>6, <1>10, <3>1 DEF HasPlan
  <2>9. followUp[child].state = "none"
    <3>1. ~ HasPlan(child)
      BY <1>4, <1>10 DEF HasPlan
    <3> QED BY <1>1, <1>4, <1>10, <3>1 DEF TaskInv
  <2>10. \A u \in GoalTurns : goalTurn'[u].pc = "planned" =>
             \/ u = t /\ goalTurn'[u].child = child
             \/ /\ u # t /\ goalTurn[u].pc = "planned" /\ goalTurn'[u].child = goalTurn[u].child
                /\ goalTurn[u].child # child
    BY <1>4, <1>10, <2>1, <2>5, ZenonT(40)
  <2>11. TaskInv'
    <3> SUFFICES ASSUME NEW c \in GoalTurns
                 PROVE  /\ c <= UserTurns => followUp'[c].state = "none"
                        /\ followUp'[c].state = "none" /\ c > UserTurns => goalRuns'[c] = 0
                        /\ followUp'[c].state = "queued" => goalRuns'[c] = 0
                        /\ followUp'[c].state # "none" =>
                              HasPlan(c)' /\ followUp'[c].worker \in GoalWorker
                        /\ \A u \in GoalTurns :
                              goalTurn'[u].pc = "planned" /\ goalTurn'[u].child = c =>
                                  /\ c > UserTurns /\ HasPlan(c)' /\ followUp'[c].state = "none"
                                  /\ \A v \in GoalTurns :
                                        goalTurn'[v].pc = "planned" /\ goalTurn'[v].child = c
                                            => v = u
                        /\ \A u \in GoalTurns : goalTurn'[u].pc = "planned" => goalTurn'[u].child # 0
      BY DEF TaskInv
    <3>1. /\ c <= UserTurns => followUp'[c].state = "none"
          /\ followUp'[c].state = "none" /\ c > UserTurns => goalRuns'[c] = 0
          /\ followUp'[c].state = "queued" => goalRuns'[c] = 0
          /\ followUp'[c].state # "none" => HasPlan(c)' /\ followUp'[c].worker \in GoalWorker
      BY <1>1, <1>3, <2>7 DEF TaskInv
    <3>2. \A u \in GoalTurns : goalTurn'[u].pc = "planned" => goalTurn'[u].child # 0
      <4>1. \A u \in GoalTurns : goalTurn[u].pc = "planned" => goalTurn[u].child # 0
        BY <1>1 DEF TaskInv
      <4> QED BY <1>4, <1>10, <2>10, <4>1
    <3>3. CASE c = child
      <4>1. \A u \in GoalTurns : goalTurn'[u].pc = "planned" /\ goalTurn'[u].child = c => u = t
        BY <2>10, <3>3
      <4>2. c > UserTurns /\ followUp'[c].state = "none"
        BY <1>3, <1>4, <1>10, <2>9, <3>3
      <4>3. HasPlan(c)'
        BY <2>8, <3>3 DEF HasPlan
      <4>4. \A u \in GoalTurns :
                goalTurn'[u].pc = "planned" /\ goalTurn'[u].child = c =>
                    /\ c > UserTurns /\ HasPlan(c)' /\ followUp'[c].state = "none"
                    /\ \A v \in GoalTurns :
                          goalTurn'[v].pc = "planned" /\ goalTurn'[v].child = c => v = u
        BY <4>1, <4>2, <4>3
      <4> QED BY <3>1, <3>2, <4>4
    <3>4. CASE c # child
      <4>1. \A u \in GoalTurns : goalTurn'[u].pc = "planned" /\ goalTurn'[u].child = c =>
                goalTurn[u].pc = "planned" /\ goalTurn[u].child = c
        BY <2>10, <3>4
      <4>2. \A u \in GoalTurns :
                goalTurn[u].pc = "planned" /\ goalTurn[u].child = c =>
                    /\ c > UserTurns /\ HasPlan(c) /\ followUp[c].state = "none"
                    /\ \A v \in GoalTurns :
                          goalTurn[v].pc = "planned" /\ goalTurn[v].child = c => v = u
        BY <1>1 DEF TaskInv
      <4>3. \A u \in GoalTurns :
                goalTurn'[u].pc = "planned" /\ goalTurn'[u].child = c =>
                    /\ c > UserTurns /\ HasPlan(c)' /\ followUp'[c].state = "none"
                    /\ \A v \in GoalTurns :
                          goalTurn'[v].pc = "planned" /\ goalTurn'[v].child = c => v = u
        BY <1>3, <2>7, <4>1, <4>2
      <4> QED BY <3>1, <3>2, <4>3
    <3> QED BY <3>3, <3>4
  <2> QED BY <2>4, <2>6, <2>11 DEF GoalInv
<1>11. \/ EndTurn(t) /\ decisions' \in {decisions, Append(decisions, d)}
       \/ /\ plan /\ decisions' = Append(decisions, d)
          /\ goalTurn' = [goalTurn EXCEPT ![t].pc = "planned", ![t].child = child]
  BY DEF GoalAppendFirst
<1> QED BY <1>9, <1>10, <1>11

\* The task is created of what was planned, and the worker told of it.
LEMMA AdmitKeeps ==
  ASSUME GoalInv, NEW t \in GoalTurns, GoalAdmit(t)
  PROVE  GoalInv'
<1>1. TypeInv /\ BoundInv /\ TaskInv /\ ProcInv /\ goalTurn[t] \in TurnRecord
  BY DEF GoalInv, TypeInv
<1>2. goalTurn[t].pc = "planned" /\ InProgress(t) /\ goalTurn[t].worker \in GoalWorker
  BY DEF GoalAdmit, At, InProgress, GoalInv, TurnInv
<1> PICK w : w = goalTurn[t].worker
  OBVIOUS
<1> PICK c : c = goalTurn[t].child
  OBVIOUS
<1>3. w \in GoalWorker /\ c \in GoalTurns
  <2>1. c \in 0 .. MaxGoalTurns /\ c # 0
    BY <1>1, <1>2 DEF TurnRecord, TaskInv
  <2> QED BY <1>2, <2>1, GoalAssumption
<1>4. /\ c > UserTurns /\ HasPlan(c) /\ followUp[c].state = "none"
      /\ \A u \in GoalTurns : goalTurn[u].pc = "planned" /\ goalTurn[u].child = c => u = t
  BY <1>1, <1>2, <1>3 DEF TaskInv
<1>5. goal' = goal /\ decisions' = decisions /\ goalRuns' = goalRuns
  BY DEF GoalAdmit
<1>6. PICK b \in BOOLEAN :
          goalTurn' = [goalTurn EXCEPT ![t].pc = "confirming", ![t].admitted = b]
  <2>1. CASE goalTurn' = [goalTurn EXCEPT ![t].pc = "confirming", ![t].admitted = TRUE]
    BY <2>1
  <2>2. CASE goalTurn' = [goalTurn EXCEPT ![t].pc = "confirming"]
    <3>1. goalTurn[t].admitted \in BOOLEAN
      BY <1>1 DEF TurnRecord
    <3>2. goalTurn' = [goalTurn EXCEPT ![t].pc = "confirming", ![t].admitted = goalTurn[t].admitted]
      BY <1>1, <2>2 DEF TypeInv, TurnRecord
    <3> QED BY <3>1, <3>2
  <2> QED BY <2>1, <2>2 DEF GoalAdmit
<1> PICK r : r = [goalTurn[t] EXCEPT !.pc = "confirming", !.admitted = b]
  OBVIOUS
<1>7. /\ r \in TurnRecord /\ r.pc = "confirming" /\ r.worker = w
  BY <1>1 DEF TurnRecord
<1>8. goalTurn' = [goalTurn EXCEPT ![t] = r]
  BY <1>1, <1>6 DEF TypeInv
<1>9. /\ goalTurn' \in [GoalTurns -> TurnRecord] /\ goalTurn'[t] = r
      /\ \A u \in GoalTurns : u # t => goalTurn'[u] = goalTurn[u]
  BY <1>1, <1>7, <1>8, ChangedTurn
<1>10. ASSUME TypeInv' PROVE BoundInv'
  BY <1>5, <1>7, <1>8, <1>10, QuietBound
<1>11. CASE followUp' = followUp /\ goalProc' = goalProc
  <2>1. goal' \in [status : GoalStatuses, charged : SUBSET GoalTurns]
    BY <1>1, <1>5 DEF TypeInv
  <2>2. TypeInv' /\ TurnInv' /\ ProcInv' /\ TaskInv'
    BY <1>2, <1>5, <1>7, <1>8, <1>11, <2>1, QuietStep
  <2> QED BY <1>10, <2>2 DEF GoalInv
<1>12. CASE /\ followUp' = [followUp EXCEPT ![c] = [state |-> "queued", worker |-> w]]
            /\ goalProc' = [goalProc EXCEPT ![w].offers = @ \cup {c}]
  <2> PICK p \in Process : p = goalProc[w]
    BY <1>1, <1>3 DEF TypeInv
  <2> PICK q : q = [p EXCEPT !.offers = p.offers \cup {c}]
    OBVIOUS
  <2>1. /\ q \in Process /\ q.up = p.up /\ q.inbox = p.inbox /\ q.seen = p.seen
        /\ q.offers = p.offers \cup {c} /\ q.handling = p.handling
    BY <1>3 DEF Process
  <2>2. goalProc' = [goalProc EXCEPT ![w] = q]
    BY <1>12
  <2>3. /\ goalProc' \in [GoalWorker -> Process] /\ goalProc'[w] = q
        /\ \A v \in GoalWorker : v # w => goalProc'[v] = goalProc[v]
    BY <1>1, <1>3, <2>1, <2>2 DEF TypeInv
  <2>4. /\ followUp' \in [GoalTurns -> [state : {"none", "queued", "running", "over"},
                                        worker : GoalWorker \cup {NoWorker}]]
        /\ followUp'[c].state = "queued" /\ followUp'[c].worker = w
        /\ \A e \in GoalTurns : e # c => followUp'[e] = followUp[e]
    BY <1>1, <1>3, <1>12 DEF TypeInv
  <2>5. TypeInv'
    BY <1>1, <1>5, <1>9, <2>3, <2>4 DEF TypeInv
  <2>6. TurnInv'
    <3>1. \A v \in GoalWorker : goalProc'[v].up = goalProc[v].up
      BY <2>1, <2>3
    <3>2. goalTurn'[t].pc = "confirming" /\ goalTurn'[t].worker = goalTurn[t].worker
      BY <1>7, <1>9
    <3> QED BY <1>2, <1>5, <1>9, <3>1, <3>2, TurnStep
  <2>7. TaskInv'
    <3> SUFFICES ASSUME NEW e \in GoalTurns
                 PROVE  /\ e <= UserTurns => followUp'[e].state = "none"
                        /\ followUp'[e].state = "none" /\ e > UserTurns => goalRuns'[e] = 0
                        /\ followUp'[e].state = "queued" => goalRuns'[e] = 0
                        /\ followUp'[e].state # "none" =>
                              HasPlan(e)' /\ followUp'[e].worker \in GoalWorker
                        /\ \A u \in GoalTurns :
                              goalTurn'[u].pc = "planned" /\ goalTurn'[u].child = e =>
                                  /\ e > UserTurns /\ HasPlan(e)' /\ followUp'[e].state = "none"
                                  /\ \A v \in GoalTurns :
                                        goalTurn'[v].pc = "planned" /\ goalTurn'[v].child = e
                                            => v = u
                        /\ \A u \in GoalTurns : goalTurn'[u].pc = "planned" => goalTurn'[u].child # 0
      BY DEF TaskInv
    <3>1. HasPlan(e)' <=> HasPlan(e)
      BY <1>5 DEF HasPlan
    <3>2. \A u \in GoalTurns : goalTurn'[u].pc = "planned" =>
              u # t /\ goalTurn'[u] = goalTurn[u] /\ goalTurn[u].pc = "planned"
      BY <1>7, <1>9
    <3>3. \A u \in GoalTurns : goalTurn'[u].pc = "planned" => goalTurn'[u].child # 0
      BY <1>1, <3>2 DEF TaskInv
    <3>4. CASE e = c
      <4>1. followUp'[e].state = "queued" /\ followUp'[e].worker \in GoalWorker
        BY <1>3, <2>4, <3>4
      <4>2. goalRuns'[e] = 0
        BY <1>1, <1>3, <1>4, <1>5, <3>4 DEF TaskInv
      <4>3. HasPlan(e)'
        BY <1>4, <3>1, <3>4 DEF HasPlan
      <4>4. ~ (e <= UserTurns)
        BY <1>4, <3>4, GoalAssumption
      <4>5. \A u \in GoalTurns : ~ (goalTurn'[u].pc = "planned" /\ goalTurn'[u].child = e)
        BY <1>4, <3>2, <3>4
      <4> QED BY <3>3, <4>1, <4>2, <4>3, <4>4, <4>5
    <3>5. CASE e # c
      <4>1. followUp'[e] = followUp[e] /\ goalRuns'[e] = goalRuns[e]
        BY <1>5, <2>4, <3>5
      <4> QED BY <1>1, <3>1, <3>2, <3>3, <4>1 DEF TaskInv
    <3> QED BY <3>4, <3>5
  <2>8. ProcInv'
    <3>1. \A v \in GoalWorker : goalProc[v] \in Process
      BY <1>1 DEF TypeInv
    <3>2. \A v \in GoalWorker : /\ c \notin goalProc[v].offers \cup goalProc[v].seen
                                /\ \A k \in DOMAIN goalProc[v].inbox : goalProc[v].inbox[k] # c
      BY <1>1, <1>4 DEF ProcInv
    <3>3. \A v \in GoalWorker : /\ goalProc'[v].seen = goalProc[v].seen
                                /\ goalProc'[v].handling = goalProc[v].handling
                                /\ goalProc'[v].inbox = goalProc[v].inbox
                                /\ goalProc'[v].offers \subseteq goalProc[v].offers \cup {c}
                                /\ v # w => goalProc'[v].offers = goalProc[v].offers
      BY <2>1, <2>3
    <3> SUFFICES ASSUME NEW v \in GoalWorker
                 PROVE  /\ \A e \in goalProc'[v].offers \cup goalProc'[v].seen :
                              followUp'[e].state # "none" /\ followUp'[e].worker = v
                        /\ goalProc'[v].handling \subseteq goalProc'[v].seen
                        /\ \A k \in DOMAIN goalProc'[v].inbox :
                              /\ goalProc'[v].inbox[k] \in goalProc'[v].seen \ goalProc'[v].handling
                              /\ followUp'[goalProc'[v].inbox[k]].state = "queued"
                              /\ \A j \in DOMAIN goalProc'[v].inbox :
                                    goalProc'[v].inbox[j] = goalProc'[v].inbox[k] => j = k
      BY DEF ProcInv
    <3>4. \A e \in goalProc[v].offers \cup goalProc[v].seen :
              e \in GoalTurns /\ followUp'[e] = followUp[e]
      BY <2>4, <3>1, <3>2 DEF Process
    <3>5. ASSUME NEW e \in goalProc'[v].offers \cup goalProc'[v].seen
          PROVE  followUp'[e].state # "none" /\ followUp'[e].worker = v
      <4>1. CASE e = c
        BY <2>4, <3>2, <3>3, <3>5, <4>1
      <4>2. CASE e # c
        BY <1>1, <3>3, <3>4, <3>5, <4>2 DEF ProcInv
      <4> QED BY <4>1, <4>2
    <3>6. \A k \in DOMAIN goalProc[v].inbox :
              followUp'[goalProc[v].inbox[k]] = followUp[goalProc[v].inbox[k]]
      BY <1>1, <3>4 DEF ProcInv
    <3> QED BY <1>1, <3>3, <3>5, <3>6 DEF ProcInv
  <2> QED BY <1>10, <2>5, <2>6, <2>7, <2>8 DEF GoalInv
<1>13. \/ followUp' = followUp /\ goalProc' = goalProc
       \/ /\ followUp' = [followUp EXCEPT ![c] = [state |-> "queued", worker |-> w]]
          /\ goalProc' = [goalProc EXCEPT ![w].offers = @ \cup {c}]
  BY DEF GoalAdmit
<1> QED BY <1>11, <1>12, <1>13

LEMMA ConfirmKeeps ==
  ASSUME GoalInv, NEW t \in GoalTurns, GoalConfirm(t)
  PROVE  GoalInv'
<1>1. TypeInv /\ goalTurn[t] \in TurnRecord
  BY DEF GoalInv, TypeInv
<1>2. InProgress(t) /\ goalTurn[t].worker \in GoalWorker
  BY DEF GoalConfirm, At, InProgress, GoalInv, TurnInv
<1> PICK d : d = IF goalTurn[t].admitted
                 THEN Decision(t, Admitted, goalTurn[t].outcome[2], 0)
                 ELSE Decision(t, Stopped, "admission_failed", 0)
  OBVIOUS
<1>3. d \in DecisionRecord /\ d.worker = goalTurn[t].worker /\ d.action # Planned
  <2>1. goalTurn[t].outcome[2] \in GoalReasons /\ goalTurn[t].over \in BOOLEAN
    BY <1>1 DEF TurnRecord
  <2>2. 0 \in 0 .. MaxGoalTurns /\ "admission_failed" \in GoalReasons
    BY GoalAssumption DEF GoalReasons
  <2>3. Admitted # Planned /\ Stopped # Planned
    BY DEF Admitted, Stopped, Planned
  <2> QED BY <1>2, <2>1, <2>2, <2>3 DEF Decision, DecisionRecord
<1>4. /\ decisions' = decisions \/ decisions' = Append(decisions, d)
      /\ EndTurn(t)
      /\ goal' = goal /\ followUp' = followUp /\ goalProc' = goalProc /\ goalRuns' = goalRuns
  BY DEF GoalConfirm
<1> QED BY <1>2, <1>3, <1>4, EndKeeps

\* The task of a follow-up that ran is over, unless turn recovery is to end it.
LEMMA FinishKeeps ==
  ASSUME GoalInv, NEW t \in GoalTurns, GoalFinish(t)
  PROVE  GoalInv'
<1>1. TypeInv /\ TaskInv /\ ProcInv
  BY DEF GoalInv
<1>2. InProgress(t)
  BY DEF GoalFinish, At, InProgress
<1> PICK r : r = [FreshTurn EXCEPT !.pc = "done"]
  OBVIOUS
<1>3. r \in TurnRecord /\ r.pc = "done"
  BY FreshTyped DEF TurnRecord
<1>4. goalTurn' = [goalTurn EXCEPT ![t] = r]
  BY DEF GoalFinish
<1>5. /\ goalTurn' \in [GoalTurns -> TurnRecord] /\ goalTurn'[t] = r
      /\ \A u \in GoalTurns : u # t => goalTurn'[u] = goalTurn[u]
  BY <1>1, <1>3, <1>4, ChangedTurn
<1>6. goal' = goal /\ decisions' = decisions /\ goalProc' = goalProc /\ goalRuns' = goalRuns
  BY DEF GoalFinish
<1>7. /\ followUp' \in [GoalTurns -> [state : {"none", "queued", "running", "over"},
                                      worker : GoalWorker \cup {NoWorker}]]
      /\ \A c \in GoalTurns : followUp'[c].worker = followUp[c].worker
      /\ \A c \in GoalTurns : \/ followUp'[c].state = followUp[c].state
                              \/ followUp[c].state = "running" /\ followUp'[c].state = "over"
  <2>1. CASE followUp' = followUp
    BY <1>1, <2>1 DEF TypeInv
  <2>2. CASE followUp' = [followUp EXCEPT ![t].state =
                            IF followUp[t].state = "running" THEN "over" ELSE followUp[t].state]
    <3> PICK s : s = IF followUp[t].state = "running" THEN "over" ELSE followUp[t].state
      OBVIOUS
    <3>1. s \in {"none", "queued", "running", "over"}
      BY <1>1 DEF TypeInv
    <3>2. followUp' = [followUp EXCEPT ![t].state = s]
      BY <2>2
    <3>3. followUp'[t].state = s /\ followUp'[t].worker = followUp[t].worker
          /\ \A c \in GoalTurns : c # t => followUp'[c] = followUp[c]
      BY <1>1, <3>2 DEF TypeInv
    <3>4. followUp' \in [GoalTurns -> [state : {"none", "queued", "running", "over"},
                                      worker : GoalWorker \cup {NoWorker}]]
      BY <1>1, <3>1, <3>2 DEF TypeInv
    <3> QED BY <3>3, <3>4
  <2> QED BY <2>1, <2>2 DEF GoalFinish
<1>8. TypeInv'
  BY <1>1, <1>5, <1>6, <1>7 DEF TypeInv
<1>9. TurnInv'
  BY <1>2, <1>3, <1>5, <1>6, TurnStep
<1>10. TaskInv'
  <2>1. \A c \in GoalTurns : HasPlan(c)' <=> HasPlan(c)
    BY <1>6 DEF HasPlan
  <2>2. \A u \in GoalTurns : goalTurn'[u].pc = "planned" =>
            goalTurn[u].pc = "planned" /\ goalTurn'[u].child = goalTurn[u].child
    BY <1>3, <1>5
  <2>3. \A c \in GoalTurns : /\ followUp'[c].state = "none" <=> followUp[c].state = "none"
                             /\ followUp'[c].state = "queued" => followUp[c].state = "queued"
    BY <1>7
  <2> QED BY <1>1, <1>6, <1>7, <2>1, <2>2, <2>3 DEF TaskInv
<1>11. ProcInv'
  <2>1. \A w \in GoalWorker : goalProc[w] \in Process
    BY <1>1 DEF TypeInv
  <2>2. \A w \in GoalWorker : \A c \in goalProc[w].offers \cup goalProc[w].seen :
            /\ followUp'[c].state # "none" /\ followUp'[c].worker = w
            /\ followUp[c].state = "queued" => followUp'[c].state = "queued"
    BY <1>1, <1>7, <2>1 DEF ProcInv, Process
  <2> QED BY <1>1, <1>6, <2>2 DEF ProcInv
<1>12. BoundInv'
  BY <1>3, <1>4, <1>6, <1>8, QuietBound
<1> QED BY <1>8, <1>9, <1>10, <1>11, <1>12 DEF GoalInv

-----------------------------------------------------------------------------
(* The steps of a worker. *)

\* A worker does something with its own tasks.
LEMMA ServeStep ==
  ASSUME GoalInv, NEW w \in GoalWorker, NEW q \in Process,
         goalProc' = [goalProc EXCEPT ![w] = q], q.up = goalProc[w].up,
         \A c \in q.offers \cup q.seen : followUp[c].state # "none" /\ followUp[c].worker = w,
         q.handling \subseteq q.seen,
         \A k \in DOMAIN q.inbox :
             q.inbox[k] \in q.seen \ q.handling /\ followUp[q.inbox[k]].state = "queued",
         \A j, k \in DOMAIN q.inbox : q.inbox[j] = q.inbox[k] => j = k,
         goal' = goal, decisions' = decisions, goalTurn' = goalTurn, followUp' = followUp,
         goalRuns' = goalRuns
  PROVE  GoalInv'
<1>1. TypeInv /\ TurnInv /\ ProcInv /\ BoundInv
  BY DEF GoalInv
<1>2. /\ goalProc' \in [GoalWorker -> Process] /\ goalProc'[w] = q
      /\ \A v \in GoalWorker : v # w => goalProc'[v] = goalProc[v]
  BY <1>1 DEF TypeInv
<1>3. TypeInv'
  BY <1>1, <1>2 DEF TypeInv
<1>4. TurnInv'
  <2>1. \A v \in GoalWorker : goalProc'[v].up = goalProc[v].up
    BY <1>2
  <2>2. \A u \in GoalTurns : InProgress(u)' <=> InProgress(u)
    BY DEF InProgress
  <2> QED BY <1>1, <2>1, <2>2 DEF TurnInv
<1>5. TaskInv'
  BY <1>1, PlansStay, TaskStep
<1>6. ProcInv'
  BY <1>1, <1>2 DEF ProcInv
<1>7. BoundInv'
  <2>1. \A u \in GoalTurns : Undecided(u)' => Undecided(u)
    BY DEF Undecided
  <2>2. \A u \in GoalTurns : goalTurn[u].pc = "updating" =>
             goalTurn[u].outcome[1] \in {"block", "complete"}
    BY <1>1 DEF BoundInv
  <2>3. \A u \in GoalTurns :
             goalTurn[u].pc = "deciding" /\ goalTurn[u].outcome[1] = "plan" /\ ~goalTurn[u].over
                => Cardinality(PlansBefore(u)) < MaxContinuations
    BY <1>1 DEF BoundInv
  <2> QED BY <1>3, <2>1, <2>2, <2>3, BoundFrame
<1> QED BY <1>3, <1>4, <1>5, <1>6, <1>7 DEF GoalInv

LEMMA Seen ==
  ASSUME NEW p \in Process, NEW c \in GoalTurns, NEW q, q = MarkSeen(p, c)
  PROVE  /\ q \in Process /\ q.up = p.up /\ q.inbox = p.inbox /\ q.offers = p.offers
         /\ q.seen = p.seen \cup {c}
         /\ q.handling = p.handling \/ (c \notin p.seen /\ q.handling = p.handling \cup {c})
<1>1. CASE c \in p.seen
  BY <1>1 DEF MarkSeen, Process
<1>2. CASE c \notin p.seen
  <2>1. q = [p EXCEPT !.seen = p.seen \cup {c}, !.handling = p.handling \cup {c}]
    BY <1>2 DEF MarkSeen
  <2> QED BY <1>2, <2>1, ZenonT(40) DEF Process
<1> QED BY <1>1, <1>2

\* A worker is told of a task of its own, once or again.
LEMMA AssignKeeps ==
  ASSUME GoalInv, NEW w \in GoalWorker, NEW c \in GoalTurns,
         GoalAssigned(w, c) \/ GoalReassigned(w, c)
  PROVE  GoalInv'
<1>1. TypeInv /\ ProcInv
  BY DEF GoalInv
<1> PICK p \in Process : p = goalProc[w]
  BY <1>1 DEF TypeInv
<1>2. followUp[c].state # "none" /\ followUp[c].worker = w
  BY <1>1 DEF ProcInv, GoalAssigned, GoalReassigned
<1>3. PICK base \in Process :
          /\ base.up = p.up /\ base.inbox = p.inbox /\ base.seen = p.seen
          /\ base.handling = p.handling /\ base.offers \subseteq p.offers
          /\ goalProc' = [goalProc EXCEPT ![w] = MarkSeen(base, c)]
  <2>1. CASE GoalAssigned(w, c)
    <3> DEFINE less == [goalProc[w] EXCEPT !.offers = goalProc[w].offers \ {c}]
    <3>1. /\ less \in Process /\ less.up = p.up /\ less.inbox = p.inbox /\ less.seen = p.seen
          /\ less.handling = p.handling /\ less.offers \subseteq p.offers
      BY DEF Process
    <3>2. goalProc' = [goalProc EXCEPT ![w] = MarkSeen(less, c)]
      BY <2>1 DEF GoalAssigned
    <3> HIDE DEF less
    <3> QED BY <3>1, <3>2
  <2>2. CASE GoalReassigned(w, c)
    <3>1. goalProc' = [goalProc EXCEPT ![w] = MarkSeen(p, c)]
      BY <2>2 DEF GoalReassigned
    <3> QED BY <3>1
  <2> QED BY <2>1, <2>2
<1> PICK q : q = MarkSeen(base, c)
  OBVIOUS
<1>4. goalProc' = [goalProc EXCEPT ![w] = q]
  BY <1>3
<1>5. /\ q \in Process /\ q.up = base.up /\ q.inbox = base.inbox /\ q.offers = base.offers
      /\ q.seen = base.seen \cup {c}
      /\ q.handling = base.handling \/ (c \notin base.seen /\ q.handling = base.handling \cup {c})
  BY Seen
<1>6. /\ p.handling \subseteq p.seen
      /\ \A e \in p.offers \cup p.seen : followUp[e].state # "none" /\ followUp[e].worker = w
      /\ \A k \in DOMAIN p.inbox :
            p.inbox[k] \in p.seen \ p.handling /\ followUp[p.inbox[k]].state = "queued"
      /\ \A j, k \in DOMAIN p.inbox : p.inbox[j] = p.inbox[k] => j = k
  BY <1>1 DEF ProcInv
<1>7. \A e \in q.offers \cup q.seen : followUp[e].state # "none" /\ followUp[e].worker = w
  BY <1>2, <1>3, <1>5, <1>6
<1>8. q.handling \subseteq q.seen
  BY <1>3, <1>5, <1>6
<1>9. \A k \in DOMAIN q.inbox :
          q.inbox[k] \in q.seen \ q.handling /\ followUp[q.inbox[k]].state = "queued"
  BY <1>3, <1>5, <1>6
<1>10. \A j, k \in DOMAIN q.inbox : q.inbox[j] = q.inbox[k] => j = k
  BY <1>3, <1>5, <1>6
<1>11. goal' = goal /\ decisions' = decisions /\ goalTurn' = goalTurn /\ followUp' = followUp
       /\ goalRuns' = goalRuns
  BY DEF GoalAssigned, GoalReassigned
<1>12. q.up = goalProc[w].up
  BY <1>3, <1>5
<1> QED BY <1>4, <1>5, <1>7, <1>8, <1>9, <1>10, <1>11, <1>12, ServeStep

\* A queued task becomes an inbound turn, or is forgotten.
LEMMA HandleKeeps ==
  ASSUME GoalInv, NEW w \in GoalWorker, NEW c \in GoalTurns, GoalHandle(w, c)
  PROVE  GoalInv'
<1>1. TypeInv /\ ProcInv
  BY DEF GoalInv
<1> PICK p \in Process : p = goalProc[w]
  BY <1>1 DEF TypeInv
<1>2. c \in p.handling /\ c \in p.seen
  BY <1>1 DEF GoalHandle, ProcInv
<1>3. /\ p.handling \subseteq p.seen
      /\ \A e \in p.offers \cup p.seen : followUp[e].state # "none" /\ followUp[e].worker = w
      /\ \A k \in DOMAIN p.inbox : /\ p.inbox[k] \in p.seen \ p.handling /\ p.inbox[k] # c
                                   /\ followUp[p.inbox[k]].state = "queued"
      /\ \A j, k \in DOMAIN p.inbox : p.inbox[j] = p.inbox[k] => j = k
  BY <1>1, <1>2 DEF ProcInv
<1>4. goal' = goal /\ decisions' = decisions /\ goalTurn' = goalTurn /\ followUp' = followUp
      /\ goalRuns' = goalRuns
  BY DEF GoalHandle
<1>5. CASE goalProc' = [goalProc EXCEPT ![w].handling = @ \ {c}, ![w].seen = @ \ {c}]
  <2>1. PICK q \in Process :
            /\ q.up = p.up /\ q.inbox = p.inbox /\ q.offers = p.offers
            /\ q.seen = p.seen \ {c} /\ q.handling = p.handling \ {c}
            /\ goalProc' = [goalProc EXCEPT ![w] = q]
    <3> PICK r : r = [p EXCEPT !.handling = p.handling \ {c}, !.seen = p.seen \ {c}]
      OBVIOUS
    <3>1. /\ r \in Process /\ r.up = p.up /\ r.inbox = p.inbox /\ r.offers = p.offers
          /\ r.seen = p.seen \ {c} /\ r.handling = p.handling \ {c}
      BY DEF Process
    <3>2. goalProc' = [goalProc EXCEPT ![w] = r]
      BY <1>1, <1>5 DEF TypeInv
    <3> QED BY <3>1, <3>2
  <2>2. goalProc' = [goalProc EXCEPT ![w] = q]
    BY <2>1
  <2>3. \A k \in DOMAIN q.inbox :
            q.inbox[k] \in q.seen \ q.handling /\ followUp[q.inbox[k]].state = "queued"
    BY <1>3, <2>1
  <2>4. \A e \in q.offers \cup q.seen : followUp[e].state # "none" /\ followUp[e].worker = w
    BY <1>3, <2>1
  <2>5. q.handling \subseteq q.seen
    BY <1>3, <2>1
  <2>6. \A j, k \in DOMAIN q.inbox : q.inbox[j] = q.inbox[k] => j = k
    BY <1>3, <2>1
  <2>7. q.up = goalProc[w].up
    BY <2>1
  <2> QED BY <1>4, <2>1, <2>2, <2>3, <2>4, <2>5, <2>6, <2>7, ServeStep
<1>6. CASE goalProc' = [goalProc EXCEPT ![w].handling = @ \ {c},
              ![w].inbox = IF followUp[c].state = "queued" THEN Append(@, c) ELSE @]
  <2> PICK box : box = IF followUp[c].state = "queued" THEN Append(p.inbox, c) ELSE p.inbox
    OBVIOUS
  <2>2. p.inbox \in Seq(GoalTurns)
    BY DEF Process
  <2>3. /\ box \in Seq(GoalTurns)
        /\ \A k \in DOMAIN box : /\ box[k] \in p.seen \ (p.handling \ {c})
                                 /\ followUp[box[k]].state = "queued"
        /\ \A j, k \in DOMAIN box : box[j] = box[k] => j = k
    <3>1. CASE followUp[c].state # "queued"
      BY <1>3, <2>2, <3>1
    <3>2. CASE followUp[c].state = "queued"
      <4>1. /\ box \in Seq(GoalTurns) /\ DOMAIN box = 1 .. Len(p.inbox) + 1
            /\ DOMAIN p.inbox = 1 .. Len(p.inbox) /\ Len(p.inbox) \in Nat
            /\ box[Len(p.inbox) + 1] = c /\ \A k \in 1 .. Len(p.inbox) : box[k] = p.inbox[k]
        <5> HIDE DEF GoalTurns
        <5>1. box = Append(p.inbox, c)
          BY <3>2
        <5> QED BY <2>2, <5>1, PutLast
      <4>2. \A k \in DOMAIN box : \/ k = Len(p.inbox) + 1 /\ box[k] = c
                                  \/ /\ k \in DOMAIN p.inbox /\ box[k] = p.inbox[k]
                                     /\ box[k] # c
        BY <1>3, <4>1
      <4>3. \A k \in DOMAIN box : /\ box[k] \in p.seen \ (p.handling \ {c})
                                  /\ followUp[box[k]].state = "queued"
        BY <1>2, <1>3, <3>2, <4>2
      <4>4. \A j, k \in DOMAIN box : box[j] = box[k] => j = k
        BY <1>3, <4>2
      <4> QED BY <4>1, <4>3, <4>4
    <3> QED BY <3>1, <3>2
  <2>4. PICK q \in Process :
            /\ q.up = p.up /\ q.inbox = box /\ q.offers = p.offers
            /\ q.seen = p.seen /\ q.handling = p.handling \ {c}
            /\ goalProc' = [goalProc EXCEPT ![w] = q]
    <3> PICK r : r = [p EXCEPT !.handling = p.handling \ {c}, !.inbox = box]
      OBVIOUS
    <3>1. /\ r \in Process /\ r.up = p.up /\ r.inbox = box /\ r.offers = p.offers
          /\ r.seen = p.seen /\ r.handling = p.handling \ {c}
      BY <2>3 DEF Process
    <3>2. goalProc' = [goalProc EXCEPT ![w] = r]
      BY <1>1, <1>6 DEF TypeInv
    <3> QED BY <3>1, <3>2
  <2>5. \A k \in DOMAIN q.inbox :
            q.inbox[k] \in q.seen \ q.handling /\ followUp[q.inbox[k]].state = "queued"
    BY <2>3, <2>4
  <2>6. \A j, k \in DOMAIN q.inbox : q.inbox[j] = q.inbox[k] => j = k
    BY <2>3, <2>4
  <2>7. \A e \in q.offers \cup q.seen : followUp[e].state # "none" /\ followUp[e].worker = w
    BY <1>3, <2>4
  <2>8. q.handling \subseteq q.seen
    BY <1>3, <2>4
  <2>9. q.up = goalProc[w].up
    BY <2>4
  <2>10. goalProc' = [goalProc EXCEPT ![w] = q]
    BY <2>4
  <2> QED BY <1>4, <2>10, <2>5, <2>6, <2>7, <2>8, <2>9, ServeStep
<1> QED BY <1>5, <1>6 DEF GoalHandle

\* A worker stops: its turns are lost, and tasks that were not yet enqueued may
\* be over.
LEMMA CrashKeeps ==
  ASSUME GoalInv, NEW w \in GoalWorker, GoalCrash(w)
  PROVE  GoalInv'
<1>1. TypeInv /\ TurnInv /\ TaskInv /\ ProcInv /\ BoundInv
  BY DEF GoalInv
<1>2. PICK rejected \in SUBSET goalProc[w].handling :
          followUp' = [c \in GoalTurns |->
              IF c \in rejected /\ followUp[c].state = "queued"
              THEN [followUp[c] EXCEPT !.state = "over"] ELSE followUp[c]]
  BY DEF GoalCrash
<1>3. goal' = goal /\ decisions' = decisions /\ goalRuns' = goalRuns
  BY DEF GoalCrash
<1> PICK r : r = [FreshTurn EXCEPT !.pc = "lost"]
  OBVIOUS
<1>4. r \in TurnRecord /\ r.pc = "lost"
  BY FreshTyped DEF TurnRecord
<1>5. goalTurn' = [t \in GoalTurns |-> IF InProgress(t) /\ goalTurn[t].worker = w THEN r ELSE goalTurn[t]]
  BY DEF GoalCrash
<1>6. /\ goalTurn' \in [GoalTurns -> TurnRecord]
      /\ \A t \in GoalTurns : \/ goalTurn'[t] = goalTurn[t] /\ (InProgress(t) => goalTurn[t].worker # w)
                              \/ goalTurn'[t] = r /\ InProgress(t)
  BY <1>1, <1>4, <1>5 DEF TypeInv
<1> PICK q : q = [IdleProc EXCEPT !.up = FALSE]
  OBVIOUS
<1>7. /\ q \in Process /\ q.offers = {} /\ q.seen = {} /\ q.handling = {} /\ q.inbox = <<>>
      /\ DOMAIN q.inbox = {}
  BY IdleTyped DEF Process
<1>8. goalProc' = [goalProc EXCEPT ![w] = q]
  BY DEF GoalCrash
<1>9. /\ goalProc' \in [GoalWorker -> Process] /\ goalProc'[w] = q
      /\ \A v \in GoalWorker : v # w => goalProc'[v] = goalProc[v]
  BY <1>1, <1>7, <1>8 DEF TypeInv
<1>10. /\ followUp' \in [GoalTurns -> [state : {"none", "queued", "running", "over"},
                                       worker : GoalWorker \cup {NoWorker}]]
       /\ \A c \in GoalTurns : /\ followUp'[c].worker = followUp[c].worker
                               /\ \/ followUp'[c].state = followUp[c].state
                                  \/ /\ followUp[c].state = "queued" /\ followUp'[c].state = "over"
                                     /\ followUp[c].worker = w
  <2> SUFFICES ASSUME NEW c \in GoalTurns
               PROVE  /\ followUp'[c] \in [state : {"none", "queued", "running", "over"},
                                           worker : GoalWorker \cup {NoWorker}]
                      /\ followUp'[c].worker = followUp[c].worker
                      /\ \/ followUp'[c].state = followUp[c].state
                         \/ /\ followUp[c].state = "queued" /\ followUp'[c].state = "over"
                            /\ followUp[c].worker = w
    BY <1>2
  <2>1. followUp[c] \in [state : {"none", "queued", "running", "over"},
                         worker : GoalWorker \cup {NoWorker}]
    BY <1>1 DEF TypeInv
  <2>2. CASE c \in rejected /\ followUp[c].state = "queued"
    <3>1. followUp'[c] = [followUp[c] EXCEPT !.state = "over"]
      BY <1>2, <2>2
    <3>2. followUp[c].worker = w
      BY <1>1, <2>2 DEF ProcInv
    <3> QED BY <2>1, <2>2, <3>1, <3>2
  <2>3. CASE ~ (c \in rejected /\ followUp[c].state = "queued")
    <3>1. followUp'[c] = followUp[c]
      BY <1>2, <2>3
    <3> QED BY <2>1, <3>1
  <2> QED BY <2>2, <2>3
<1>11. TypeInv'
  BY <1>1, <1>3, <1>6, <1>9, <1>10 DEF TypeInv
<1>12. TurnInv'
  <2>1. \A t \in GoalTurns : InProgress(t)' =>
            InProgress(t) /\ goalTurn'[t] = goalTurn[t] /\ goalTurn[t].worker # w
    BY <1>4, <1>6 DEF InProgress
  <2>2. \A t \in GoalTurns : goalTurn'[t].pc = "new" <=> goalTurn[t].pc = "new"
    BY <1>4, <1>6 DEF InProgress
  <2> QED BY <1>1, <1>3, <1>9, <2>1, <2>2 DEF TurnInv
<1>13. TaskInv'
  <2>1. \A c \in GoalTurns : HasPlan(c)' <=> HasPlan(c)
    BY <1>3 DEF HasPlan
  <2>2. \A u \in GoalTurns : goalTurn'[u].pc = "planned" =>
            goalTurn[u].pc = "planned" /\ goalTurn'[u].child = goalTurn[u].child
    BY <1>4, <1>6
  <2>3. \A c \in GoalTurns : /\ followUp'[c].state = "none" <=> followUp[c].state = "none"
                             /\ followUp'[c].state = "queued" => followUp[c].state = "queued"
    BY <1>10
  <2> QED BY <1>1, <1>3, <1>10, <2>1, <2>2, <2>3 DEF TaskInv
<1>14. ProcInv'
  <2> SUFFICES ASSUME NEW v \in GoalWorker
               PROVE  /\ \A c \in goalProc'[v].offers \cup goalProc'[v].seen :
                            followUp'[c].state # "none" /\ followUp'[c].worker = v
                      /\ goalProc'[v].handling \subseteq goalProc'[v].seen
                      /\ \A k \in DOMAIN goalProc'[v].inbox :
                            /\ goalProc'[v].inbox[k] \in goalProc'[v].seen \ goalProc'[v].handling
                            /\ followUp'[goalProc'[v].inbox[k]].state = "queued"
                            /\ \A j \in DOMAIN goalProc'[v].inbox :
                                  goalProc'[v].inbox[j] = goalProc'[v].inbox[k] => j = k
    BY DEF ProcInv
  <2>1. CASE v = w
    BY <1>7, <1>9, <2>1
  <2>2. CASE v # w
    <3>1. goalProc'[v] = goalProc[v] /\ goalProc[v] \in Process
      BY <1>1, <1>9, <2>2 DEF TypeInv
    <3>2. \A c \in goalProc[v].offers \cup goalProc[v].seen :
              /\ c \in GoalTurns /\ followUp[c].worker = v /\ followUp[c].state # "none"
              /\ followUp'[c].state = followUp[c].state /\ followUp'[c].worker = v
      BY <1>1, <1>10, <2>2, <3>1 DEF ProcInv, Process
    <3> QED BY <1>1, <3>1, <3>2 DEF ProcInv
  <2> QED BY <2>1, <2>2
<1>15. BoundInv'
  <2>1. \A t \in GoalTurns : goalTurn'[t].pc \in {"listed", "updating", "deciding"} =>
            goalTurn'[t] = goalTurn[t]
    BY <1>4, <1>6
  <2>2. \A t \in GoalTurns : Undecided(t)' =>
             /\ Undecided(t) /\ goalTurn'[t].read = goalTurn[t].read
             /\ goalTurn'[t].worker = goalTurn[t].worker
    BY <2>1 DEF Undecided
  <2>3. \A t \in GoalTurns : goalTurn'[t].pc = "updating" =>
             goalTurn'[t].outcome[1] \in {"block", "complete"}
    BY <1>1, <2>1 DEF BoundInv
  <2>4. \A t \in GoalTurns :
             goalTurn'[t].pc = "deciding" /\ goalTurn'[t].outcome[1] = "plan" /\ ~goalTurn'[t].over
                => Cardinality(PlansBefore(t)) < MaxContinuations
    BY <1>1, <2>1 DEF BoundInv
  <2> QED BY <1>3, <1>11, <2>2, <2>3, <2>4, BoundFrame
<1> QED BY <1>11, <1>12, <1>13, <1>14, <1>15 DEF GoalInv

\* A worker starts: it is offered its queued tasks, and nobody else is on it.
LEMMA RestartKeeps ==
  ASSUME GoalInv, NEW w \in GoalWorker, GoalRestart(w)
  PROVE  GoalInv'
<1>1. TypeInv /\ TurnInv /\ TaskInv /\ ProcInv /\ BoundInv
  BY DEF GoalInv
<1>2. /\ goal' = goal /\ decisions' = decisions /\ goalTurn' = goalTurn /\ goalRuns' = goalRuns
      /\ ~goalProc[w].up
  BY DEF GoalRestart
<1>3. QueuedOf(w) \subseteq GoalTurns
      /\ \A c \in QueuedOf(w) : followUp[c].state = "queued" /\ followUp[c].worker = w
  BY DEF QueuedOf
<1> PICK q : q = [IdleProc EXCEPT !.offers = QueuedOf(w)]
  OBVIOUS
<1>4. /\ q \in Process /\ q.offers = QueuedOf(w) /\ q.seen = {} /\ q.handling = {} /\ q.inbox = <<>>
      /\ DOMAIN q.inbox = {}
  BY <1>3, IdleTyped DEF Process
<1>5. goalProc' = [goalProc EXCEPT ![w] = q]
  BY DEF GoalRestart
<1>6. /\ goalProc' \in [GoalWorker -> Process] /\ goalProc'[w] = q
      /\ \A v \in GoalWorker : v # w => goalProc'[v] = goalProc[v]
  BY <1>1, <1>4, <1>5 DEF TypeInv
<1>7. /\ followUp' \in [GoalTurns -> [state : {"none", "queued", "running", "over"},
                                      worker : GoalWorker \cup {NoWorker}]]
      /\ \A c \in GoalTurns : /\ followUp'[c].worker = followUp[c].worker
                              /\ \/ followUp'[c].state = followUp[c].state
                                 \/ followUp[c].state = "running" /\ followUp'[c].state = "over"
  <2> SUFFICES ASSUME NEW c \in GoalTurns
               PROVE  /\ followUp'[c] \in [state : {"none", "queued", "running", "over"},
                                           worker : GoalWorker \cup {NoWorker}]
                      /\ followUp'[c].worker = followUp[c].worker
                      /\ \/ followUp'[c].state = followUp[c].state
                         \/ followUp[c].state = "running" /\ followUp'[c].state = "over"
    BY DEF GoalRestart
  <2>1. followUp[c] \in [state : {"none", "queued", "running", "over"},
                         worker : GoalWorker \cup {NoWorker}]
    BY <1>1 DEF TypeInv
  <2>2. CASE followUp[c] = [state |-> "running", worker |-> w]
    <3>1. followUp'[c] = [followUp[c] EXCEPT !.state = "over"]
      BY <2>2 DEF GoalRestart
    <3>2. followUp[c].state = "running"
      BY <2>2
    <3> QED BY <2>1, <3>1, <3>2
  <2>3. CASE followUp[c] # [state |-> "running", worker |-> w]
    <3>1. followUp'[c] = followUp[c]
      BY <2>3 DEF GoalRestart
    <3> QED BY <2>1, <3>1
  <2> QED BY <2>2, <2>3
<1>8. TypeInv'
  BY <1>1, <1>2, <1>6, <1>7 DEF TypeInv
<1>9. TurnInv'
  <2>1. \A t \in GoalTurns : /\ InProgress(t)' <=> InProgress(t)
                             /\ InProgress(t) => goalTurn[t].worker # w
    BY <1>1, <1>2 DEF InProgress, TurnInv
  <2> QED BY <1>1, <1>2, <1>6, <2>1 DEF TurnInv
<1>10. TaskInv'
  <2>1. \A c \in GoalTurns : HasPlan(c)' <=> HasPlan(c)
    BY <1>2 DEF HasPlan
  <2>2. \A c \in GoalTurns : /\ followUp'[c].state = "none" <=> followUp[c].state = "none"
                             /\ followUp'[c].state = "queued" => followUp[c].state = "queued"
    BY <1>7
  <2> QED BY <1>1, <1>2, <1>7, <2>1, <2>2 DEF TaskInv
<1>11. ProcInv'
  <2> SUFFICES ASSUME NEW v \in GoalWorker
               PROVE  /\ \A c \in goalProc'[v].offers \cup goalProc'[v].seen :
                            followUp'[c].state # "none" /\ followUp'[c].worker = v
                      /\ goalProc'[v].handling \subseteq goalProc'[v].seen
                      /\ \A k \in DOMAIN goalProc'[v].inbox :
                            /\ goalProc'[v].inbox[k] \in goalProc'[v].seen \ goalProc'[v].handling
                            /\ followUp'[goalProc'[v].inbox[k]].state = "queued"
                            /\ \A j \in DOMAIN goalProc'[v].inbox :
                                  goalProc'[v].inbox[j] = goalProc'[v].inbox[k] => j = k
    BY DEF ProcInv
  <2>1. CASE v = w
    <3>1. \A c \in QueuedOf(w) : followUp'[c].state # "none" /\ followUp'[c].worker = w
      BY <1>3, <1>7
    <3> QED BY <1>4, <1>6, <2>1, <3>1, ZenonT(40)
  <2>2. CASE v # w
    <3>1. goalProc'[v] = goalProc[v] /\ goalProc[v] \in Process
      BY <1>1, <1>6, <2>2 DEF TypeInv
    <3>2. \A c \in goalProc[v].offers \cup goalProc[v].seen :
              /\ c \in GoalTurns /\ followUp'[c].state # "none" /\ followUp'[c].worker = v
              /\ followUp[c].state = "queued" => followUp'[c].state = "queued"
      BY <1>1, <1>7, <3>1 DEF ProcInv, Process
    <3> QED BY <1>1, <3>1, <3>2 DEF ProcInv
  <2> QED BY <2>1, <2>2
<1>12. BoundInv'
  <2>1. \A t \in GoalTurns : Undecided(t)' => Undecided(t)
    BY <1>2 DEF Undecided
  <2>2. \A t \in GoalTurns : goalTurn'[t].pc = "updating" =>
             goalTurn'[t].outcome[1] \in {"block", "complete"}
    BY <1>1, <1>2 DEF BoundInv
  <2>3. \A t \in GoalTurns :
             goalTurn'[t].pc = "deciding" /\ goalTurn'[t].outcome[1] = "plan" /\ ~goalTurn'[t].over
                => Cardinality(PlansBefore(t)) < MaxContinuations
    BY <1>1, <1>2 DEF BoundInv
  <2> QED BY <1>2, <1>8, <2>1, <2>2, <2>3, BoundFrame
<1> QED BY <1>8, <1>9, <1>10, <1>11, <1>12 DEF GoalInv

-----------------------------------------------------------------------------
(* The theorems. *)

LEMMA GoalStepKeeps == GoalInv /\ [GoalNext]_goalVars => GoalInv'
<1> SUFFICES ASSUME GoalInv, [GoalNext]_goalVars
             PROVE  GoalInv'
  OBVIOUS
<1>1. ASSUME NEW t \in GoalTurns, GoalStep(t)
      PROVE  GoalInv'
  <2>1. ASSUME NEW w \in GoalWorker, GoalBegin(t, w) PROVE GoalInv'
    BY <2>1, BeginKeeps
  <2>2. ASSUME NEW verdict \in GoalVerdicts, GoalDecide(t, verdict) PROVE GoalInv'
    BY <2>2, DecideKeeps
  <2>3. ASSUME GoalList(t) \/ GoalUpdate(t) \/ GoalAppendFirst(t) PROVE GoalInv'
    BY <2>3, ListKeeps, UpdateKeeps, AppendFirstKeeps
  <2>4. ASSUME GoalAdmit(t) \/ GoalConfirm(t) \/ GoalFinish(t) PROVE GoalInv'
    BY <2>4, AdmitKeeps, ConfirmKeeps, FinishKeeps
  <2> QED BY <1>1, <2>1, <2>2, <2>3, <2>4 DEF GoalStep
<1>2. ASSUME NEW t \in GoalTurns, NEW status \in GoalToolStatuses, GoalTool(t, status)
      PROVE  GoalInv'
  BY <1>2, ToolKeeps
<1>3. ASSUME NEW w \in GoalWorker, GoalServe(w)
      PROVE  GoalInv'
  BY <1>3, AssignKeeps, HandleKeeps, RestartKeeps DEF GoalServe
<1>4. ASSUME NEW w \in GoalWorker, GoalCrash(w)
      PROVE  GoalInv'
  BY <1>4, CrashKeeps
<1>5. ASSUME NEW w \in GoalWorker, NEW c \in GoalTurns, GoalReassigned(w, c)
      PROVE  GoalInv'
  BY <1>5, AssignKeeps
<1>6. CASE UNCHANGED goalVars
  <2>1. /\ goal' = goal /\ decisions' = decisions /\ goalTurn' = goalTurn /\ followUp' = followUp
        /\ goalProc' = goalProc /\ goalRuns' = goalRuns
    BY <1>6 DEF goalVars
  <2> QED BY <2>1 DEF GoalInv, TypeInv, TurnInv, TaskInv, ProcInv, BoundInv, InProgress, HasPlan,
                      Undecided, PlansBefore, HasRoom, Contender, FollowUps, PlansIn
<1> QED BY <1>1, <1>2, <1>3, <1>4, <1>5, <1>6 DEF GoalNext

LEMMA GoalInvariant == GoalSpec => []GoalInv
BY InitialGoal, GoalStepKeeps, PTL DEF GoalSpec

(***************************************************************************)
(* The goal, its ledger, the tasks and the workers keep their types        *)
(* (pkg/goal, goal_continuations.go).                                      *)
(***************************************************************************)
THEOREM GoalTyped == GoalSpec => []GoalTypeOK
<1>1. GoalInv => GoalTypeOK
  <2> SUFFICES ASSUME GoalInv PROVE GoalTypeOK
    OBVIOUS
  <2>1. goal.status \in GoalStatuses /\ goal.charged \subseteq GoalTurns
    BY DEF GoalInv, TypeInv
  <2>2. \A i \in DOMAIN decisions :
            decisions[i].action \in {Planned, Admitted, Stopped, CompletedGoal}
    <3>1. decisions \in Seq(DecisionRecord)
      BY DEF GoalInv, TypeInv
    <3>2. \A i \in DOMAIN decisions : decisions[i] \in DecisionRecord
      BY <3>1
    <3> QED BY <3>2 DEF DecisionRecord
  <2>3. \A t \in GoalTurns : followUp[t].state \in {"none", "queued", "running", "over"}
    BY DEF GoalInv, TypeInv
  <2>4. \A w \in GoalWorker : goalProc[w].handling \subseteq goalProc[w].seen
    BY DEF GoalInv, ProcInv
  <2> QED BY <2>1, <2>2, <2>3, <2>4 DEF GoalTypeOK
<1> QED BY GoalInvariant, <1>1, PTL

(***************************************************************************)
(* Whatever turns of several workers decide at the same time, the limit of *)
(* follow-ups is missed by at most one for each further worker; the plan   *)
(* is durable before its task exists; and a follow-up runs at most once,   *)
(* however often it is assigned, recovered or interrupted (runtime.go      *)
(* AfterTurn, goal_continuations.go).                                      *)
(***************************************************************************)
THEOREM GoalIsSound == GoalSpec => []GoalSound
<1>1. GoalInv => GoalSound
  <2> SUFFICES ASSUME GoalInv PROVE GoalSound
    OBVIOUS
  <2>1. TypeInv /\ TurnInv /\ TaskInv /\ BoundInv
    BY DEF GoalInv
  <2>2. Cardinality(FollowUps) <= MaxContinuations + Cardinality(GoalWorker) - 1
    <3>1. /\ Cardinality(FollowUps) \in Nat /\ Cardinality(Contender) \in Nat
          /\ Cardinality(GoalWorker) \in Nat /\ MaxContinuations \in Nat
      BY <2>1, PlansFinite, GoalAssumption
    <3>2. Cardinality(GoalWorker) # 0
      BY GoalAssumption, FS_EmptySet
    <3>3. Cardinality(FollowUps) >= MaxContinuations =>
            Cardinality(FollowUps) + Cardinality(Contender)
                <= MaxContinuations + Cardinality(GoalWorker) - 1
      BY <2>1 DEF BoundInv
    <3> QED BY <3>1, <3>2, <3>3
  <2>3. \A w \in GoalWorker :
          Cardinality({i \in FollowUps : decisions[i].worker = w}) <= MaxContinuations
    BY <2>1 DEF BoundInv
  <2>4. GoalFollowUpsBounded
    BY <2>2, <2>3 DEF GoalFollowUpsBounded, FollowUps
  <2>5. GoalTasksArePlanned
    BY <2>1 DEF TaskInv, GoalTasksArePlanned
  <2>6. GoalRunsOnce
    BY <2>1 DEF TurnInv, GoalRunsOnce
  <2> QED BY <2>4, <2>5, <2>6 DEF GoalSound
<1> QED BY GoalInvariant, <1>1, PTL
=============================================================================
