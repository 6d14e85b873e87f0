------------------------ MODULE ScheduledTurnsProofs ------------------------
(***************************************************************************)
(* The scheduled turns of a worker, for any number of declarations, tasks, *)
(* deliveries, edits, faults and crashes: a task begins its turn at most   *)
(* once and as declared, and an update that succeeded has converged.       *)
(*                                                                         *)
(* The argument: as long as Aether has a task queued, one goroutine or one *)
(* place of the inbox is all that works for it (QueueInv), because the     *)
(* executor takes a task once; only that one can begin, or fail, the task. *)
(* Where a task was accepted is remembered from the time it was taken      *)
(* (ValidInv).  An update works on one set of declarations, and what it    *)
(* has neither written nor to write is as declared (UpdateInv).            *)
(***************************************************************************)
EXTENDS ScheduledTurns, TLAPS

TaskStatus == {"none", "queued", "running", "completed", "failed"}
LateStage == {"check", "bind", "send", "reject"}
Stage == {"idle", "inspect"} \cup LateStage

TypeInv ==
    /\ configured \in [Sched -> Digest] /\ schedules \in [Sched -> Digest]
    /\ registrations \in [Sched -> Digest] /\ applied \in [Sched -> Digest]
    /\ update \in [phase : {"idle", "list", "write"}, todo : SUBSET Sched, stale : SUBSET Sched]
    /\ tasks \in [SchedTask -> [status : TaskStatus, of : Sched \cup {0}, digest : Digest]]
    /\ worker \in {"down", "enabling", "recovering", "serving"}
    /\ found \subseteq SchedTask /\ seen \subseteq SchedTask /\ bound \subseteq SchedTask
    /\ inbox \in Seq(SchedTask) /\ Len(inbox) <= InboxCapacity
    /\ handlers \in [SchedHandler -> [pc : Stage, task : SchedTask \cup {0}]]
    /\ turns \in [SchedTask -> {"none", "running", "resumed", "final"}]
    /\ begun \in [SchedTask -> Nat]

Has(h, t) == handlers[h].pc # "idle" /\ handlers[h].task = t

\* An update that is over has been seen to its end, or is to be made again.
UpdateInv ==
    /\ worker = "down" => update = NoUpdate
    /\ worker = "enabling" => update # NoUpdate
    /\ update.phase = "idle" => update = NoUpdate
    /\ update # NoUpdate /\ worker # "enabling" => applied # registrations
    /\ update.phase = "write" =>
          \A s \in Sched : s \in update.todo \cup update.stale \/ schedules[s] = registrations[s]
    /\ Up /\ update = NoUpdate /\ applied = registrations =>
          \A s \in Sched : schedules[s] = registrations[s]

\* The life of a task at Aether, and what the worker has for it.
LifeInv ==
    /\ \A t \in SchedTask :
          /\ tasks[t].status = "none" => t \notin seen \cup found \cup bound
          /\ tasks[t].status \in {"none", "queued"} =>
                turns[t] = "none" /\ begun[t] = 0 /\ t \notin rejected
          /\ begun[t] <= 1 /\ (t \in rejected => begun[t] = 0)
          /\ t \in found => begun[t] = 0
    /\ found # {} => worker = "recovering"

\* One goroutine or one place of the inbox works for a queued task.
QueueInv ==
    /\ \A h \in SchedHandler :
          handlers[h].pc # "idle" =>
              /\ handlers[h].task \in SchedTask /\ tasks[handlers[h].task].status # "none"
              /\ handlers[h].pc # "inspect" => tasks[handlers[h].task].status = "queued"
    /\ \A h \in SchedHandler, t \in SchedTask :
          Has(h, t) /\ tasks[t].status = "queued" =>
              /\ t \in seen /\ \A k \in DOMAIN inbox : inbox[k] # t
              /\ \A g \in SchedHandler : Has(g, t) => g = h
    /\ \A k \in DOMAIN inbox :
          /\ tasks[inbox[k]].status = "queued" /\ inbox[k] \in seen
          /\ \A j \in DOMAIN inbox : inbox[j] = inbox[k] => j = k

\* What was accepted since it was taken is noted.
ValidInv ==
    /\ \A t \in seen : Accepts(registrations, t) => t \in valid
    /\ \A h \in SchedHandler : handlers[h].pc \in {"bind", "send"} => handlers[h].task \in valid
    /\ \A k \in DOMAIN inbox : inbox[k] \in valid
    /\ \A t \in SchedTask :
          turns[t] = "running" =>
              t \in seen /\ t \in valid /\ \A h \in SchedHandler : ~Has(h, t)

SchedInv == TypeInv /\ UpdateInv /\ LifeInv /\ QueueInv /\ ValidInv

-----------------------------------------------------------------------------
(* The initial state, steps of Aether and of the config file. *)

LEMMA InitialSched == SchedInit => SchedInv
<1> SUFFICES ASSUME SchedInit PROVE SchedInv
  OBVIOUS
<1>1. Off \in Digest /\ AllOff \in [Sched -> Digest] /\ NoTaskYet.digest = Off
  BY DEF AllOff, Digest, NoTaskYet
<1>2. TypeInv
  BY <1>1, SchedAssumption
     DEF SchedInit, TypeInv, TaskStatus, Stage, LateStage, NoHandler, NoUpdate, NoTaskYet
<1>3. \A h \in SchedHandler : handlers[h].pc = "idle"
  BY DEF SchedInit, NoHandler
<1>4. UpdateInv /\ LifeInv
  BY DEF SchedInit, UpdateInv, LifeInv, NoUpdate, Up
<1>5. QueueInv /\ ValidInv
  BY <1>3 DEF SchedInit, QueueInv, ValidInv, Has
<1> QED BY <1>2, <1>4, <1>5 DEF SchedInv

LEMMA EditKeeps ==
  ASSUME SchedInv, SchedEdit
  PROVE  SchedInv'
<1> USE DEF SchedEdit, atAether, updating, executing, schedGhosts
<1>1. TypeInv'
  BY DEF SchedInv, TypeInv
<1>2. UpdateInv' /\ LifeInv'
  BY DEF SchedInv, UpdateInv, LifeInv, Up
<1>3. QueueInv' /\ ValidInv'
  BY DEF SchedInv, QueueInv, ValidInv, Has, Accepts
<1> QED BY <1>1, <1>2, <1>3 DEF SchedInv

\* An occurrence that is due becomes a task nobody knows yet.
LEMMA FireKeeps ==
  ASSUME SchedInv, NEW s \in Sched, NEW t \in SchedTask, SchedFire(s, t)
  PROVE  SchedInv'
<1> USE DEF SchedFire, updating, executing, schedGhosts
<1>1. /\ tasks'[t] = [status |-> "queued", of |-> s, digest |-> schedules[s]]
      /\ \A u \in SchedTask : u # t => tasks'[u] = tasks[u]
      /\ tasks[t].status = "none"
  BY DEF SchedInv, TypeInv
<1>2. TypeInv'
  BY DEF SchedInv, TypeInv, TaskStatus
<1>3. UpdateInv'
  BY DEF SchedInv, UpdateInv, Up
<1>4. LifeInv'
  BY <1>1 DEF SchedInv, LifeInv
<1>5. \A h \in SchedHandler : ~Has(h, t)
  BY <1>1 DEF SchedInv, QueueInv, Has
<1>6. \A k \in DOMAIN inbox : inbox[k] # t /\ inbox[k] \in SchedTask
  BY <1>1 DEF SchedInv, TypeInv, QueueInv
<1>7. QueueInv'
  BY <1>1, <1>5, <1>6 DEF SchedInv, TypeInv, QueueInv, Has
<1>8. t \notin seen
  BY <1>1 DEF SchedInv, LifeInv
<1>9. ValidInv'
  BY <1>1, <1>8 DEF SchedInv, TypeInv, ValidInv, Accepts, Has
<1> QED BY <1>2, <1>3, <1>4, <1>7, <1>9 DEF SchedInv

-----------------------------------------------------------------------------
(* The process ends. *)

LEMMA GoneKeeps ==
  ASSUME SchedInv, Gone, configured' = configured, begun' = begun,
         schedules' \in [Sched -> Digest],
         tasks' \in [SchedTask -> [status : TaskStatus, of : Sched \cup {0}, digest : Digest]],
         \A t \in SchedTask :
            /\ tasks'[t].status \in {"none", "queued"} => begun[t] = 0 /\ t \notin rejected'
            /\ t \in rejected' => begun[t] = 0
  PROVE  SchedInv'
<1>1. AllOff \in [Sched -> Digest]
  BY DEF AllOff, Digest
<1>2. TypeInv'
  BY <1>1, SchedAssumption
     DEF SchedInv, TypeInv, Gone, NoHandler, NoUpdate, Stage, LateStage
<1>3. \A h \in SchedHandler : handlers'[h].pc = "idle"
  BY DEF Gone, NoHandler
<1>4. UpdateInv'
  BY DEF Gone, UpdateInv, NoUpdate, Up
<1>5. LifeInv'
  BY DEF SchedInv, Gone, LifeInv
<1>6. QueueInv' /\ ValidInv'
  BY <1>3 DEF Gone, QueueInv, ValidInv, Has
<1> QED BY <1>2, <1>4, <1>5, <1>6 DEF SchedInv

LEMMA CrashKeeps ==
  ASSUME SchedInv, SchedCrash
  PROVE  SchedInv'
<1>1. \A t \in SchedTask :
        /\ tasks[t].status \in {"none", "queued"} => begun[t] = 0 /\ t \notin rejected
        /\ t \in rejected => begun[t] = 0
  BY DEF SchedInv, LifeInv
<1>2. Gone /\ UNCHANGED <<configured, schedules, tasks, begun, rejected>>
  BY DEF SchedCrash, atAether
<1>3. /\ schedules' \in [Sched -> Digest]
      /\ tasks' \in [SchedTask -> [status : TaskStatus, of : Sched \cup {0}, digest : Digest]]
  BY <1>2 DEF SchedInv, TypeInv
<1> QED BY <1>1, <1>2, <1>3, GoneKeeps

-----------------------------------------------------------------------------
(* Updates. *)

\* What an update does not touch.
LEMMA OutsideUpdates ==
  ASSUME SchedInv, UNCHANGED <<tasks, seen, bound, inbox, handlers, turns, begun, rejected>>
  PROVE  /\ QueueInv'
         /\ found' = {} => LifeInv'
         /\ found' = found /\ (found # {} => worker' = worker) => LifeInv'
<1>1. QueueInv'
  BY DEF SchedInv, QueueInv, Has
<1>2. found' = {} => LifeInv'
  BY DEF SchedInv, LifeInv
<1>3. found' = found /\ (found # {} => worker' = worker) => LifeInv'
  BY DEF SchedInv, LifeInv
<1> QED BY <1>1, <1>2, <1>3

\* New declarations are taken, before Aether has them.
LEMMA ReplaceKeeps ==
  ASSUME SchedInv, SchedStart \/ SchedReload
  PROVE  SchedInv'
<1>1. /\ registrations' = configured /\ applied' = applied
      /\ update' = [phase |-> "list", todo |-> {}, stale |-> {}]
      /\ valid' = valid \cup {t \in seen : Accepts(configured, t)}
      /\ UNCHANGED <<configured, schedules, tasks, found, seen, bound, inbox, handlers, turns,
                     begun, rejected>>
      /\ worker' \in {"enabling", "recovering", "serving"}
      /\ worker' # "enabling" => configured # applied
      /\ worker # "down" => worker' = worker
  BY DEF SchedStart, SchedReload, Replace, atAether, executing
<1>2. TypeInv'
  BY <1>1 DEF SchedInv, TypeInv
<1>3. UpdateInv'
  BY <1>1 DEF SchedInv, UpdateInv, NoUpdate, Up
<1>4. found # {} => worker' = worker
  BY <1>1 DEF SchedInv, LifeInv
<1>5. QueueInv' /\ LifeInv'
  BY <1>1, <1>4, OutsideUpdates
<1>6. ValidInv'
  BY <1>1 DEF SchedInv, ValidInv, Accepts, Has
<1> QED BY <1>2, <1>3, <1>5, <1>6 DEF SchedInv

LEMMA ListKeeps ==
  ASSUME SchedInv, SchedList
  PROVE  SchedInv'
<1>1. /\ update' = [phase |-> "write", todo |-> Enabled(registrations),
                    stale |-> Enabled(schedules)]
      /\ update.phase = "list"
      /\ UNCHANGED <<configured, schedules, tasks, registrations, applied, worker, found, seen,
                     bound, inbox, handlers, turns, begun, valid, rejected>>
  BY DEF SchedList, StaleOf, atAether, executing, schedGhosts
<1>2. Enabled(registrations) \subseteq Sched /\ Enabled(schedules) \subseteq Sched
  BY DEF Enabled
<1>3. TypeInv'
  BY <1>1, <1>2 DEF SchedInv, TypeInv
<1>4. \A s \in Sched : s \in Enabled(registrations) \cup Enabled(schedules)
                         \/ schedules[s] = registrations[s]
  BY DEF Enabled
<1>5. UpdateInv'
  BY <1>1, <1>4 DEF SchedInv, UpdateInv, NoUpdate, Up
<1>6. QueueInv' /\ LifeInv'
  BY <1>1, OutsideUpdates
<1>7. ValidInv'
  BY <1>1 DEF SchedInv, ValidInv, Accepts, Has
<1> QED BY <1>3, <1>5, <1>6, <1>7 DEF SchedInv

\* Whichever declaration is written, it is as declared afterwards.
LEMMA WrittenIsDeclared ==
  ASSUME SchedInv
  PROVE  /\ Written \in [Sched -> Digest]
         /\ \A s \in Sched : Written[s] = IF s = NextWrite THEN registrations[s]
                                          ELSE schedules[s]
  BY DEF SchedInv, TypeInv, Written

LEMMA WriteKeeps ==
  ASSUME SchedInv, SchedWrite
  PROVE  SchedInv'
<1>1. PICK w : w = NextWrite
  OBVIOUS
<1>2. /\ update' = [update EXCEPT !.todo = @ \ {w}, !.stale = @ \ {w}]
      /\ update.phase = "write" /\ schedules' = Written
      /\ UNCHANGED <<configured, tasks, registrations, applied, worker, found, seen, bound,
                     inbox, handlers, turns, begun, valid, rejected>>
  BY <1>1 DEF SchedWrite, executing, schedGhosts
<1>9. update.todo \subseteq Sched /\ update.stale \subseteq Sched
  BY DEF SchedInv, TypeInv
<1>10. update' = [phase |-> "write", todo |-> update.todo \ {w}, stale |-> update.stale \ {w}]
  BY <1>2 DEF SchedInv, TypeInv
<1>3. /\ update'.phase = "write" /\ update'.todo = update.todo \ {w}
      /\ update'.stale = update.stale \ {w}
      /\ update' \in [phase : {"idle", "list", "write"}, todo : SUBSET Sched,
                      stale : SUBSET Sched]
      /\ update # NoUpdate /\ update' # NoUpdate
  BY <1>2, <1>9, <1>10 DEF NoUpdate
<1>4. TypeInv'
  BY <1>2, <1>3, WrittenIsDeclared DEF SchedInv, TypeInv
<1>5. \A s \in Sched : schedules'[s] = IF s = w THEN registrations[s] ELSE schedules[s]
  BY <1>1, <1>2, WrittenIsDeclared
<1>6. UpdateInv'
  BY <1>2, <1>3, <1>5 DEF SchedInv, UpdateInv, NoUpdate, Up
<1>7. QueueInv' /\ LifeInv'
  BY <1>2, OutsideUpdates
<1>8. ValidInv'
  BY <1>2 DEF SchedInv, ValidInv, Accepts, Has
<1> QED BY <1>4, <1>6, <1>7, <1>8 DEF SchedInv

LEMMA UpdatedKeeps ==
  ASSUME SchedInv, SchedUpdated
  PROVE  SchedInv'
<1>1. /\ update.phase = "write" /\ update.todo \cup update.stale = {}
      /\ update' = NoUpdate /\ applied' = registrations
      /\ UNCHANGED <<configured, schedules, tasks, registrations, seen, bound, inbox, handlers,
                     turns, begun, valid, rejected>>
      /\ \/ worker = "enabling" /\ worker' = "recovering" /\ found' = Listed
         \/ worker # "enabling" /\ UNCHANGED <<worker, found>>
  BY DEF SchedUpdated, atAether, executing, schedGhosts
<1>2. Listed \subseteq SchedTask /\ \A t \in Listed : tasks[t].status = "queued"
  BY DEF Listed
<1>3. TypeInv'
  BY <1>1, <1>2 DEF SchedInv, TypeInv, NoUpdate
<1>4. UpdateInv'
  BY <1>1 DEF SchedInv, UpdateInv, NoUpdate, Up
<1>5. LifeInv'
  BY <1>1, <1>2 DEF SchedInv, LifeInv
<1>6. QueueInv'
  BY <1>1, OutsideUpdates
<1>7. ValidInv'
  BY <1>1 DEF SchedInv, ValidInv, Accepts, Has
<1> QED BY <1>3, <1>4, <1>5, <1>6, <1>7 DEF SchedInv

LEMMA UpdateFailsKeeps ==
  ASSUME SchedInv, SchedUpdateFails
  PROVE  SchedInv'
<1>1. schedules' \in [Sched -> Digest]
  BY WrittenIsDeclared DEF SchedUpdateFails, SchedInv, TypeInv
<1>2. UNCHANGED <<configured, tasks, begun, rejected>>
  BY DEF SchedUpdateFails
<1>3. CASE worker = "enabling"
  <2>1. Gone
    BY <1>3 DEF SchedUpdateFails
  <2>2. tasks' \in [SchedTask -> [status : TaskStatus, of : Sched \cup {0}, digest : Digest]]
    BY <1>2 DEF SchedInv, TypeInv
  <2>3. \A t \in SchedTask :
          /\ tasks[t].status \in {"none", "queued"} => begun[t] = 0 /\ t \notin rejected
          /\ t \in rejected => begun[t] = 0
    BY DEF SchedInv, LifeInv
  <2> QED BY <1>1, <1>2, <2>1, <2>2, <2>3, GoneKeeps
<1>4. CASE worker # "enabling"
  <2>1. /\ update' = NoUpdate /\ update # NoUpdate
        /\ UNCHANGED <<registrations, applied, worker, found, seen, bound, inbox, handlers,
                       turns, valid>>
    BY <1>4 DEF SchedUpdateFails, executing
  <2>2. TypeInv'
    BY <1>1, <1>2, <2>1 DEF SchedInv, TypeInv, NoUpdate
  <2>3. UpdateInv'
    BY <1>4, <2>1 DEF SchedInv, UpdateInv, NoUpdate, Up
  <2>4. QueueInv' /\ LifeInv'
    BY <1>2, <2>1, OutsideUpdates
  <2>5. ValidInv'
    BY <1>2, <2>1 DEF SchedInv, ValidInv, Accepts, Has
  <2> QED BY <2>2, <2>3, <2>4, <2>5 DEF SchedInv
<1> QED BY <1>3, <1>4

-----------------------------------------------------------------------------
(* Assignments. *)

\* A task is taken, if it was not before: for a queued task there is then one
\* goroutine.
LEMMA TakeKeeps ==
  ASSUME SchedInv, NEW h \in SchedHandler, NEW t \in SchedTask,
         handlers[h].pc = "idle", tasks[t].status # "none", TakeUnless(h, t),
         found' \subseteq found,
         UNCHANGED <<configured, schedules, tasks, registrations, applied, update, worker, bound,
                     inbox, turns, begun, rejected>>
  PROVE  SchedInv'
<1>1. UpdateInv'
  BY DEF SchedInv, UpdateInv, Up
<1>2. CASE t \in seen
  <2>1. UNCHANGED <<seen, handlers, valid>>
    BY <1>2 DEF TakeUnless
  <2>2. TypeInv' /\ LifeInv'
    BY <2>1 DEF SchedInv, TypeInv, LifeInv
  <2>3. QueueInv' /\ ValidInv'
    BY <2>1 DEF SchedInv, QueueInv, ValidInv, Has, Accepts
  <2> QED BY <1>1, <2>2, <2>3 DEF SchedInv
<1>3. CASE t \notin seen
  <2>1. /\ seen' = seen \cup {t}
        /\ handlers' = [handlers EXCEPT ![h] = [pc |-> "inspect", task |-> t]]
        /\ \A u : u # t => (u \in valid' <=> u \in valid)
        /\ t \in valid' <=> Accepts(registrations, t)
    BY <1>3 DEF TakeUnless
  <2>2. /\ handlers'[h] = [pc |-> "inspect", task |-> t]
        /\ \A g \in SchedHandler : g # h => handlers'[g] = handlers[g]
    BY <2>1 DEF SchedInv, TypeInv
  <2>3. TypeInv'
    BY <2>1 DEF SchedInv, TypeInv, Stage
  <2>4. LifeInv'
    BY <2>1 DEF SchedInv, LifeInv
  <2>5. \A k \in DOMAIN inbox : inbox[k] # t
    BY <1>3 DEF SchedInv, QueueInv
  <2>6. tasks[t].status = "queued" => \A g \in SchedHandler : ~Has(g, t)
    BY <1>3 DEF SchedInv, QueueInv
  <2>7. QueueInv'
    <3>1. \A g \in SchedHandler :
            handlers'[g].pc # "idle" =>
              /\ handlers'[g].task \in SchedTask /\ tasks[handlers'[g].task].status # "none"
              /\ handlers'[g].pc # "inspect" => tasks[handlers'[g].task].status = "queued"
      BY <2>2 DEF SchedInv, QueueInv
    <3>2. ASSUME NEW g \in SchedHandler, NEW u \in SchedTask, Has(g, u)',
                 tasks[u].status = "queued"
          PROVE  /\ u \in seen' /\ \A k \in DOMAIN inbox : inbox[k] # u
                 /\ \A i \in SchedHandler : Has(i, u)' => i = g
      <4>1. CASE u = t
        BY <2>1, <2>2, <2>5, <2>6, <3>2, <4>1 DEF Has
      <4>2. CASE u # t
        BY <2>1, <2>2, <3>2, <4>2 DEF SchedInv, QueueInv, Has
      <4> QED BY <4>1, <4>2
    <3>3. \A k \in DOMAIN inbox :
            /\ tasks[inbox[k]].status = "queued" /\ inbox[k] \in seen'
            /\ \A j \in DOMAIN inbox : inbox[j] = inbox[k] => j = k
      BY <2>1 DEF SchedInv, QueueInv
    <3> QED BY <3>1, <3>2, <3>3 DEF QueueInv
  <2>8. ValidInv'
    <3>1. \A u \in seen' : Accepts(registrations, u)' => u \in valid'
      BY <2>1 DEF SchedInv, ValidInv, Accepts
    <3>2. ASSUME NEW g \in SchedHandler, handlers'[g].pc \in {"bind", "send"}
          PROVE  handlers'[g].task \in valid'
      <4>1. g # h /\ handlers[g].pc \in {"bind", "send"} /\ handlers'[g] = handlers[g]
        BY <2>2, <3>2
      <4>2. Has(g, handlers[g].task) /\ tasks[handlers[g].task].status = "queued"
            /\ handlers[g].task \in SchedTask
        BY <4>1 DEF SchedInv, QueueInv, Has
      <4>3. handlers[g].task # t
        BY <2>6, <4>2
      <4> QED BY <2>1, <4>1, <4>3 DEF SchedInv, ValidInv
    <3>3. \A k \in DOMAIN inbox : inbox[k] \in valid'
      BY <2>1, <2>5 DEF SchedInv, ValidInv
    <3>4. ASSUME NEW u \in SchedTask, turns[u] = "running"
          PROVE  u \in seen' /\ u \in valid' /\ \A g \in SchedHandler : ~Has(g, u)'
      <4>1. u \in seen /\ u # t
        BY <1>3, <3>4 DEF SchedInv, ValidInv
      <4> QED BY <2>1, <2>2, <3>4, <4>1 DEF SchedInv, ValidInv, Has
    <3> QED BY <3>1, <3>2, <3>3, <3>4 DEF ValidInv
  <2> QED BY <1>1, <2>3, <2>4, <2>7, <2>8 DEF SchedInv
<1> QED BY <1>2, <1>3

LEMMA DeliverKeeps ==
  ASSUME SchedInv, NEW h \in SchedHandler, NEW t \in SchedTask, SchedDeliver(h, t)
  PROVE  SchedInv'
  BY TakeKeeps DEF SchedDeliver, AtStage, updating

\* An operation changes the status of its task and nothing else.
LEMMA OperationIs ==
  ASSUME SchedInv, NEW t \in SchedTask, NEW from, NEW to \in TaskStatus, Operation(t, from, to)
  PROVE  /\ tasks' \in [SchedTask -> [status : TaskStatus, of : Sched \cup {0},
                                      digest : Digest]]
         /\ tasks'[t].status = IF tasks[t].status \in from THEN to ELSE tasks[t].status
         /\ \A u \in SchedTask : tasks'[u].of = tasks[u].of /\ tasks'[u].digest = tasks[u].digest
         /\ \A u \in SchedTask : u # t => tasks'[u] = tasks[u]
<1>1. tasks[t] \in [status : TaskStatus, of : Sched \cup {0}, digest : Digest]
  BY DEF SchedInv, TypeInv
<1>2. CASE tasks[t].status \in from
  <2>1. PICK r : r = [tasks[t] EXCEPT !.status = to]
    OBVIOUS
  <2>2. tasks' = [tasks EXCEPT ![t] = r]
    BY <1>2, <2>1 DEF Operation
  <2>3. /\ r \in [status : TaskStatus, of : Sched \cup {0}, digest : Digest]
        /\ r.status = to /\ r.of = tasks[t].of /\ r.digest = tasks[t].digest
    BY <1>1, <2>1
  <2>4. tasks'[t] = r /\ \A u \in SchedTask : u # t => tasks'[u] = tasks[u]
    BY <2>2 DEF SchedInv, TypeInv
  <2>5. tasks' \in [SchedTask -> [status : TaskStatus, of : Sched \cup {0}, digest : Digest]]
    BY <2>2, <2>3 DEF SchedInv, TypeInv
  <2> QED BY <1>2, <2>3, <2>4, <2>5
<1>3. CASE tasks[t].status \notin from
  BY <1>3 DEF Operation, SchedInv, TypeInv
<1> QED BY <1>2, <1>3

\* The recovery rejects a task that was not begun: none begins before the
\* recovery is over.
LEMMA RecoverKeeps ==
  ASSUME SchedInv, NEW t \in SchedTask, SchedRecover(t)
  PROVE  SchedInv'
<1>1. t \in found /\ tasks[t].status # "none" /\ begun[t] = 0 /\ handlers[Startup].pc = "idle"
  BY DEF SchedRecover, AtStage, SchedInv, LifeInv
<1>2. Startup \in SchedHandler
  BY DEF SchedHandler
<1>3. CASE Accepts(registrations, t)
  <2>1. TakeUnless(Startup, t) /\ found' \subseteq found
    BY <1>3 DEF SchedRecover
  <2>2. UNCHANGED <<configured, schedules, tasks, registrations, applied, update, worker, bound,
                    inbox, turns, begun, rejected>>
    BY <1>3 DEF SchedRecover, updating
  <2> QED BY <1>1, <1>2, <2>1, <2>2, TakeKeeps
<1>4. CASE ~Accepts(registrations, t)
  <2>1. Gone /\ rejected' = rejected \cup {t} /\ UNCHANGED <<configured, schedules, begun>>
    BY <1>4 DEF SchedRecover
  <2>2. Operation(t, {"queued", "running"}, "failed") /\ "failed" \in TaskStatus
    BY <1>4 DEF SchedRecover, TaskStatus
  <2>3. /\ tasks' \in [SchedTask -> [status : TaskStatus, of : Sched \cup {0}, digest : Digest]]
        /\ tasks'[t].status \notin {"none", "queued"}
        /\ \A u \in SchedTask : u # t => tasks'[u] = tasks[u]
    BY <1>1, <2>2, OperationIs
  <2>4. \A u \in SchedTask :
          /\ tasks'[u].status \in {"none", "queued"} => begun[u] = 0 /\ u \notin rejected'
          /\ u \in rejected' => begun[u] = 0
    BY <1>1, <2>1, <2>3 DEF SchedInv, LifeInv
  <2>5. schedules' \in [Sched -> Digest]
    BY <2>1 DEF SchedInv, TypeInv
  <2> QED BY <2>1, <2>3, <2>4, <2>5, GoneKeeps
<1> QED BY <1>3, <1>4

\* A goroutine goes on from one stage to another, or leaves.
LEMMA MoveKeeps ==
  ASSUME SchedInv, NEW h \in SchedHandler, NEW f \in [pc : Stage, task : SchedTask \cup {0}],
         handlers' = [handlers EXCEPT ![h] = f],
         f.pc # "idle" =>
            /\ f.task = handlers[h].task /\ handlers[h].pc # "idle"
            /\ f.pc # "inspect" => tasks[f.task].status = "queued"
            /\ f.pc \in {"bind", "send"} => f.task \in valid,
         bound' \subseteq SchedTask,
         \A t \in SchedTask : tasks[t].status = "none" => t \notin bound',
         UNCHANGED <<configured, schedules, tasks, registrations, applied, update, worker, found,
                     seen, inbox, turns, begun, valid, rejected>>
  PROVE  SchedInv'
<1>1. /\ handlers'[h] = f
      /\ \A g \in SchedHandler : g # h => handlers'[g] = handlers[g]
  BY DEF SchedInv, TypeInv
<1>2. \A g \in SchedHandler, t \in SchedTask : Has(g, t)' => Has(g, t)
  BY <1>1 DEF Has
<1>3. TypeInv'
  BY DEF SchedInv, TypeInv
<1>4. UpdateInv' /\ LifeInv'
  BY DEF SchedInv, UpdateInv, LifeInv, Up
<1>5. QueueInv'
  BY <1>1, <1>2 DEF SchedInv, QueueInv
<1>6. ValidInv'
  BY <1>1, <1>2 DEF SchedInv, ValidInv, Accepts
<1> QED BY <1>3, <1>4, <1>5, <1>6 DEF SchedInv

LEMMA InspectKeeps ==
  ASSUME SchedInv, NEW h \in SchedHandler, SchedInspect(h)
  PROVE  SchedInv'
<1>1. handlers[h].pc = "inspect" /\ handlers[h].task \in SchedTask
  BY DEF SchedInspect, AtStage, SchedInv, QueueInv
<1>2. UNCHANGED <<configured, schedules, tasks, registrations, applied, update, worker, found,
                  seen, bound, inbox, turns, begun, valid, rejected>>
  BY DEF SchedInspect, atAether, updating, schedGhosts
<1>3. bound \subseteq SchedTask /\ \A t \in SchedTask : tasks[t].status = "none" => t \notin bound
  BY DEF SchedInv, TypeInv, LifeInv
<1>4. CASE tasks[handlers[h].task].status = "queued"
  <2>1. PICK f : f = [pc |-> "check", task |-> handlers[h].task]
    OBVIOUS
  <2>2. handlers' = [handlers EXCEPT ![h] = f]
    BY <1>1, <1>4, <2>1 DEF SchedInspect, NextStage, TaskOf, Goes, SchedInv, TypeInv
  <2>3. f \in [pc : Stage, task : SchedTask \cup {0}]
    BY <1>1, <2>1 DEF Stage, LateStage
  <2> QED BY <1>1, <1>2, <1>3, <1>4, <2>1, <2>2, <2>3, MoveKeeps
<1>5. CASE tasks[handlers[h].task].status # "queued"
  <2>1. handlers' = [handlers EXCEPT ![h] = NoHandler]
    BY <1>5 DEF SchedInspect, NextStage, TaskOf, Leaves
  <2>2. NoHandler \in [pc : Stage, task : SchedTask \cup {0}] /\ NoHandler.pc = "idle"
    BY DEF NoHandler, Stage
  <2> QED BY <1>2, <1>3, <2>1, <2>2, MoveKeeps
<1> QED BY <1>4, <1>5

LEMMA CheckKeeps ==
  ASSUME SchedInv, NEW h \in SchedHandler, SchedCheck(h)
  PROVE  SchedInv'
<1>1. PICK t : t = handlers[h].task
  OBVIOUS
<1>2. handlers[h].pc = "check" /\ t \in SchedTask /\ tasks[t].status = "queued"
  BY <1>1 DEF SchedCheck, AtStage, SchedInv, QueueInv
<1>3. UNCHANGED <<configured, schedules, tasks, registrations, applied, update, worker, found,
                  seen, bound, inbox, turns, begun, valid, rejected>>
  BY DEF SchedCheck, atAether, updating, schedGhosts
<1>4. bound \subseteq SchedTask /\ \A u \in SchedTask : tasks[u].status = "none" => u \notin bound
  BY DEF SchedInv, TypeInv, LifeInv
<1>5. t \in seen
  BY <1>1, <1>2 DEF SchedInv, QueueInv, Has
<1>6. PICK p : p = IF Accepts(registrations, TaskOf(h)) THEN "bind" ELSE "reject"
  OBVIOUS
<1>7. (p = "bind" /\ Accepts(registrations, t)) \/ p = "reject"
  BY <1>1, <1>6 DEF TaskOf, Accepts
<1>8. PICK f : f = [pc |-> p, task |-> t]
  OBVIOUS
<1>9. handlers' = [handlers EXCEPT ![h] = f]
  <2>1. handlers' = [handlers EXCEPT ![h].pc = p]
    BY <1>6 DEF SchedCheck, Goes
  <2>2. [handlers[h] EXCEPT !.pc = p] = f
    BY <1>1, <1>8 DEF SchedInv, TypeInv
  <2> QED BY <2>1, <2>2
<1>10. f \in [pc : Stage, task : SchedTask \cup {0}]
  BY <1>2, <1>7, <1>8 DEF Stage, LateStage
<1>11. f.pc \in {"bind", "send"} => t \in valid
  BY <1>5, <1>7, <1>8 DEF SchedInv, ValidInv
<1> QED BY <1>1, <1>2, <1>3, <1>4, <1>8, <1>9, <1>10, <1>11, MoveKeeps

LEMMA BindKeeps ==
  ASSUME SchedInv, NEW h \in SchedHandler, SchedBind(h)
  PROVE  SchedInv'
<1>1. PICK t : t = handlers[h].task
  OBVIOUS
<1>2. /\ handlers[h].pc = "bind" /\ t \in SchedTask /\ tasks[t].status = "queued"
      /\ t \in valid
  BY <1>1 DEF SchedBind, AtStage, SchedInv, QueueInv, ValidInv
<1>3. UNCHANGED <<configured, schedules, tasks, registrations, applied, update, worker, found,
                  seen, inbox, turns, begun, valid, rejected>>
  BY DEF SchedBind, atAether, updating, schedGhosts
<1>4. bound' \subseteq SchedTask
      /\ \A u \in SchedTask : tasks[u].status = "none" => u \notin bound'
  BY <1>1, <1>2 DEF SchedBind, TaskOf, SchedInv, TypeInv, LifeInv
<1>5. PICK f : f = [pc |-> IF t \in bound THEN "reject" ELSE "send", task |-> t]
  OBVIOUS
<1>6. handlers' = [handlers EXCEPT ![h] = f]
  BY <1>1, <1>5 DEF SchedBind, TaskOf, Goes, SchedInv, TypeInv
<1>7. f \in [pc : Stage, task : SchedTask \cup {0}]
  BY <1>2, <1>5 DEF Stage, LateStage
<1> QED BY <1>1, <1>2, <1>3, <1>4, <1>5, <1>6, <1>7, MoveKeeps

\* A question that is not answered: the task is free again, or the worker
\* gives up its start.
LEMMA InspectFailsKeeps ==
  ASSUME SchedInv, NEW h \in SchedHandler, SchedInspectFails(h)
  PROVE  SchedInv'
<1>1. PICK t : t = handlers[h].task
  OBVIOUS
<1>2. handlers[h].pc = "inspect" /\ t \in SchedTask /\ Has(h, t)
  BY <1>1 DEF SchedInspectFails, AtStage, SchedInv, QueueInv, Has
<1>3. UNCHANGED <<configured, schedules, tasks, begun, rejected>>
  BY DEF SchedInspectFails, atAether
<1>4. CASE h = Startup
  <2>1. Gone
    BY <1>4 DEF SchedInspectFails
  <2>2. /\ schedules' \in [Sched -> Digest]
        /\ tasks' \in [SchedTask -> [status : TaskStatus, of : Sched \cup {0}, digest : Digest]]
    BY <1>3 DEF SchedInv, TypeInv
  <2>3. \A u \in SchedTask :
          /\ tasks[u].status \in {"none", "queued"} => begun[u] = 0 /\ u \notin rejected
          /\ u \in rejected => begun[u] = 0
    BY DEF SchedInv, LifeInv
  <2> QED BY <1>3, <2>1, <2>2, <2>3, GoneKeeps
<1>5. CASE h # Startup
  <2>1. /\ handlers' = [handlers EXCEPT ![h] = NoHandler] /\ seen' = seen \ {t}
        /\ UNCHANGED <<registrations, applied, update, worker, found, bound, inbox, turns, valid>>
    BY <1>1, <1>5 DEF SchedInspectFails, Leaves, TaskOf, updating
  <2>2. /\ handlers'[h].pc = "idle"
        /\ \A g \in SchedHandler : g # h => handlers'[g] = handlers[g]
    BY <2>1 DEF SchedInv, TypeInv, NoHandler
  <2>3. NoHandler \in [pc : Stage, task : SchedTask \cup {0}]
    BY DEF NoHandler, Stage
  <2>4. TypeInv'
    BY <1>3, <2>1, <2>3 DEF SchedInv, TypeInv
  <2>5. UpdateInv' /\ LifeInv'
    BY <1>3, <2>1 DEF SchedInv, UpdateInv, LifeInv, Up
  <2>6. \A g \in SchedHandler, u \in SchedTask : Has(g, u)' => g # h /\ Has(g, u)
    BY <2>2 DEF Has
  <2>7. \A k \in DOMAIN inbox : inbox[k] # t
    BY <1>2 DEF SchedInv, QueueInv
  <2>8. QueueInv'
    <3>1. \A g \in SchedHandler :
            handlers'[g].pc # "idle" =>
              /\ handlers'[g].task \in SchedTask /\ tasks[handlers'[g].task].status # "none"
              /\ handlers'[g].pc # "inspect" => tasks[handlers'[g].task].status = "queued"
      BY <2>2 DEF SchedInv, QueueInv
    <3>2. ASSUME NEW g \in SchedHandler, NEW u \in SchedTask, Has(g, u)',
                 tasks[u].status = "queued"
          PROVE  /\ u \in seen' /\ \A k \in DOMAIN inbox : inbox[k] # u
                 /\ \A i \in SchedHandler : Has(i, u)' => i = g
      BY <1>2, <2>1, <2>6, <3>2 DEF SchedInv, QueueInv
    <3>3. \A k \in DOMAIN inbox :
            /\ tasks[inbox[k]].status = "queued" /\ inbox[k] \in seen'
            /\ \A j \in DOMAIN inbox : inbox[j] = inbox[k] => j = k
      BY <2>1, <2>7 DEF SchedInv, QueueInv
    <3> QED BY <1>3, <2>1, <3>1, <3>2, <3>3 DEF QueueInv
  <2>9. ValidInv'
    <3>1. \A u \in seen' : Accepts(registrations, u)' => u \in valid'
      BY <1>3, <2>1 DEF SchedInv, ValidInv, Accepts
    <3>2. \A g \in SchedHandler : handlers'[g].pc \in {"bind", "send"} => handlers'[g].task \in valid
      BY <2>2 DEF SchedInv, ValidInv
    <3>3. ASSUME NEW u \in SchedTask, turns[u] = "running"
          PROVE  u \in seen' /\ u \in valid /\ \A g \in SchedHandler : ~Has(g, u)'
      BY <1>2, <2>1, <2>6, <3>3 DEF SchedInv, ValidInv
    <3> QED BY <2>1, <3>1, <3>2, <3>3 DEF SchedInv, ValidInv
  <2> QED BY <2>4, <2>5, <2>8, <2>9 DEF SchedInv
<1> QED BY <1>4, <1>5

\* The goroutine hands its task over to the inbox.
LEMMA SendKeeps ==
  ASSUME SchedInv, NEW h \in SchedHandler, SchedSend(h)
  PROVE  SchedInv'
<1>1. PICK t : t = handlers[h].task
  OBVIOUS
<1>2. /\ handlers[h].pc = "send" /\ t \in SchedTask /\ tasks[t].status = "queued"
      /\ t \in valid /\ Has(h, t)
  BY <1>1 DEF SchedSend, AtStage, SchedInv, QueueInv, ValidInv, Has
<1>3. t \in seen /\ \A k \in DOMAIN inbox : inbox[k] # t
  BY <1>2 DEF SchedInv, QueueInv
<1>4. \A g \in SchedHandler : Has(g, t) => g = h
  BY <1>2 DEF SchedInv, QueueInv
<1>5. /\ handlers' = [handlers EXCEPT ![h] = NoHandler] /\ inbox' = Append(inbox, t)
      /\ Len(inbox) < InboxCapacity
      /\ UNCHANGED <<configured, schedules, tasks, registrations, applied, update, worker, found,
                     seen, bound, turns, begun, valid, rejected>>
  BY <1>1 DEF SchedSend, Leaves, TaskOf, atAether, updating, schedGhosts
<1>6. /\ handlers'[h].pc = "idle"
      /\ \A g \in SchedHandler : g # h => handlers'[g] = handlers[g]
  BY <1>5 DEF SchedInv, TypeInv, NoHandler
<1>7. inbox \in Seq(SchedTask) /\ Len(inbox) \in Nat
  BY DEF SchedInv, TypeInv
<1>8. /\ inbox' \in Seq(SchedTask) /\ Len(inbox') = Len(inbox) + 1
      /\ inbox'[Len(inbox) + 1] = t
      /\ DOMAIN inbox = 1 .. Len(inbox) /\ DOMAIN inbox' = 1 .. Len(inbox) + 1
      /\ \A k \in 1 .. Len(inbox) : inbox'[k] = inbox[k]
  BY <1>2, <1>5, <1>7
<1>9. TypeInv'
  <2>1. NoHandler \in [pc : Stage, task : SchedTask \cup {0}]
    BY DEF NoHandler, Stage
  <2>2. Len(inbox') <= InboxCapacity
    BY <1>5, <1>7, <1>8, SchedAssumption
  <2> QED BY <1>5, <1>8, <2>1, <2>2 DEF SchedInv, TypeInv
<1>10. UpdateInv' /\ LifeInv'
  BY <1>5 DEF SchedInv, UpdateInv, LifeInv, Up
<1>11. \A g \in SchedHandler, u \in SchedTask : Has(g, u)' => g # h /\ Has(g, u)
  BY <1>6 DEF Has
<1>12. \A k \in DOMAIN inbox' : inbox'[k] = t \/ (k \in DOMAIN inbox /\ inbox'[k] = inbox[k])
  <2>1. ASSUME NEW k \in 1 .. Len(inbox) + 1
        PROVE  inbox'[k] = t \/ (k \in 1 .. Len(inbox) /\ inbox'[k] = inbox[k])
    <3>1. k = Len(inbox) + 1 \/ k \in 1 .. Len(inbox)
      BY <1>7, <2>1
    <3> QED BY <1>8, <3>1
  <2> QED BY <1>8, <2>1
<1>13. QueueInv'
  <2>1. \A g \in SchedHandler :
          handlers'[g].pc # "idle" =>
            /\ handlers'[g].task \in SchedTask /\ tasks[handlers'[g].task].status # "none"
            /\ handlers'[g].pc # "inspect" => tasks[handlers'[g].task].status = "queued"
    BY <1>6 DEF SchedInv, QueueInv
  <2>2. ASSUME NEW g \in SchedHandler, NEW u \in SchedTask, Has(g, u)', tasks[u].status = "queued"
        PROVE  /\ u \in seen /\ \A k \in DOMAIN inbox' : inbox'[k] # u
               /\ \A i \in SchedHandler : Has(i, u)' => i = g
    <3>1. Has(g, u) /\ g # h /\ u # t
      BY <1>4, <1>11, <2>2
    <3> QED BY <1>11, <1>12, <2>2, <3>1 DEF SchedInv, QueueInv
  <2>3. \A k \in DOMAIN inbox' : tasks[inbox'[k]].status = "queued" /\ inbox'[k] \in seen
    BY <1>2, <1>3, <1>12 DEF SchedInv, QueueInv
  <2>4. ASSUME NEW k \in DOMAIN inbox', NEW j \in DOMAIN inbox', inbox'[j] = inbox'[k]
        PROVE  j = k
    <3>1. CASE inbox'[k] = t
      <4>1. k = Len(inbox) + 1 /\ j = Len(inbox) + 1
        BY <1>3, <1>7, <1>8, <2>4, <3>1
      <4> QED BY <4>1
    <3>2. CASE inbox'[k] # t
      <4>1. k \in DOMAIN inbox /\ j \in DOMAIN inbox /\ inbox[j] = inbox[k]
        BY <1>12, <2>4, <3>2
      <4> QED BY <4>1 DEF SchedInv, QueueInv
    <3> QED BY <3>1, <3>2
  <2> QED BY <1>5, <2>1, <2>2, <2>3, <2>4 DEF QueueInv
<1>14. ValidInv'
  <2>1. \A u \in seen : Accepts(registrations, u)' => u \in valid
    BY <1>5 DEF SchedInv, ValidInv, Accepts
  <2>2. \A g \in SchedHandler : handlers'[g].pc \in {"bind", "send"} => handlers'[g].task \in valid
    BY <1>6 DEF SchedInv, ValidInv
  <2>3. \A k \in DOMAIN inbox' : inbox'[k] \in valid
    BY <1>2, <1>12 DEF SchedInv, ValidInv
  <2>4. \A u \in SchedTask : turns[u] = "running" =>
          u \in seen /\ u \in valid /\ \A g \in SchedHandler : ~Has(g, u)'
    BY <1>11 DEF SchedInv, ValidInv
  <2> QED BY <1>5, <2>1, <2>2, <2>3, <2>4 DEF ValidInv
<1> QED BY <1>9, <1>10, <1>13, <1>14 DEF SchedInv

\* The goroutine that rejects a task is the only one to work for it.
LEMMA RejectKeeps ==
  ASSUME SchedInv, NEW h \in SchedHandler, SchedReject(h)
  PROVE  SchedInv'
<1>1. PICK t : t = handlers[h].task
  OBVIOUS
<1>2. handlers[h].pc = "reject" /\ t \in SchedTask /\ tasks[t].status = "queued" /\ Has(h, t)
  BY <1>1 DEF SchedReject, AtStage, SchedInv, QueueInv, Has
<1>3. begun[t] = 0 /\ turns[t] = "none"
  BY <1>2 DEF SchedInv, LifeInv
<1>4. /\ tasks' \in [SchedTask -> [status : TaskStatus, of : Sched \cup {0}, digest : Digest]]
      /\ \A u \in SchedTask : tasks'[u].of = tasks[u].of /\ tasks'[u].digest = tasks[u].digest
      /\ \A u \in SchedTask : u # t => tasks'[u] = tasks[u]
      /\ \/ tasks'[t].status = "failed" /\ rejected' = rejected \cup {t}
         \/ tasks'[t].status = "queued" /\ rejected' = rejected
  <2>1. CASE Operation(t, {"queued", "running"}, "failed") /\ rejected' = rejected \cup {t}
    BY <1>2, <2>1, OperationIs DEF TaskStatus
  <2>2. CASE UNCHANGED <<tasks, rejected>>
    BY <1>2, <2>2 DEF SchedInv, TypeInv
  <2> QED BY <1>1, <2>1, <2>2 DEF SchedReject, TaskOf
<1>5. UNCHANGED <<configured, schedules, begun>> /\ LeavesInError(h)
  BY DEF SchedReject
<1>6. \A u \in SchedTask :
        /\ tasks'[u].status \in {"none", "queued"} => begun[u] = 0 /\ u \notin rejected'
        /\ u \in rejected' => begun[u] = 0
  BY <1>2, <1>3, <1>4 DEF SchedInv, LifeInv
<1>7. CASE h = Startup
  <2>1. Gone
    BY <1>5, <1>7 DEF LeavesInError
  <2>2. schedules' \in [Sched -> Digest]
    BY <1>5 DEF SchedInv, TypeInv
  <2> QED BY <1>4, <1>5, <1>6, <2>1, <2>2, GoneKeeps
<1>8. CASE h # Startup
  <2>1. /\ handlers' = [handlers EXCEPT ![h] = NoHandler]
        /\ UNCHANGED <<registrations, applied, update, worker, found, seen, bound, inbox, turns,
                       valid>>
    BY <1>5, <1>8 DEF LeavesInError, Leaves, updating
  <2>2. /\ handlers'[h].pc = "idle"
        /\ \A g \in SchedHandler : g # h => handlers'[g] = handlers[g]
    BY <2>1 DEF SchedInv, TypeInv, NoHandler
  <2>3. TypeInv'
    <3>1. NoHandler \in [pc : Stage, task : SchedTask \cup {0}]
      BY DEF NoHandler, Stage
    <3> QED BY <1>4, <1>5, <2>1, <3>1 DEF SchedInv, TypeInv
  <2>4. UpdateInv'
    BY <1>5, <2>1 DEF SchedInv, UpdateInv, Up
  <2>5. LifeInv'
    BY <1>2, <1>3, <1>4, <1>5, <1>6, <2>1 DEF SchedInv, LifeInv
  <2>6. \A g \in SchedHandler, u \in SchedTask : Has(g, u)' => Has(g, u) /\ u # t
    BY <1>2, <2>2 DEF SchedInv, QueueInv, Has
  <2>7. \A k \in DOMAIN inbox : inbox[k] # t /\ inbox[k] \in SchedTask
    BY <1>2 DEF SchedInv, TypeInv, QueueInv
  <2>8. QueueInv'
    <3>1. ASSUME NEW g \in SchedHandler, handlers'[g].pc # "idle"
          PROVE  /\ handlers'[g].task \in SchedTask /\ tasks'[handlers'[g].task].status # "none"
                 /\ handlers'[g].pc # "inspect" => tasks'[handlers'[g].task].status = "queued"
      <4>1. g # h /\ handlers'[g] = handlers[g]
        BY <2>2, <3>1
      <4>2. PICK u : u = handlers[g].task
        OBVIOUS
      <4>3. u \in SchedTask /\ Has(g, u)'
        BY <3>1, <4>1, <4>2 DEF SchedInv, QueueInv, Has
      <4>4. tasks'[u] = tasks[u]
        BY <1>4, <2>6, <4>3
      <4> QED BY <3>1, <4>1, <4>2, <4>4 DEF SchedInv, QueueInv
    <3>2. ASSUME NEW g \in SchedHandler, NEW u \in SchedTask, Has(g, u)', tasks'[u].status = "queued"
          PROVE  /\ u \in seen /\ \A k \in DOMAIN inbox : inbox[k] # u
                 /\ \A i \in SchedHandler : Has(i, u)' => i = g
      BY <1>4, <2>6, <3>2 DEF SchedInv, QueueInv
    <3>3. \A k \in DOMAIN inbox :
            /\ tasks'[inbox[k]].status = "queued" /\ inbox[k] \in seen
            /\ \A j \in DOMAIN inbox : inbox[j] = inbox[k] => j = k
      BY <1>4, <2>7 DEF SchedInv, QueueInv
    <3> QED BY <2>1, <3>1, <3>2, <3>3 DEF QueueInv
  <2>9. ValidInv'
    <3>1. \A u \in seen : Accepts(registrations, u)' => u \in valid
      <4>1. seen \subseteq SchedTask
        BY DEF SchedInv, TypeInv
      <4> QED BY <1>4, <2>1, <4>1 DEF SchedInv, ValidInv, Accepts
    <3>2. \A g \in SchedHandler : handlers'[g].pc \in {"bind", "send"} => handlers'[g].task \in valid
      BY <2>2 DEF SchedInv, ValidInv
    <3>3. \A u \in SchedTask : turns[u] = "running" =>
            u \in seen /\ u \in valid /\ \A g \in SchedHandler : ~Has(g, u)'
      BY <2>6 DEF SchedInv, ValidInv
    <3> QED BY <2>1, <3>1, <3>2, <3>3 DEF SchedInv, ValidInv
  <2> QED BY <2>3, <2>4, <2>5, <2>8, <2>9 DEF SchedInv
<1> QED BY <1>7, <1>8

LEMMA ServeKeeps ==
  ASSUME SchedInv, SchedServe
  PROVE  SchedInv'
<1>1. /\ worker = "recovering" /\ worker' = "serving" /\ found = {}
      /\ UNCHANGED <<configured, schedules, tasks, registrations, applied, update, found, seen,
                     bound, inbox, handlers, turns, begun, valid, rejected>>
  BY DEF SchedServe, atAether, updating, executing, schedGhosts
<1>2. TypeInv' /\ UpdateInv'
  BY <1>1 DEF SchedInv, TypeInv, UpdateInv, Up
<1>3. QueueInv' /\ LifeInv'
  BY <1>1, OutsideUpdates
<1>4. ValidInv'
  BY <1>1 DEF SchedInv, ValidInv, Accepts, Has
<1> QED BY <1>2, <1>3, <1>4 DEF SchedInv

-----------------------------------------------------------------------------
(* The turns. *)

\* The task at the head of the inbox is still queued, was accepted, and nobody
\* else works for it: its turn begins, or it is dropped.
LEMMA FetchKeeps ==
  ASSUME SchedInv, SchedFetch
  PROVE  SchedInv'
<1>1. PICK t : t = Head(inbox)
  OBVIOUS
<1>2. inbox \in Seq(SchedTask) /\ inbox # <<>> /\ Len(inbox) \in Nat
  BY DEF SchedFetch, SchedInv, TypeInv
<1>3. t \in SchedTask /\ 1 \in DOMAIN inbox /\ inbox[1] = t /\ DOMAIN inbox = 1 .. Len(inbox)
  BY <1>1, <1>2
<1>4. tasks[t].status = "queued" /\ t \in seen /\ t \in valid
  BY <1>3 DEF SchedInv, QueueInv, ValidInv
<1>5. \A h \in SchedHandler : ~Has(h, t)
  BY <1>3, <1>4 DEF SchedInv, QueueInv
<1>6. worker = "serving" /\ found = {}
  BY DEF SchedFetch, Serving, SchedInv, LifeInv
<1>7. /\ inbox' = Tail(inbox)
      /\ UNCHANGED <<configured, schedules, registrations, applied, update, worker, found, seen,
                     bound, handlers, valid, rejected>>
  BY DEF SchedFetch, updating
<1>8. /\ tasks' \in [SchedTask -> [status : TaskStatus, of : Sched \cup {0}, digest : Digest]]
      /\ \A u \in SchedTask : tasks'[u].of = tasks[u].of /\ tasks'[u].digest = tasks[u].digest
      /\ \A u \in SchedTask : u # t => tasks'[u] = tasks[u]
      /\ \/ /\ tasks'[t].status = "running" /\ turns' = [turns EXCEPT ![t] = "running"]
            /\ begun' = [begun EXCEPT ![t] = @ + 1]
         \/ tasks'[t].status = "queued" /\ UNCHANGED <<turns, begun>>
  <2>1. CASE /\ Operation(t, {"queued"}, "running")
             /\ turns' = [turns EXCEPT ![t] = "running"]
             /\ begun' = [begun EXCEPT ![t] = @ + 1]
    BY <1>3, <1>4, <2>1, OperationIs DEF TaskStatus
  <2>2. CASE UNCHANGED <<tasks, turns, begun>>
    BY <1>3, <1>4, <2>2 DEF SchedInv, TypeInv
  <2> QED BY <1>1, <1>4, <2>1, <2>2 DEF SchedFetch
<1>9. begun[t] = 0 /\ turns[t] = "none" /\ t \notin rejected
  BY <1>3, <1>4 DEF SchedInv, LifeInv
<1>10. /\ turns' \in [SchedTask -> {"none", "running", "resumed", "final"}]
       /\ begun' \in [SchedTask -> Nat]
       /\ \A u \in SchedTask : u # t => turns'[u] = turns[u] /\ begun'[u] = begun[u]
       /\ tasks'[t].status = "running" => turns'[t] = "running" /\ begun'[t] = 1
       /\ tasks'[t].status # "running" => turns'[t] = "none" /\ begun'[t] = 0
  <2>1. /\ turns \in [SchedTask -> {"none", "running", "resumed", "final"}]
        /\ begun \in [SchedTask -> Nat]
    BY DEF SchedInv, TypeInv
  <2>2. CASE /\ tasks'[t].status = "running" /\ turns' = [turns EXCEPT ![t] = "running"]
             /\ begun' = [begun EXCEPT ![t] = @ + 1]
    <3>1. begun' = [begun EXCEPT ![t] = 1]
      BY <1>3, <1>9, <2>1, <2>2
    <3> QED BY <1>3, <2>1, <2>2, <3>1
  <2>3. CASE tasks'[t].status = "queued" /\ UNCHANGED <<turns, begun>>
    BY <1>9, <2>1, <2>3
  <2> QED BY <1>8, <2>2, <2>3
<1>11. /\ Tail(inbox) \in Seq(SchedTask) /\ Len(Tail(inbox)) = Len(inbox) - 1
       /\ DOMAIN Tail(inbox) = 1 .. Len(inbox) - 1
       /\ \A k \in 1 .. Len(inbox) - 1 : Tail(inbox)[k] = inbox[k + 1]
  BY <1>2
<1>12. \A k \in DOMAIN inbox' : /\ k + 1 \in DOMAIN inbox /\ inbox'[k] = inbox[k + 1]
                                /\ k + 1 # 1 /\ k \in Int
  <2>1. ASSUME NEW k \in 1 .. Len(inbox) - 1
        PROVE  /\ k + 1 \in 1 .. Len(inbox) /\ Tail(inbox)[k] = inbox[k + 1]
               /\ k + 1 # 1 /\ k \in Int
    BY <1>2, <1>11
  <2> QED BY <1>3, <1>7, <1>11, <2>1
<1>13. \A k \in DOMAIN inbox' : inbox'[k] # t /\ inbox'[k] \in SchedTask
  BY <1>2, <1>3, <1>12 DEF SchedInv, QueueInv
<1>14. TypeInv'
  <2>1. Len(inbox') <= InboxCapacity
    BY <1>2, <1>7, <1>11, SchedAssumption DEF SchedInv, TypeInv
  <2> QED BY <1>7, <1>8, <1>10, <1>11, <2>1 DEF SchedInv, TypeInv
<1>15. UpdateInv'
  BY <1>7 DEF SchedInv, UpdateInv, Up
<1>16. LifeInv'
  <2>1. ASSUME NEW u \in SchedTask
        PROVE  /\ tasks'[u].status = "none" => u \notin seen' \cup found' \cup bound'
               /\ tasks'[u].status \in {"none", "queued"} =>
                     turns'[u] = "none" /\ begun'[u] = 0 /\ u \notin rejected'
               /\ begun'[u] <= 1 /\ (u \in rejected' => begun'[u] = 0)
               /\ u \in found' => begun'[u] = 0
    <3>1. CASE u = t
      BY <1>6, <1>7, <1>8, <1>9, <1>10, <3>1
    <3>2. CASE u # t
      BY <1>7, <1>8, <1>10, <3>2 DEF SchedInv, LifeInv
    <3> QED BY <3>1, <3>2
  <2> QED BY <1>6, <1>7, <2>1 DEF LifeInv
<1>17. \A h \in SchedHandler, u \in SchedTask : Has(h, u)' => Has(h, u) /\ u # t
  BY <1>5, <1>7 DEF Has
<1>18. QueueInv'
  <2>1. ASSUME NEW h \in SchedHandler, handlers'[h].pc # "idle"
        PROVE  /\ handlers'[h].task \in SchedTask /\ tasks'[handlers'[h].task].status # "none"
               /\ handlers'[h].pc # "inspect" => tasks'[handlers'[h].task].status = "queued"
    <3>1. PICK u : u = handlers[h].task
      OBVIOUS
    <3>2. u \in SchedTask /\ Has(h, u) /\ u # t
      BY <1>5, <1>7, <2>1, <3>1 DEF SchedInv, QueueInv, Has
    <3> QED BY <1>7, <1>8, <2>1, <3>1, <3>2 DEF SchedInv, QueueInv
  <2>2. ASSUME NEW h \in SchedHandler, NEW u \in SchedTask, Has(h, u)', tasks'[u].status = "queued"
        PROVE  /\ u \in seen /\ \A k \in DOMAIN inbox' : inbox'[k] # u
               /\ \A g \in SchedHandler : Has(g, u)' => g = h
    <3>1. Has(h, u) /\ u # t /\ tasks[u].status = "queued"
      BY <1>8, <1>17, <2>2
    <3> QED BY <1>12, <1>17, <2>2, <3>1 DEF SchedInv, QueueInv
  <2>3. ASSUME NEW k \in DOMAIN inbox'
        PROVE  /\ tasks'[inbox'[k]].status = "queued" /\ inbox'[k] \in seen
               /\ \A j \in DOMAIN inbox' : inbox'[j] = inbox'[k] => j = k
    <3>1. tasks'[inbox'[k]].status = "queued" /\ inbox'[k] \in seen
      BY <1>8, <1>12, <1>13 DEF SchedInv, QueueInv
    <3>2. ASSUME NEW j \in DOMAIN inbox', inbox'[j] = inbox'[k]
          PROVE  j = k
      <4>1. j + 1 = k + 1
        BY <1>12, <3>2 DEF SchedInv, QueueInv
      <4> QED BY <1>12, <4>1
    <3> QED BY <3>1, <3>2
  <2> QED BY <1>7, <2>1, <2>2, <2>3 DEF QueueInv
<1>19. ValidInv'
  <2>1. \A u \in seen : Accepts(registrations, u)' => u \in valid
    <3>1. seen \subseteq SchedTask
      BY DEF SchedInv, TypeInv
    <3> QED BY <1>7, <1>8, <3>1 DEF SchedInv, ValidInv, Accepts
  <2>2. \A h \in SchedHandler : handlers'[h].pc \in {"bind", "send"} => handlers'[h].task \in valid
    BY <1>7 DEF SchedInv, ValidInv
  <2>3. \A k \in DOMAIN inbox' : inbox'[k] \in valid
    BY <1>12 DEF SchedInv, ValidInv
  <2>4. ASSUME NEW u \in SchedTask, turns'[u] = "running"
        PROVE  u \in seen /\ u \in valid /\ \A h \in SchedHandler : ~Has(h, u)'
    <3>1. CASE u = t
      BY <1>4, <1>17, <3>1
    <3>2. CASE u # t
      BY <1>10, <1>17, <2>4, <3>2 DEF SchedInv, ValidInv
    <3> QED BY <3>1, <3>2
  <2> QED BY <1>7, <2>1, <2>2, <2>3, <2>4 DEF ValidInv
<1> QED BY <1>14, <1>15, <1>16, <1>18, <1>19 DEF SchedInv

\* What a turn does with its task, which is no longer queued, disturbs nobody.
LEMMA TurnKeeps ==
  ASSUME SchedInv, NEW t \in SchedTask, tasks[t].status \notin {"none", "queued"},
         tasks' \in [SchedTask -> [status : TaskStatus, of : Sched \cup {0}, digest : Digest]],
         tasks'[t].status \notin {"none", "queued"},
         \A u \in SchedTask : tasks'[u].of = tasks[u].of /\ tasks'[u].digest = tasks[u].digest,
         \A u \in SchedTask : u # t => tasks'[u] = tasks[u],
         turns' \in [SchedTask -> {"none", "running", "resumed", "final"}],
         \A u \in SchedTask : u # t => turns'[u] = turns[u],
         turns'[t] # "running",
         seen' \in {seen, seen \ {t}}, bound' \in {bound, bound \cup {t}, bound \ {t}},
         UNCHANGED <<configured, schedules, registrations, applied, update, worker, found, inbox,
                     handlers, begun, valid, rejected>>
  PROVE  SchedInv'
<1>1. TypeInv' /\ UpdateInv'
  BY DEF SchedInv, TypeInv, UpdateInv, Up
<1>2. LifeInv'
  BY DEF SchedInv, LifeInv
<1>3. \A h \in SchedHandler, u \in SchedTask : Has(h, u)' <=> Has(h, u)
  BY DEF Has
<1>4. \A u \in SchedTask : (tasks'[u].status = "queued" <=> tasks[u].status = "queued")
                           /\ (tasks'[u].status = "none" <=> tasks[u].status = "none")
  OBVIOUS
<1>5. \A k \in DOMAIN inbox : inbox[k] # t /\ inbox[k] \in SchedTask
  BY DEF SchedInv, TypeInv, QueueInv
<1>6. QueueInv'
  <2>1. ASSUME NEW h \in SchedHandler, handlers[h].pc # "idle"
        PROVE  /\ handlers[h].task \in SchedTask /\ tasks'[handlers[h].task].status # "none"
               /\ handlers[h].pc # "inspect" => tasks'[handlers[h].task].status = "queued"
    BY <1>4, <2>1 DEF SchedInv, QueueInv
  <2>2. ASSUME NEW h \in SchedHandler, NEW u \in SchedTask, Has(h, u)', tasks'[u].status = "queued"
        PROVE  /\ u \in seen' /\ \A k \in DOMAIN inbox : inbox[k] # u
               /\ \A g \in SchedHandler : Has(g, u)' => g = h
    BY <1>3, <1>4, <2>2 DEF SchedInv, QueueInv
  <2>3. \A k \in DOMAIN inbox :
          /\ tasks'[inbox[k]].status = "queued" /\ inbox[k] \in seen'
          /\ \A j \in DOMAIN inbox : inbox[j] = inbox[k] => j = k
    BY <1>4, <1>5 DEF SchedInv, QueueInv
  <2> QED BY <2>1, <2>2, <2>3 DEF QueueInv
<1>7. ValidInv'
  <2>1. \A u \in seen' : Accepts(registrations, u)' => u \in valid
    <3>1. seen' \subseteq seen /\ seen \subseteq SchedTask
      BY DEF SchedInv, TypeInv
    <3> QED BY <3>1 DEF SchedInv, ValidInv, Accepts
  <2>2. \A u \in SchedTask : turns'[u] = "running" =>
          u \in seen' /\ u \in valid /\ \A h \in SchedHandler : ~Has(h, u)'
    BY <1>3 DEF SchedInv, ValidInv
  <2> QED BY <2>1, <2>2 DEF SchedInv, ValidInv
<1> QED BY <1>1, <1>2, <1>6, <1>7 DEF SchedInv

LEMMA FinalKeeps ==
  ASSUME SchedInv, NEW t \in SchedTask, SchedFinal(t)
  PROVE  SchedInv'
<1>1. tasks[t].status \notin {"none", "queued"}
  BY DEF SchedFinal, SchedInv, LifeInv
<1>2. /\ turns' = [turns EXCEPT ![t] = "final"]
      /\ seen' \in {seen, seen \ {t}} /\ bound' \in {bound, bound \ {t}}
      /\ UNCHANGED <<configured, schedules, tasks, registrations, applied, update, worker, found,
                     inbox, handlers, begun, valid, rejected>>
  BY DEF SchedFinal, atAether, updating, schedGhosts
<1>3. /\ tasks' \in [SchedTask -> [status : TaskStatus, of : Sched \cup {0}, digest : Digest]]
      /\ turns' \in [SchedTask -> {"none", "running", "resumed", "final"}]
      /\ turns'[t] = "final" /\ \A u \in SchedTask : u # t => turns'[u] = turns[u]
  BY <1>2 DEF SchedInv, TypeInv
<1> QED BY <1>1, <1>2, <1>3, TurnKeeps

LEMMA CompleteKeeps ==
  ASSUME SchedInv, NEW t \in SchedTask, SchedComplete(t)
  PROVE  SchedInv'
<1>1. tasks[t].status \notin {"none", "queued"}
  BY DEF SchedComplete, SchedInv, LifeInv
<1>2. /\ turns' = [turns EXCEPT ![t] = "none"]
      /\ UNCHANGED <<configured, schedules, registrations, applied, update, worker, found, seen,
                     bound, inbox, handlers, begun, valid, rejected>>
  BY DEF SchedComplete, updating, executing, schedGhosts
<1>3. PICK outcome \in {"completed", "failed"} : Operation(t, {"queued", "running"}, outcome)
  BY DEF SchedComplete
<1>4. outcome \in TaskStatus /\ outcome \notin {"none", "queued"}
  BY DEF TaskStatus
<1>5. /\ tasks' \in [SchedTask -> [status : TaskStatus, of : Sched \cup {0}, digest : Digest]]
      /\ tasks'[t].status \notin {"none", "queued"}
      /\ \A u \in SchedTask : tasks'[u].of = tasks[u].of /\ tasks'[u].digest = tasks[u].digest
      /\ \A u \in SchedTask : u # t => tasks'[u] = tasks[u]
  BY <1>1, <1>3, <1>4, OperationIs
<1>6. /\ turns' \in [SchedTask -> {"none", "running", "resumed", "final"}]
      /\ turns'[t] = "none" /\ \A u \in SchedTask : u # t => turns'[u] = turns[u]
  BY <1>2 DEF SchedInv, TypeInv
<1> QED BY <1>1, <1>2, <1>5, <1>6, TurnKeeps

LEMMA ResumeKeeps ==
  ASSUME SchedInv, NEW t \in SchedTask, SchedResume(t)
  PROVE  SchedInv'
<1>1. tasks[t].status = "running" /\ turns[t] = "none"
  BY DEF SchedResume
<1>2. UNCHANGED <<configured, schedules, registrations, applied, update, worker, found, seen,
                  inbox, handlers, begun, valid, rejected>>
  BY DEF SchedResume, updating, schedGhosts
<1>3. CASE /\ bound' = bound \cup {t} /\ turns' = [turns EXCEPT ![t] = "resumed"]
           /\ UNCHANGED tasks
  <2>1. /\ tasks' \in [SchedTask -> [status : TaskStatus, of : Sched \cup {0}, digest : Digest]]
        /\ turns' \in [SchedTask -> {"none", "running", "resumed", "final"}]
        /\ turns'[t] = "resumed" /\ \A u \in SchedTask : u # t => turns'[u] = turns[u]
    BY <1>3 DEF SchedInv, TypeInv
  <2> QED BY <1>1, <1>2, <1>3, <2>1, TurnKeeps
<1>4. CASE Operation(t, {"running"}, "failed") /\ UNCHANGED <<bound, turns>>
  <2>1. /\ tasks' \in [SchedTask -> [status : TaskStatus, of : Sched \cup {0}, digest : Digest]]
        /\ tasks'[t].status = "failed"
        /\ \A u \in SchedTask : tasks'[u].of = tasks[u].of /\ tasks'[u].digest = tasks[u].digest
        /\ \A u \in SchedTask : u # t => tasks'[u] = tasks[u]
    BY <1>1, <1>4, OperationIs DEF TaskStatus
  <2>2. turns' \in [SchedTask -> {"none", "running", "resumed", "final"}]
    BY <1>4 DEF SchedInv, TypeInv
  <2> QED BY <1>1, <1>2, <1>4, <2>1, <2>2, TurnKeeps
<1> QED BY <1>3, <1>4 DEF SchedResume

-----------------------------------------------------------------------------
(* The theorems. *)

LEMMA StepKeeps ==
  ASSUME SchedInv, [SchedNext]_schedVars
  PROVE  SchedInv'
<1>1. CASE UNCHANGED schedVars
  <2>1. UNCHANGED <<configured, schedules, tasks, registrations, applied, update, worker, found,
                    seen, bound, inbox, handlers, turns, begun, valid, rejected>>
    BY <1>1 DEF schedVars, atAether, updating, executing, schedGhosts
  <2>2. TypeInv' /\ UpdateInv' /\ LifeInv'
    BY <2>1 DEF SchedInv, TypeInv, UpdateInv, LifeInv, Up
  <2>3. QueueInv' /\ ValidInv'
    BY <2>1 DEF SchedInv, QueueInv, ValidInv, Has, Accepts
  <2> QED BY <2>2, <2>3 DEF SchedInv
<1>2. CASE SchedEdit \/ SchedUpdateFails \/ SchedCrash
  BY <1>2, EditKeeps, UpdateFailsKeeps, CrashKeeps
<1>3. CASE SchedWork
  BY <1>3, ReplaceKeeps, ListKeeps, WriteKeeps, UpdatedKeeps, ServeKeeps, FetchKeeps, RecoverKeeps
     DEF SchedWork
<1>4. ASSUME NEW h \in SchedHandler, SchedHandle(h) \/ SchedInspectFails(h)
      PROVE  SchedInv'
  BY <1>4, InspectKeeps, CheckKeeps, BindKeeps, SendKeeps, RejectKeeps, InspectFailsKeeps
     DEF SchedHandle
<1>5. ASSUME NEW h \in SchedHandler, NEW t \in SchedTask, SchedDeliver(h, t)
      PROVE  SchedInv'
  BY <1>5, DeliverKeeps
<1>6. ASSUME NEW t \in SchedTask, SchedFinal(t) \/ SchedComplete(t) \/ SchedResume(t)
      PROVE  SchedInv'
  BY <1>6, FinalKeeps, CompleteKeeps, ResumeKeeps
<1>7. ASSUME NEW s \in Sched, NEW t \in SchedTask, SchedFire(s, t)
      PROVE  SchedInv'
  BY <1>7, FireKeeps
<1> QED BY <1>1, <1>2, <1>3, <1>4, <1>5, <1>6, <1>7 DEF SchedNext

LEMMA SchedInvariant == SchedSpec => []SchedInv
<1>1. SchedInv /\ [SchedNext]_schedVars => SchedInv'
  BY StepKeeps
<1> QED BY <1>1, InitialSched, PTL DEF SchedSpec

\* Tasks, assignments and the inbox are what the code knows of them, and the
\* inbox never holds more than its buffer (EnqueueBoundTurn), with any number
\* of deliveries and restarts.
THEOREM SchedulesTyped == SchedSpec => []SchedTypeOK
<1>1. SchedInv => SchedTypeOK
  BY DEF SchedInv, TypeInv, SchedTypeOK, TaskStatus, Stage, LateStage
<1> QED BY <1>1, SchedInvariant, PTL

\* However often a task is delivered, found by the recovery or its worker
\* restarted, its turn begins at most once, from a declaration that was
\* accepted since the task was taken, and not for a task that was rejected
\* (HandleAssignment); and an update that ended well left Aether with the
\* declarations of the file it was made for (reconcileScheduledTurnDefinitionsFor).
THEOREM SchedulesAreSound == SchedSpec => []SchedSound
<1>1. ASSUME SchedInv PROVE SchedTurnsSound
  BY <1>1 DEF SchedInv, LifeInv, ValidInv, SchedTurnsSound
<1>2. ASSUME SchedInv PROVE SchedConverged
  <2>1. SUFFICES ASSUME Up, update = NoUpdate, applied = registrations
                 PROVE  schedules = registrations
    BY DEF SchedConverged
  <2>2. \A s \in Sched : schedules[s] = registrations[s]
    BY <1>2, <2>1 DEF SchedInv, UpdateInv
  <2> QED BY <1>2, <2>2 DEF SchedInv, TypeInv
<1> QED BY <1>1, <1>2, SchedInvariant, PTL DEF SchedSound
=============================================================================
