---------------------------- MODULE WorkspaceViews ----------------------------
(***************************************************************************)
(* Working directories and the workspaces they belong to.  A tool host     *)
(* registers a view of each project a user works in, publishes what it     *)
(* observes of it, and hands out bindings; a tool that comes with a        *)
(* binding runs in its view while the view is still what was bound.  The   *)
(* name of a project's workspace is kept in an index file.                 *)
(*                                                                         *)
(* Directories are constants; a view is named by its root and the HEAD of  *)
(* a repository is a number that commits increase.  0 stands for the       *)
(* revision of a directory that is no repository.                          *)
(***************************************************************************)
LOCAL INSTANCE Integers
LOCAL INSTANCE Sequences
LOCAL INSTANCE FiniteSets

CONSTANTS
    WvRoot,            \* the projects
    WvInside,          \* root -> the directories in it, roots of nested projects too
    WvRootOf,          \* directory -> the project it is detected in
    WvRepo,            \* root -> its repository, which worktrees share
    WvBase,            \* root -> the slug of its name
    WvInitial,         \* the root each host starts in
    WvHost,
    WvCaller,
    WvPlans,           \* plans: hosts and operations of the callers, and bounds
    NoRepo, NoView, NoWs, NoCaller, NoBinding

VARIABLES
    wvPlan,
    wvHead, wvDirty,   \* root -> its revision, and whether it has uncommitted changes
    wvFile,            \* the index file: root -> workspace
    wvHosts,           \* the registry of each host
    wvCallers,
    wvLog,             \* the observations the publisher received
    wvGiven,           \* the bindings handed out
    wvNamed,           \* the workspaces resolved: <<root, workspace>>
    wvRuns,            \* the tools that ran
    wvLeft             \* what may still happen

wvVars == <<wvPlan, wvHead, wvDirty, wvFile, wvHosts, wvCallers, wvLog, wvGiven, wvNamed,
            wvRuns, wvLeft>>

WvHome == <<"home">>
View(ws, rev) == [ws |-> ws, rev |-> rev]
ObserveGit(root) == IF WvRepo[root] = NoRepo THEN 0 ELSE wvHead[root]

\* NewViewRegistry: the index is read and the initial root registered.
NewRegistry(gen, index, rev) ==
    [gen |-> gen, index |-> index, publisher |-> FALSE, lock |-> NoCaller,
     views |-> [r \in WvRoot |-> IF r = WvInitial THEN View(WvHome, rev) ELSE NoView],
     sequence |-> [r \in WvRoot |-> IF r = WvInitial THEN 1 ELSE 0]]

Unnamed == [r \in WvRoot |-> NoWs]
FirstRev(r) == IF WvRepo[r] = NoRepo THEN 0 ELSE 1

WvInit ==
    /\ wvPlan \in WvPlans
    /\ wvHead = [r \in WvRoot |-> 1] /\ wvDirty = [r \in WvRoot |-> FALSE]
    /\ wvFile = Unnamed
    /\ wvHosts = [h \in WvHost |-> NewRegistry(1, Unnamed, FirstRev(WvInitial))]
    /\ wvCallers = [c \in WvCaller |->
          [pc |-> "ready", op |-> 1, root |-> WvInitial, view |-> NoView, todo |-> {},
           binding |-> NoBinding]]
    /\ wvLog = <<>> /\ wvGiven = {} /\ wvNamed = {} /\ wvRuns = {}
    /\ wvLeft = wvPlan.faults

WvOp(c) == wvPlan.ops[c][wvCallers[c].op]
HostOf(c) == wvPlan.host[c]
Reg(c) == wvHosts[HostOf(c)]
HasOp(c) == wvCallers[c].op \in DOMAIN wvPlan.ops[c]
WvNextOp(c) == [wvCallers EXCEPT ![c] = [@ EXCEPT !.pc = "ready", !.op = @ + 1, !.view = NoView,
                                                !.todo = {}, !.binding = NoBinding]]

\* The workspace is what a caller that only resolves its directory is told.
Told(c, root, ws) == wvNamed \cup {<<HostOf(c), root, ws>>}

-----------------------------------------------------------------------------
\* The index: a project keeps its name, and a new one gets the slug of its
\* directory or, when that is taken, one with a digest.
AvailableId(index, root) ==
    IF <<WvBase[root]>> \notin {index[r] : r \in WvRoot} THEN <<WvBase[root]>>
    ELSE <<WvBase[root], root>>
Assigned(index, root) ==
    IF index[root] # NoWs THEN index ELSE [index EXCEPT ![root] = AvailableId(index, root)]

\* The whole index of this process is written before it is remembered.
Remember(h, root, saved) ==
    IF saved THEN [wvHosts EXCEPT ![h].index = Assigned(@, root)] ELSE wvHosts

WorkspaceOf(h, root) ==
    IF root = WvInitial \/ (WvRepo[root] # NoRepo /\ WvRepo[root] = WvRepo[WvInitial])
    THEN WvHome ELSE Assigned(wvHosts[h].index, root)[root]

\* The deepest registered view around a directory.
Around(h, dir) == {r \in WvRoot : wvHosts[h].views[r] # NoView /\ dir \in WvInside[r]}
Deepest(roots) == CHOOSE r \in roots : \A q \in roots : r \in WvInside[q]

-----------------------------------------------------------------------------
\* register, first part: a directory in a registered view needs no other; else
\* its project is detected and observed, and its workspace named.
AfterRegister(c, root) ==
    IF WvOp(c).kind = "bind"
    THEN [wvCallers EXCEPT ![c] = [@ EXCEPT !.pc = "refresh", !.root = root,
                                            !.view = Reg(c).views[root]]]
    ELSE WvNextOp(c)

WvFind(c) ==
    /\ wvCallers[c].pc = "ready" /\ HasOp(c) /\ WvOp(c).kind \in {"bind", "resolve"}
    /\ LET around == Around(HostOf(c), WvOp(c).dir)
           root == WvRootOf[WvOp(c).dir]
           named == WorkspaceOf(HostOf(c), root) # WvHome /\ Reg(c).index[root] = NoWs
       IN  \/ /\ around # {}
              /\ wvCallers' = AfterRegister(c, Deepest(around))
              /\ wvNamed' = Told(c, Deepest(around), Reg(c).views[Deepest(around)].ws)
              /\ UNCHANGED <<wvFile, wvHosts, wvLeft>>
           \/ /\ around = {}
              /\ wvCallers' = [wvCallers EXCEPT ![c] = [@ EXCEPT !.pc = "register",
                    !.root = root, !.view = View(WorkspaceOf(HostOf(c), root), ObserveGit(root))]]
              /\ wvFile' = IF named THEN Assigned(Reg(c).index, root) ELSE wvFile
              /\ wvHosts' = IF named THEN Remember(HostOf(c), root, TRUE) ELSE wvHosts
              /\ UNCHANGED <<wvNamed, wvLeft>>
           \/ /\ around = {} /\ named /\ wvLeft.saves > 0
              /\ wvLeft' = [wvLeft EXCEPT !.saves = @ - 1]
              /\ wvHosts' = Remember(HostOf(c), root, FALSE)
              /\ wvCallers' = WvNextOp(c)
              /\ UNCHANGED <<wvFile, wvNamed>>
    /\ UNCHANGED <<wvPlan, wvHead, wvDirty, wvLog, wvGiven, wvRuns>>

\* PublishWorkspaceView: the observation is received, and the answer comes or is
\* lost; or it is not received.
Observation(c, root, sequence, rev) ==
    [host |-> HostOf(c), gen |-> Reg(c).gen, view |-> root, sequence |-> sequence, rev |-> rev,
     lost |-> FALSE]
Received(o, pc, c, root, view) ==
    /\ wvLog' = Append(wvLog, o)
    /\ wvCallers' = [wvCallers EXCEPT ![c] = [@ EXCEPT !.pc = pc, !.root = root, !.view = view]]
WvFault == wvLeft.publishes > 0 /\ wvLeft' = [wvLeft EXCEPT !.publishes = @ - 1]
Locked(c) == [wvHosts EXCEPT ![HostOf(c)].lock = c]
Unlocked(c) == [wvHosts EXCEPT ![HostOf(c)].lock = NoCaller]
WvStored(c, root, view, sequence) ==
    [wvHosts EXCEPT ![HostOf(c)] = [@ EXCEPT !.views[root] = view, !.sequence[root] = sequence]]

\* register, second part, under the publishing lock: someone else may have
\* registered the view meanwhile.
WvRegister(c) ==
    LET root == wvCallers[c].root
        view == wvCallers[c].view
        o == Observation(c, root, Reg(c).sequence[root] + 1, view.rev)
    IN  /\ wvCallers[c].pc = "register" /\ Reg(c).lock = NoCaller
        /\ \/ /\ Reg(c).views[root] # NoView
              /\ wvCallers' = AfterRegister(c, root)
              /\ wvNamed' = Told(c, root, Reg(c).views[root].ws)
              /\ UNCHANGED <<wvHosts, wvLog, wvLeft>>
           \/ /\ Reg(c).views[root] = NoView /\ ~Reg(c).publisher
              /\ wvHosts' = WvStored(c, root, view, 1)
              /\ wvCallers' = IF WvOp(c).kind = "bind"
                              THEN [wvCallers EXCEPT ![c].pc = "refresh"] ELSE WvNextOp(c)
              /\ wvNamed' = Told(c, root, view.ws)
              /\ UNCHANGED <<wvLog, wvLeft>>
           \/ /\ Reg(c).views[root] = NoView /\ Reg(c).publisher
              /\ \/ /\ Received(o, "registering", c, root, view)
                    /\ wvHosts' = Locked(c) /\ UNCHANGED wvLeft
                 \/ WvFault /\ wvCallers' = WvNextOp(c) /\ UNCHANGED <<wvHosts, wvLog>>
              /\ UNCHANGED wvNamed
        /\ UNCHANGED <<wvPlan, wvHead, wvDirty, wvFile, wvGiven, wvRuns>>

WvRegistered(c) ==
    LET root == wvCallers[c].root
        view == wvCallers[c].view
        done == WvStored(c, root, view, Reg(c).sequence[root] + 1)
    IN  /\ wvCallers[c].pc = "registering"
        /\ \/ /\ wvHosts' = [done EXCEPT ![HostOf(c)].lock = NoCaller]
              /\ wvCallers' = IF WvOp(c).kind = "bind"
                              THEN [wvCallers EXCEPT ![c].pc = "refresh"] ELSE WvNextOp(c)
              /\ wvNamed' = Told(c, root, view.ws)
              /\ UNCHANGED <<wvLog, wvLeft>>
           \/ /\ WvFault /\ wvHosts' = Unlocked(c) /\ wvCallers' = WvNextOp(c)
              /\ wvLog' = [wvLog EXCEPT ![Len(wvLog)].lost = TRUE]
              /\ UNCHANGED wvNamed
        /\ UNCHANGED <<wvPlan, wvHead, wvDirty, wvFile, wvGiven, wvRuns>>

-----------------------------------------------------------------------------
\* refreshObservation, for a binding or for the renewal of every view: the
\* sequence moves on whatever comes of the publication.
WvBinding(c, root, view) ==
    [host |-> HostOf(c), gen |-> Reg(c).gen, view |-> root, ws |-> view.ws, rev |-> view.rev,
     dir |-> WvOp(c).dir]

AfterRefresh(c, root, view) ==
    IF WvOp(c).kind = "bind"
    THEN /\ wvCallers' = WvNextOp(c) /\ wvGiven' = wvGiven \cup {WvBinding(c, root, view)}
    ELSE /\ wvCallers' = [wvCallers EXCEPT ![c] = [@ EXCEPT !.pc = "renewing", !.todo = @ \ {root}]]
         /\ UNCHANGED wvGiven

refreshObservation(c, root, ws) ==
    LET view == View(ws, ObserveGit(root))
        next == Reg(c).sequence[root] + 1
    IN  /\ Reg(c).lock = NoCaller
        /\ \/ /\ ~Reg(c).publisher
              /\ wvHosts' = WvStored(c, root, view, next)
              /\ AfterRefresh(c, root, view) /\ UNCHANGED <<wvLog, wvLeft>>
           \/ /\ Reg(c).publisher
              /\ \/ /\ Received(Observation(c, root, next, view.rev), "refreshing", c, root, view)
                    /\ wvHosts' = [Locked(c) EXCEPT ![HostOf(c)].sequence[root] = next]
                    /\ UNCHANGED wvLeft
                 \/ /\ WvFault /\ wvCallers' = WvNextOp(c) /\ UNCHANGED wvLog
                    /\ wvHosts' = [wvHosts EXCEPT ![HostOf(c)].sequence[root] = next]
              /\ UNCHANGED wvGiven
        /\ UNCHANGED <<wvPlan, wvHead, wvDirty, wvFile, wvNamed, wvRuns>>

WvRefresh(c) ==
    /\ wvCallers[c].pc = "refresh"
    /\ refreshObservation(c, wvCallers[c].root, wvCallers[c].view.ws)

WvRefreshed(c) ==
    LET root == wvCallers[c].root
        view == wvCallers[c].view
    IN  /\ wvCallers[c].pc = "refreshing"
        /\ \/ /\ wvHosts' = [Unlocked(c) EXCEPT ![HostOf(c)].views[root] = view]
              /\ AfterRefresh(c, root, view) /\ UNCHANGED <<wvLog, wvLeft>>
           \/ /\ WvFault /\ wvHosts' = Unlocked(c) /\ wvCallers' = WvNextOp(c)
              /\ wvLog' = [wvLog EXCEPT ![Len(wvLog)].lost = TRUE] /\ UNCHANGED wvGiven
        /\ UNCHANGED <<wvPlan, wvHead, wvDirty, wvFile, wvNamed, wvRuns>>

\* RenewRegisteredViews: the views there are when it starts, one after the other.
Registered(c) == {r \in WvRoot : Reg(c).views[r] # NoView}
WvRenew(c) ==
    /\ \/ /\ wvCallers[c].pc = "ready" /\ HasOp(c) /\ WvOp(c).kind = "renew"
          /\ wvCallers' = [wvCallers EXCEPT ![c] = [@ EXCEPT !.pc = "renewing",
                                                             !.todo = Registered(c)]]
       \/ wvCallers[c].pc = "renewing" /\ wvCallers[c].todo = {} /\ wvCallers' = WvNextOp(c)
    /\ UNCHANGED <<wvPlan, wvHead, wvDirty, wvFile, wvHosts, wvLog, wvGiven, wvNamed, wvRuns, wvLeft>>

WvRenewOne(c, r) ==
    /\ wvCallers[c].pc = "renewing" /\ r \in wvCallers[c].todo
    /\ refreshObservation(c, r, Reg(c).views[r].ws)

\* SetPublisher holds the lock while it publishes every view to the new
\* publisher, which is used once all of them are there.
WvSetPublisher(c) ==
    /\ wvCallers[c].pc = "ready" /\ HasOp(c) /\ WvOp(c).kind = "publisher"
    /\ Reg(c).lock = NoCaller
    /\ wvHosts' = Locked(c)
    /\ wvCallers' = [wvCallers EXCEPT ![c] = [@ EXCEPT !.pc = "walk", !.todo = Registered(c)]]
    /\ UNCHANGED <<wvPlan, wvHead, wvDirty, wvFile, wvLog, wvGiven, wvNamed, wvRuns, wvLeft>>

WvWalk(c, r) ==
    LET view == View(Reg(c).views[r].ws, ObserveGit(r))
    IN  /\ wvCallers[c].pc = "walk" /\ r \in wvCallers[c].todo
        /\ \/ /\ Received(Observation(c, r, Reg(c).sequence[r] + 1, view.rev), "walking", c, r, view)
              /\ UNCHANGED <<wvHosts, wvLeft>>
           \/ WvFault /\ wvHosts' = Unlocked(c) /\ wvCallers' = WvNextOp(c) /\ UNCHANGED wvLog
        /\ UNCHANGED <<wvPlan, wvHead, wvDirty, wvFile, wvGiven, wvNamed, wvRuns>>

WvWalked(c) ==
    LET root == wvCallers[c].root
    IN  /\ wvCallers[c].pc = "walking"
        /\ \/ /\ wvHosts' = WvStored(c, root, wvCallers[c].view, Reg(c).sequence[root] + 1)
              /\ wvCallers' = [wvCallers EXCEPT ![c] = [@ EXCEPT !.pc = "walk", !.todo = @ \ {root}]]
              /\ UNCHANGED <<wvLog, wvLeft>>
           \/ /\ WvFault /\ wvHosts' = Unlocked(c) /\ wvCallers' = WvNextOp(c)
              /\ wvLog' = [wvLog EXCEPT ![Len(wvLog)].lost = TRUE]
        /\ UNCHANGED <<wvPlan, wvHead, wvDirty, wvFile, wvGiven, wvNamed, wvRuns>>

WvPublisherSet(c) ==
    /\ wvCallers[c].pc = "walk" /\ wvCallers[c].todo = {}
    /\ wvHosts' = [Unlocked(c) EXCEPT ![HostOf(c)].publisher = TRUE]
    /\ wvCallers' = WvNextOp(c)
    /\ UNCHANGED <<wvPlan, wvHead, wvDirty, wvFile, wvLog, wvGiven, wvNamed, wvRuns, wvLeft>>

-----------------------------------------------------------------------------
\* Tools with a binding.
ResolveBinding(h, b) ==
    /\ b.host = h /\ wvHosts[h].views[b.view] # NoView
    /\ wvHosts[h].views[b.view].ws = b.ws
ResolveCurrentBinding(h, b) ==
    ResolveBinding(h, b) /\ (b.rev # 0 => ObserveGit(b.view) = b.rev)

\* A scheduled turn's view must not be mutable or dirty unless its policy says so.
Admissible(op, root) ==
    /\ WvRepo[root] = NoRepo => op.allowMutable
    /\ wvDirty[root] => op.allowDirty

\* A binding made by this host or by one that ran before it.
WvInvoke(c, b) ==
    /\ wvCallers[c].pc = "ready" /\ HasOp(c) /\ WvOp(c).kind = "invoke"
    /\ LET go == IF WvOp(c).scheduled
                 THEN ResolveCurrentBinding(HostOf(c), b) /\ Admissible(WvOp(c), b.view)
                 ELSE TRUE
       IN  wvCallers' = IF go THEN [wvCallers EXCEPT ![c] = [@ EXCEPT !.pc = "bound", !.binding = b]]
                        ELSE WvNextOp(c)
    /\ UNCHANGED <<wvPlan, wvHead, wvDirty, wvFile, wvHosts, wvLog, wvGiven, wvNamed, wvRuns, wvLeft>>

\* invokeBound resolves the binding itself; the tool runs from there on.
WvRun(c) ==
    LET b == wvCallers[c].binding
    IN  /\ wvCallers[c].pc = "bound"
        /\ wvRuns' = IF ResolveCurrentBinding(HostOf(c), b)
                     THEN wvRuns \cup {[binding |-> b, at |-> ObserveGit(b.view)]} ELSE wvRuns
        /\ wvDirty' = IF ResolveCurrentBinding(HostOf(c), b) /\ WvOp(c).writes
                      THEN [wvDirty EXCEPT ![b.view] = TRUE] ELSE wvDirty
        /\ wvCallers' = WvNextOp(c)
        /\ UNCHANGED <<wvPlan, wvHead, wvFile, wvHosts, wvLog, wvGiven, wvNamed, wvLeft>>

-----------------------------------------------------------------------------
\* The user edits files and commits; a host is started again.
WvCommit(r) ==
    /\ wvLeft.commits > 0 /\ WvRepo[r] # NoRepo
    /\ wvLeft' = [wvLeft EXCEPT !.commits = @ - 1]
    /\ \/ wvHead' = [wvHead EXCEPT ![r] = @ + 1] /\ wvDirty' = [wvDirty EXCEPT ![r] = FALSE]
       \/ ~wvDirty[r] /\ wvDirty' = [wvDirty EXCEPT ![r] = TRUE] /\ UNCHANGED wvHead
    /\ UNCHANGED <<wvPlan, wvFile, wvHosts, wvCallers, wvLog, wvGiven, wvNamed, wvRuns>>

WvRestart(h) ==
    /\ wvLeft.restarts > 0 /\ \A c \in WvCaller : HostOf(c) = h => wvCallers[c].pc = "ready"
    /\ wvLeft' = [wvLeft EXCEPT !.restarts = @ - 1]
    /\ wvHosts' = [wvHosts EXCEPT ![h] = NewRegistry(@.gen + 1, wvFile, ObserveGit(WvInitial))]
    /\ UNCHANGED <<wvPlan, wvHead, wvDirty, wvFile, wvCallers, wvLog, wvGiven, wvNamed, wvRuns>>

WvNext ==
    \/ \E c \in WvCaller :
          \/ WvFind(c) \/ WvRegister(c) \/ WvRegistered(c) \/ WvRefresh(c) \/ WvRefreshed(c)
          \/ WvRenew(c) \/ WvSetPublisher(c) \/ WvWalked(c) \/ WvPublisherSet(c) \/ WvRun(c)
          \/ \E r \in WvRoot : WvRenewOne(c, r) \/ WvWalk(c, r)
          \/ \E b \in wvGiven : WvInvoke(c, b)
    \/ \E r \in WvRoot : WvCommit(r)
    \/ \E h \in WvHost : WvRestart(h)

-----------------------------------------------------------------------------
WvTypeOK ==
    /\ wvPlan \in WvPlans
    /\ \A h \in WvHost : wvHosts[h].lock \in WvCaller \cup {NoCaller}
    /\ \A c \in WvCaller : wvCallers[c].root \in WvRoot /\ wvCallers[c].todo \subseteq WvRoot
    /\ \A i \in DOMAIN wvLog : wvLog[i].view \in WvRoot /\ wvLog[i].sequence \in Nat

\* What is published of a view supersedes what was: a later observation of one
\* run of the host has a later number and no earlier revision, whoever published
\* the two; only one whose answer was lost is repeated.
WvOrdered ==
    \A i, j \in DOMAIN wvLog :
        /\ i < j /\ ~wvLog[i].lost
        /\ wvLog[i].host = wvLog[j].host /\ wvLog[i].gen = wvLog[j].gen
        /\ wvLog[i].view = wvLog[j].view
        => wvLog[i].sequence < wvLog[j].sequence /\ wvLog[i].rev <= wvLog[j].rev

\* No view is missing at the publisher: not one registered while the publisher
\* was being set.
WvNoneMissed ==
    \A h \in WvHost, r \in WvRoot :
        wvHosts[h].publisher /\ wvHosts[h].views[r] # NoView
        => \E i \in DOMAIN wvLog : /\ wvLog[i].host = h /\ wvLog[i].gen = wvHosts[h].gen
                                   /\ wvLog[i].view = r

\* Projects and workspaces stay one to one: a workspace is told for one project,
\* worktrees of the initial repository apart, and a project keeps it over
\* restarts and failed writes, for the host that has the index to itself.
WvIdsKept ==
    \A a, b \in wvNamed :
        a[1] = b[1] /\ ~wvPlan.shared
        => /\ a[2] = b[2] => a[3] = b[3]
           /\ a[3] = b[3] => a[2] = b[2] \/ a[3] = WvHome

\* A binding handed out resolves for as long as its host runs, to a view around
\* the directory that was bound.
WvBound ==
    \A b \in wvGiven :
        b.gen = wvHosts[b.host].gen
        => ResolveBinding(b.host, b) /\ b.dir \in WvInside[b.view]

\* A tool starts at the revision it was bound to, or in a view that has none,
\* however the user commits meanwhile.
WvAdmitted == \A r \in wvRuns : r.at = r.binding.rev

ViewsSound == WvOrdered /\ WvNoneMissed /\ WvIdsKept /\ WvBound /\ WvAdmitted
===============================================================================
