---------------------------- MODULE LiveCatalog ----------------------------
(***************************************************************************)
(* The live tool catalog: providers publish, renew and revoke leased       *)
(* registrations, replicas of the service change one shared state by       *)
(* compare-and-swap, and clients page through retained snapshots of it.    *)
(* A mutation reads the clock once, before its retries.                    *)
(*                                                                         *)
(* A publication stands for its only entry, whose reference is the         *)
(* registration and its generation.  Contexts all match; the content of    *)
(* entries, digests and cursor signatures are left out.                    *)
(***************************************************************************)
LOCAL INSTANCE Integers
LOCAL INSTANCE FiniteSets
LOCAL INSTANCE Functions
LOCAL INSTANCE Sequences
LOCAL INSTANCE SequencesExt

CONSTANTS
    CatReg,           \* registrations of providers, numbered
    CatRequest,       \* the messages providers may send
    CatReplica,       \* replicas of the service, each in one mutation
    CatHidden,        \* what the authorizer may hide of a snapshot
    NoRoute, NoHolder,
    CatMaxLease, CatRetention, CatSnapshotRetention,
    CatAttempts,      \* compare-and-swap attempts of a mutation
    CatLimit,         \* entries on a page
    MaxCatTime,       \* bound: the clock
    CatBudgets        \* bounds: how many requests and queries a run has

VARIABLES
    catTime,
    catState,         \* publications, their routes, and tombstones
    catMutation,      \* what each replica is doing
    catSnaps,         \* retained snapshots
    catQuery,         \* the client: its query, or its position in the pages
    catCall,          \* the last invocation that was resolved
    catHeld,          \* who was last accepted for a registration, and for how long
    catPast,          \* generations whose holding ended
    catSends, catQueries   \* requests and queries that may still come

catVars == <<catTime, catState, catMutation, catSnaps, catQuery, catCall, catHeld, catPast,
             catSends, catQueries>>

CatIdle == [pc |-> "idle"]
NoCall == [route |-> NoRoute, holder |-> NoHolder]

CatMin(a, b) == IF a <= b THEN a ELSE b
Same(a, b) == a.reg = b.reg /\ a.gen = b.gen

CatInit ==
    /\ catTime = 0
    /\ catState = [pubs |-> {}, routes |-> {}, tombs |-> {}]
    /\ catMutation = [r \in CatReplica |-> CatIdle]
    /\ catSnaps = {}
    /\ catQuery = CatIdle
    /\ catCall = NoCall
    /\ catHeld = [g \in CatReg |-> NoHolder]
    /\ catPast = {}
    /\ \E b \in CatBudgets : catSends = b.sends /\ catQueries = b.queries

-----------------------------------------------------------------------------
publicationLiveAt(p, now) == now < p.lease

providerRouteFor(state, p) ==
    IF \E r \in state.routes : Same(r, p)
    THEN (CHOOSE r \in state.routes : Same(r, p)).route ELSE NoRoute

appendTombstone(state, p, until) ==
    [state EXCEPT !.tombs = @ \cup {[reg |-> p.reg, gen |-> p.gen, seq |-> p.seq,
                                     route |-> providerRouteFor(state, p), until |-> until]}]

\* The publication and the route bound to its generation.
dropPublication(state, p) ==
    [state EXCEPT !.pubs = @ \ {p}, !.routes = {r \in @ : ~Same(r, p)}]

pruneTombstones(state, now) == [state EXCEPT !.tombs = {t \in @ : now < t.until}]

\* A plausible mistake: an expired publication leaves without a tombstone.
pruneExpiredSilently(state, now) ==
    LET expired == {p \in state.pubs : ~publicationLiveAt(p, now)}
        Retire(p, st) == dropPublication(st, p)
    IN  FoldSet(Retire, state, expired)

pruneExpiredPublications(state, now) ==
    LET expired == {p \in state.pubs : ~publicationLiveAt(p, now)}
        Retire(p, st) == dropPublication(appendTombstone(st, p, now + CatRetention), p)
    IN  FoldSet(Retire, state, expired)

validateState(state) ==
    /\ \A p, q \in state.pubs : p.reg = q.reg => p = q
    /\ \A r \in state.routes : \E p \in state.pubs : Same(r, p)
    /\ \A r, s \in state.routes : Same(r, s) => r = s
    /\ \A t \in state.tombs :
          /\ \A p \in state.pubs : ~Same(t, p)
          /\ \A u \in state.tombs : Same(t, u) => t = u

\* The states a request leads to: none when it is refused.
Publish(state, q, lease, now) ==
    LET current == {p \in state.pubs : p.reg = q.reg}
        Retire(p, st) ==
            dropPublication(IF p.gen = q.gen THEN st
                            ELSE appendTombstone(st, p, now + CatRetention), p)
        rest == FoldSet(Retire, state, current)
        published ==
            [rest EXCEPT !.pubs = @ \cup {[reg |-> q.reg, gen |-> q.gen, seq |-> q.seq,
                                           lease |-> lease]},
                         !.routes = @ \cup (IF q.route = NoRoute THEN {}
                                            ELSE {[reg |-> q.reg, gen |-> q.gen,
                                                   route |-> q.route]})]
        Owned(p) == providerRouteFor(state, p) = q.route
        Continues(p) == p.gen = q.gen /\ publicationLiveAt(p, now) /\ p.seq < q.seq
        Replaces(p) == p.gen # q.gen /\ (q.replace \/ ~publicationLiveAt(p, now))
        Blocks(t) == t.reg = q.reg /\ (t.gen = q.gen \/ t.route \notin {NoRoute, q.route})
    IN  {s \in {published} : /\ \A p \in current : Owned(p) /\ (Continues(p) \/ Replaces(p))
                             /\ \A t \in rest.tombs : ~Blocks(t)}

Current(state, q) ==
    {p \in state.pubs : Same(p, q) /\ providerRouteFor(state, p) = q.route /\ p.seq < q.seq}

Renew(state, q, lease, now) ==
    {[state EXCEPT !.pubs = (@ \ {p}) \cup {[p EXCEPT !.seq = q.seq, !.lease = lease]}] :
        p \in {p \in Current(state, q) : publicationLiveAt(p, now)}}

Revoke(state, q, now) ==
    {[dropPublication(state, p) EXCEPT
        !.tombs = appendTombstone(state, [p EXCEPT !.seq = q.seq], now + CatRetention).tombs] :
        p \in Current(state, q)}

Changed(state, q, lease, now) ==
    CASE q.op = "publish" -> Publish(state, q, lease, now)
      [] q.op = "renew" -> Renew(state, q, lease, now)
      [] q.op = "revoke" -> Revoke(state, q, now)

-----------------------------------------------------------------------------
\* What the provider holds once the request of a replica is applied.
Ended(h, reg, now) ==
    [reg |-> reg, gen |-> h.gen, route |-> h.route, end |-> CatMin(h.lease, now)]

Granted(m) ==
    LET q == m.q
        h == catHeld[q.reg]
        goesOn == h # NoHolder /\ h.gen = q.gen /\ m.now < h.lease
        holder == [gen |-> q.gen, seq |-> q.seq, route |-> q.route, lease |-> m.lease,
                   since |-> IF goesOn THEN h.since ELSE catTime]
    IN  /\ catState' = m.next
        /\ catHeld' = [catHeld EXCEPT ![q.reg] = IF q.op = "revoke" THEN NoHolder ELSE holder]
        /\ catPast' = IF h = NoHolder \/ (goesOn /\ q.op # "revoke") THEN catPast
                      ELSE catPast \cup {Ended(h, q.reg, m.now)}

\* A lease that has run out is refused, a longer one than allowed is clamped.
admitLease(q, now) ==
    IF q.op # "revoke" /\ q.lease <= now THEN {} ELSE {CatMin(q.lease, now + CatMaxLease)}

\* A request arrives, for the first time or again; its lease is clamped.
CatDeliver(r, q) ==
    /\ catMutation[r] = CatIdle
    /\ catSends > 0
    /\ \E lease \in admitLease(q, catTime) :
          catMutation' = [catMutation EXCEPT ![r] =
              [pc |-> "load", q |-> q, now |-> catTime, tries |-> 1, lease |-> lease]]
    /\ catSends' = catSends - 1
    /\ UNCHANGED <<catTime, catState, catSnaps, catQuery, catCall, catHeld, catPast, catQueries>>

\* LoadState, the two prunings and the change; a refusal ends the mutation.
CatLoad(r) ==
    LET m == catMutation[r]
        pruned == pruneExpiredPublications(pruneTombstones(catState, m.now), m.now)
        changed == Changed(pruned, m.q, m.lease, m.now)
    IN  /\ m.pc = "load"
        /\ \/ /\ changed = {}
              /\ catMutation' = [catMutation EXCEPT ![r] = CatIdle]
           \/ \E next \in changed :
                catMutation' = [catMutation EXCEPT ![r] =
                    [pc |-> IF validateState(next) THEN "swap" ELSE "invalid", q |-> m.q,
                     now |-> m.now, lease |-> m.lease, tries |-> m.tries,
                     read |-> catState, next |-> next]]
        /\ UNCHANGED <<catTime, catState, catSnaps, catQuery, catCall, catHeld, catPast,
                       catSends, catQueries>>

\* The token of a stored state is its value.
CatSwap(r) ==
    LET m == catMutation[r]
        again == [pc |-> "load", q |-> m.q, now |-> m.now, lease |-> m.lease,
                  tries |-> m.tries + 1]
    IN  /\ m.pc = "swap"
        /\ \/ /\ m.read = catState
              /\ Granted(m)
              /\ catMutation' = [catMutation EXCEPT ![r] = CatIdle]
           \/ /\ m.read # catState
              /\ catMutation' = [catMutation EXCEPT ![r] =
                    IF m.tries < CatAttempts THEN again ELSE CatIdle]
              /\ UNCHANGED <<catState, catHeld, catPast>>
        /\ UNCHANGED <<catTime, catSnaps, catQuery, catCall, catSends, catQueries>>

\* A backend call fails or the replica stops; a swap may have been applied.
CatFault(r) ==
    LET m == catMutation[r] IN
    /\ m.pc \in {"load", "swap"}
    /\ catMutation' = [catMutation EXCEPT ![r] = CatIdle]
    /\ \/ UNCHANGED <<catState, catHeld, catPast>>
       \/ m.pc = "swap" /\ m.read = catState /\ Granted(m)
    /\ UNCHANGED <<catTime, catSnaps, catQuery, catCall, catSends, catQueries>>

-----------------------------------------------------------------------------
liveRecords(state, now) ==
    {[reg |-> p.reg, gen |-> p.gen, route |-> providerRouteFor(state, p)] :
        p \in {p \in state.pubs : publicationLiveAt(p, now)}}

ByReference(records) == SetToSortSeq(records, LAMBDA a, b : a.reg < b.reg)

\* The page at a position; with the last page the client is done.
PageAt(snapshot, from, got) ==
    LET all == snapshot.id.records
        end == CatMin(from + CatLimit, Len(all))
    IN  [pc |-> IF end < Len(all) THEN "paging" ELSE "done", snapshot |-> snapshot,
         at |-> end, got |-> got \o SubSeq(all, from + 1, end)]

\* The state and the clock are read; the authorizer is asked next.
CatQueryLoad ==
    /\ catQuery.pc \in {"idle", "done"}
    /\ catQueries > 0
    /\ catQueries' = catQueries - 1
    /\ catQuery' = [pc |-> "asked", state |-> catState, now |-> catTime]
    /\ UNCHANGED <<catTime, catState, catMutation, catSnaps, catCall, catHeld, catPast, catSends>>

\* The entries the authorizer leaves of the live ones.
authorizeCatalogEntries(entries, hidden) == {e \in entries : e.reg \notin hidden}

createQuerySnapshot(query, hidden) ==
    authorizeCatalogEntries(liveRecords(query.state, query.now), hidden)

\* A snapshot with the same content that is still stored is returned as it is.
CatQueryRetain(hidden) ==
    LET records == createQuerySnapshot(catQuery, hidden)
        id == [state |-> catQuery.state, records |-> ByReference(records)]
        stored == {s \in catSnaps : s.id = id}
        fresh == [id |-> id, expires |-> catQuery.now + CatSnapshotRetention,
                  kept |-> catTime + CatSnapshotRetention]
        snapshot == IF stored = {} THEN fresh ELSE CHOOSE s \in stored : TRUE
    IN  /\ catQuery.pc = "asked"
        /\ catSnaps' = catSnaps \cup {snapshot}
        /\ catQuery' = PageAt(snapshot, 0, <<>>)
        /\ UNCHANGED <<catTime, catState, catMutation, catCall, catHeld, catPast, catSends,
                       catQueries>>

\* A plausible mistake: a continuation pages through the current state.
CatNextPageOfNow ==
    LET s == catQuery.snapshot
        now == [s EXCEPT !.id.records = ByReference(liveRecords(catState, catTime))]
    IN  /\ catQuery.pc = "paging"
        /\ catQuery' = IF catTime < s.expires /\ s \in catSnaps
                       THEN [PageAt(now, CatMin(catQuery.at, Len(now.id.records)), catQuery.got)
                                EXCEPT !.snapshot = s]
                       ELSE CatIdle
        /\ UNCHANGED <<catTime, catState, catMutation, catSnaps, catCall, catHeld, catPast,
                       catSends, catQueries>>

\* The snapshot of a cursor has not expired and is still stored.
decodeCursor(s) == catTime < s.expires /\ s \in catSnaps

\* A continuation; a cursor whose snapshot has expired makes the client start again.
CatNextPage ==
    LET s == catQuery.snapshot IN
    /\ catQuery.pc = "paging"
    /\ catQuery' = IF decodeCursor(s) THEN PageAt(s, catQuery.at, catQuery.got) ELSE CatIdle
    /\ UNCHANGED <<catTime, catState, catMutation, catSnaps, catCall, catHeld, catPast,
                   catSends, catQueries>>

\* An entry the client has seen is invoked: only its exact generation will do.
CatInvoke(e) ==
    LET live == {l \in liveRecords(catState, catTime) : Same(l, e)} IN
    /\ catQuery.pc \in {"paging", "done"}
    /\ \E i \in DOMAIN catQuery.got : catQuery.got[i] = e
    /\ \E l \in live : catCall' = [route |-> l.route, gen |-> l.gen, at |-> catTime,
                                   holder |-> catHeld[l.reg]]
    /\ UNCHANGED <<catTime, catState, catMutation, catSnaps, catQuery, catHeld, catPast,
                   catSends, catQueries>>

\* Time passes; the store drops snapshots whose time to live is over.
CatTick ==
    /\ catTime < MaxCatTime
    /\ catTime' = catTime + 1
    /\ catSnaps' = {s \in catSnaps : catTime' < s.kept}
    /\ UNCHANGED <<catState, catMutation, catQuery, catCall, catHeld, catPast, catSends,
                   catQueries>>

CatNext ==
    \/ \E r \in CatReplica :
          \/ \E q \in CatRequest : CatDeliver(r, q)
          \/ CatLoad(r) \/ CatSwap(r) \/ CatFault(r)
    \/ CatQueryLoad \/ CatNextPage \/ CatTick
    \/ \E hidden \in CatHidden : CatQueryRetain(hidden)
    \/ \E p \in catState.pubs, route \in {q.route : q \in CatRequest} :
          CatInvoke([reg |-> p.reg, gen |-> p.gen, route |-> route])

-----------------------------------------------------------------------------
CatTypeOK ==
    /\ catTime \in 0..MaxCatTime
    /\ \A p \in catState.pubs : p.reg \in CatReg /\ p.lease \in 1..(MaxCatTime + CatMaxLease)
    /\ \A r \in CatReplica : catMutation[r].pc \in {"idle", "load", "swap", "invalid"}
    /\ catQuery.pc \in {"idle", "asked", "paging", "done"}
    /\ catSends \in Nat /\ catQueries \in Nat

\* What providers were promised and what the state says agree: exactly the
\* registrations whose accepted lease has not run out are live, with the
\* generation, the sequence and the route that were accepted last, whatever
\* replica pruned or overtook the mutation in between.
CatLeasesHonoured ==
    LET promised == {[reg |-> g, gen |-> catHeld[g].gen, seq |-> catHeld[g].seq,
                      route |-> catHeld[g].route, lease |-> catHeld[g].lease] :
                        g \in {g \in CatReg : catHeld[g] # NoHolder}}
        stored == {[reg |-> p.reg, gen |-> p.gen, seq |-> p.seq,
                    route |-> providerRouteFor(catState, p), lease |-> p.lease] :
                        p \in catState.pubs}
    IN  {p \in promised : catTime < p.lease} = {p \in stored : catTime < p.lease}

\* A generation that was revoked, was replaced or ran out is not accepted
\* again, and no other route takes its registration, before the retention
\* counted from its end is over: a delayed message changes nothing.
CatReplayRefused ==
    \A g \in CatReg : catHeld[g] # NoHolder =>
        \A p \in catPast :
            p.reg = g /\ (p.gen = catHeld[g].gen
                            \/ p.route \notin {NoRoute, catHeld[g].route})
              => p.end + CatRetention <= catHeld[g].since

\* Leases are kept, replays are refused, and no legal sequence of requests
\* leads to a state the service itself calls invalid, which would fail every
\* later request.
CatLeasesSound ==
    /\ CatLeasesHonoured
    /\ CatReplayRefused
    /\ \A r \in CatReplica : catMutation[r].pc # "invalid"

\* A client's pages are a gapless beginning of one snapshot, however the
\* catalog changed between them, and an invocation goes to the route that
\* held the very generation the client saw, while its lease ran.
CatAnswersSound ==
    /\ catQuery.pc \in {"paging", "done"} =>
          /\ catQuery.got = SubSeq(catQuery.snapshot.id.records, 1, catQuery.at)
          /\ catQuery.pc = "done" => catQuery.at = Len(catQuery.snapshot.id.records)
    /\ catCall # NoCall =>
          /\ catCall.holder # NoHolder
          /\ catCall.holder.route = catCall.route /\ catCall.holder.gen = catCall.gen
          /\ catCall.at < catCall.holder.lease

-----------------------------------------------------------------------------
(***************************************************************************)
(* How the host of a tool provider keeps its registration in the live      *)
(* catalog: RunLease publishes, renews and, at the end, revokes it, one    *)
(* request at a time, over messages that come late, again, out of order or *)
(* never; the catalog's endpoint checks the receipt of a request and       *)
(* answers.  A host is a process with a generation of its own; a later one *)
(* may replace it while it still runs.                                     *)
(*                                                                         *)
(* What a request does to the catalog is Publish, Renew and Revoke above,  *)
(* applied in one step: the replicas' compare-and-swap is checked there.   *)
(***************************************************************************)
CONSTANTS
    PlHost,            \* processes, numbered; one replaces those before it
    PlRoute,           \* the agent topic all of them have
    PlLease,           \* the lease a request asks for: tombstones are kept as long
    NoRequest,
    MaxPlTime, MaxPlRequests, PlFaults  \* bounds

VARIABLES
    plTime,
    plCatalog,         \* the catalog's publications, routes and tombstones
    plHost,            \* every host: what it does, its sequence, what it holds for true
    plWaiter,          \* the request whose reply channel is registered, per host
    plRequests,        \* requests under way
    plReplies,         \* replies under way
    plTaken,           \* the requests the catalog accepted
    plFaults

plVars == <<plTime, plCatalog, plHost, plWaiter, plRequests, plReplies, plTaken, plFaults>>

PlInit ==
    /\ plTime = 0
    /\ plCatalog = [pubs |-> {}, routes |-> {}, tombs |-> {}]
    /\ plHost = [h \in PlHost |-> [pc |-> "idle", seq |-> 0, published |-> FALSE, lease |-> 0]]
    /\ plWaiter = [h \in PlHost |-> NoRequest]
    /\ plRequests = {} /\ plReplies = {} /\ plTaken = {}
    /\ plFaults = PlFaults

-----------------------------------------------------------------------------
\* The host.  A request is identified by its method, generation and sequence.
Request(h, op) ==
    [op |-> op, reg |-> 1, gen |-> h, seq |-> plHost[h].seq + 1, lease |-> plTime + PlLease,
     route |-> PlRoute, replace |-> h > 1]

MayAsk == FoldFunction(+, 0, [h \in PlHost |-> plHost[h].seq]) < MaxPlRequests

\* The sequence moves on whether or not the request is sent.
callCatalog(h, op) ==
    LET q == Request(h, op) IN
    /\ MayAsk
    /\ plHost' = [plHost EXCEPT ![h].pc = op, ![h].seq = q.seq]
    /\ plWaiter' = [plWaiter EXCEPT ![h] = q]
    /\ plRequests' = plRequests \cup {q}
    /\ UNCHANGED <<plTime, plCatalog, plReplies, plTaken, plFaults>>

PlSendFails(h, op) ==
    /\ plFaults > 0 /\ plFaults' = plFaults - 1
    /\ MayAsk
    /\ plHost' = [plHost EXCEPT ![h].pc = "failed", ![h].seq = @ + 1]
    /\ UNCHANGED <<plTime, plCatalog, plWaiter, plRequests, plReplies, plTaken>>

\* RunLease starts, again after it failed unless the host is still published.
MayPublish(h) ==
    /\ plHost[h].pc \in {"idle", "failed", "ended"} /\ ~plHost[h].published
    /\ \A g \in PlHost : g < h => plHost[g].pc # "idle"
MayRenew(h) == plHost[h].pc = "serving"

\* RunLease revokes when it is stopped; after a failure its caller may.
MayRevoke(h) == plHost[h].pc \in {"serving", "failed"} /\ plHost[h].published

May(h, op) ==
    CASE op = "publish" -> MayPublish(h)
      [] op = "renew" -> MayRenew(h)
      [] op = "revoke" -> MayRevoke(h)

PlCall(h, op) == May(h, op) /\ (callCatalog(h, op) \/ PlSendFails(h, op))

\* What the reply to its request makes of a host.
Replied(host, reply) ==
    CASE ~reply.ok -> [host EXCEPT !.pc = "failed"]
      [] reply.ok /\ host.pc = "publish" ->
            [host EXCEPT !.pc = "serving", !.published = TRUE, !.lease = reply.lease]
      [] reply.ok /\ host.pc = "renew" -> [host EXCEPT !.pc = "serving", !.lease = reply.lease]
      [] reply.ok /\ host.pc = "revoke" -> [host EXCEPT !.pc = "ended", !.published = FALSE]

\* The timeout, or the end of the lease's context while a reply is awaited.
PlGiveUp(h) ==
    /\ plHost[h].pc \in {"publish", "renew", "revoke"}
    /\ plHost' = [plHost EXCEPT ![h].pc = "failed"]
    /\ plWaiter' = [plWaiter EXCEPT ![h] = NoRequest]
    /\ UNCHANGED <<plTime, plCatalog, plRequests, plReplies, plTaken, plFaults>>

PlStops(h) ==
    /\ plFaults > 0 /\ plFaults' = plFaults - 1
    /\ plHost[h].pc \notin {"idle", "stopped"}
    /\ plHost' = [plHost EXCEPT ![h].pc = "stopped"]
    /\ plWaiter' = [plWaiter EXCEPT ![h] = NoRequest]
    /\ UNCHANGED <<plTime, plCatalog, plRequests, plReplies, plTaken>>

SameRequest(a, b) == a.op = b.op /\ a.gen = b.gen /\ a.seq = b.seq

\* A plausible mistake: a reply answers whatever its generation waits for.
AnswersAny(reply, q) == reply.gen = q.gen

\* A reply belongs to the waiter of its request.
Answers(reply, q) == SameRequest(reply, q)

\* The waiter is forgotten as its reply is delivered; without one the reply is dropped.
deliverCatalogReply(reply, again) ==
    LET waiting == {h \in PlHost : plWaiter[h] # NoRequest /\ Answers(reply, plWaiter[h])} IN
    /\ plHost' = [h \in PlHost |-> IF h \in waiting THEN Replied(plHost[h], reply) ELSE plHost[h]]
    /\ plWaiter' = [h \in PlHost |-> IF h \in waiting THEN NoRequest ELSE plWaiter[h]]
    /\ plReplies' = IF again THEN plReplies ELSE plReplies \ {reply}
    /\ plFaults' = IF again THEN plFaults - 1 ELSE plFaults
    /\ UNCHANGED <<plTime, plCatalog, plRequests, plTaken>>

-----------------------------------------------------------------------------
\* The catalog's endpoint.

\* The allow receipt is for exactly this request, and has not expired.
validateDirectAgentMutationReceipt(allowed) == allowed

\* The outcomes of a request: the states it may lead to.
HandleJSON(q, allowed) ==
    LET pruned == pruneExpiredPublications(pruneTombstones(plCatalog, plTime), plTime)
    IN  IF ~validateDirectAgentMutationReceipt(allowed) THEN {}
        ELSE UNION {Changed(pruned, q, lease, plTime) : lease \in admitLease(q, plTime)}

\* A request arrives, for the first time or again.  The host drops a reply
\* that nobody waits for any more: it is not even sent here.
PlHandle(q, allowed, again) ==
    LET outcomes == HandleJSON(q, allowed)
        reply == [op |-> q.op, gen |-> q.gen, seq |-> q.seq, ok |-> outcomes # {},
                  lease |-> q.lease]
    IN  /\ IF outcomes = {} THEN UNCHANGED <<plCatalog, plTaken>>
           ELSE plCatalog' \in outcomes /\ plTaken' = plTaken \cup {q}
        /\ plReplies' = IF \E h \in PlHost : plWaiter[h] = q THEN plReplies \cup {reply}
                        ELSE plReplies
        /\ plRequests' = IF again THEN plRequests ELSE plRequests \ {q}
        /\ allowed \/ ~again
        /\ plFaults' = IF again \/ ~allowed THEN plFaults - 1 ELSE plFaults
        /\ UNCHANGED <<plTime, plHost, plWaiter>>

PlTick ==
    /\ plTime < MaxPlTime /\ plTime' = plTime + 1
    /\ UNCHANGED <<plCatalog, plHost, plWaiter, plRequests, plReplies, plTaken, plFaults>>

\* A message may be delivered again, and a receipt refused.
Allowed == IF plFaults > 0 THEN BOOLEAN ELSE {TRUE}
PlTrouble == IF plFaults > 0 THEN BOOLEAN ELSE {FALSE}

PlNext ==
    \/ \E h \in PlHost :
          \/ \E op \in {"publish", "renew", "revoke"} : PlCall(h, op)
          \/ PlGiveUp(h) \/ PlStops(h)
    \/ \E q \in plRequests, allowed \in Allowed, again \in PlTrouble : PlHandle(q, allowed, again)
    \/ \E r \in plReplies, again \in PlTrouble : deliverCatalogReply(r, again)
    \/ PlTick

-----------------------------------------------------------------------------
PlTypeOK ==
    /\ plTime \in 0..MaxPlTime /\ plFaults \in 0..PlFaults
    /\ \A h \in PlHost :
          /\ plHost[h].pc \in {"idle", "publish", "renew", "revoke", "serving", "failed", "ended",
                               "stopped"}
          /\ plHost[h].seq \in 0..MaxPlRequests /\ plHost[h].published \in BOOLEAN

LiveOf(h) == {p \in plCatalog.pubs : p.gen = h /\ publicationLiveAt(p, plTime)}

\* After a host has revoked its registration nothing under its generation is
\* live again, whatever requests of it are still delivered.
RevokedStaysGone == \A h \in PlHost : plHost[h].pc = "ended" => LiveOf(h) = {}

\* What a host was told stands: until its confirmed lease runs out its tools
\* are in the catalog, unless it asked for their end or was replaced.
ConfirmedLeaseStands ==
    \A h \in PlHost :
        plHost[h].published /\ plTime < plHost[h].lease /\ LiveOf(h) = {} =>
            \E q \in plTaken : q.gen > h \/ (q.gen = h /\ q.op = "revoke")

\* A host that stops without revoking is gone with its last lease.
AbandonedExpires ==
    \A h \in PlHost : \A p \in LiveOf(h) :
        \E q \in plTaken : q.gen = h /\ q.seq = p.seq /\ p.lease <= q.lease

\* A host believes to be published only after the catalog took its request.
PublishedWasTaken ==
    \A h \in PlHost : plHost[h].published => \E q \in plTaken : q.gen = h /\ q.op = "publish"

PlLeaseSound == RevokedStaysGone /\ ConfirmedLeaseStands /\ AbandonedExpires /\ PublishedWasTaken
=============================================================================
