------------------------ MODULE ExecutionLedgerProofs ------------------------
(***************************************************************************)
(* The execution ledger for any number of replicas, turns, entries and     *)
(* deliveries: what is stored is always a ledger that the next read        *)
(* accepts, and it holds what was acknowledged.                            *)
(*                                                                         *)
(* The argument: the swap succeeds only for a copy equal to the stored     *)
(* state, so what is true of the stored state (Sound) has to survive one   *)
(* prepareAppend.  That needs the new event's id to be one nobody used     *)
(* (IdsInv), and a head that is the id of the branch's last event          *)
(* (HeadsFollow).  A copy may be old: an answer taken from it is still     *)
(* right, because entries leave only at the old end (CopyInv).             *)
(***************************************************************************)
EXTENDS ExecutionLedger, FiniteSetTheorems, SequenceTheorems, WellFoundedInduction, TLAPS

EventType == {Started, Finished, Pinned, Called}
ModelOrNone == LedgerModel \cup {NoModel}
EventId == Nat \X Nat
Request == [type : EventType, branch : LedgerTurn, model : ModelOrNone,
            outcome : {"none", "succeeded", "failed"}]
Entry == [op : EventType \X LedgerTurn \X ModelOrNone, req : Request, id : EventId,
          seq : Nat, parent : EventId \cup {NoEvent}]
LedgerState == [next : Nat \ {0}, entries : Seq(Entry),
                heads : [LedgerTurn -> EventId \cup {NoEvent}],
                terminal : EventId \cup {NoEvent}, pinned : ModelOrNone]
Run == [turn : LedgerTurn \cup {NoEvent}, step : 0 .. 3, id : Nat, failed : BOOLEAN,
        copy : LedgerState, reading : BOOLEAN, tries : 0 .. LedgerRetries - 1]

\* Sequence numbers are contiguous and end below the next one.
Contiguous(s) ==
    /\ Len(s.entries) < s.next /\ Len(s.entries) <= MaxLedgerEvents
    /\ \A i \in 1 .. Len(s.entries) : s.entries[i].seq = s.next - 1 - Len(s.entries) + i

Distinct(s) ==
    \A i, j \in 1 .. Len(s.entries) :
        i # j => s.entries[i].op # s.entries[j].op /\ s.entries[i].id # s.entries[j].id

Named(s) == \A e \in LedgerRange(s.entries) : e.op = OperationOf(e.req)

\* The head of an open branch is the last event retained of it.
HeadsFollow(s) ==
    \A i \in 1 .. Len(s.entries) :
        LET e == s.entries[i]
        IN  (/\ e.req.type # Finished
             /\ \A k \in i + 1 .. Len(s.entries) : s.entries[k].req.branch # e.req.branch)
            => s.heads[e.req.branch] = e.id

Chained(s) ==
    \A i, j \in 1 .. Len(s.entries) :
        LET e == s.entries[i]
            d == s.entries[j]
        IN  (/\ j < i /\ e.req.type # Started /\ d.req.type # Finished
             /\ d.req.branch = e.req.branch
             /\ \A k \in j + 1 .. i - 1 : s.entries[k].req.branch # e.req.branch)
            => e.parent = d.id

PinKept(s) == \A e \in LedgerRange(s.entries) : e.req.type = Pinned => s.pinned # NoModel

Sound(s) ==
    /\ s \in LedgerState
    /\ Contiguous(s) /\ Distinct(s) /\ Named(s) /\ HeadsFollow(s) /\ Chained(s) /\ PinKept(s)
    /\ Cardinality(BranchesOf(s.heads)) <= MaxBranches

\* An id of a delivery that came, at a step that is over.
Spent(x) ==
    /\ x[1] <= deliveries
    /\ \A r \in LedgerReplica : (Running(r) /\ ledgerRun[r].id = x[1]) => x[2] < ledgerRun[r].step

RunInv ==
    /\ ledgerRun \in [LedgerReplica -> Run]
    /\ sticky \in [LedgerReplica -> ModelOrNone]
    /\ deliveries \in Nat /\ ledgerFaults \in Nat
    /\ \A r \in LedgerReplica : Running(r) => ledgerRun[r].step # 0 /\ ledgerRun[r].id <= deliveries
    /\ \A r, q \in LedgerReplica :
          Running(r) /\ Running(q) /\ r # q => ledgerRun[r].id # ledgerRun[q].id

IdsInv ==
    /\ \A e \in LedgerRange(ledger.entries) : Spent(e.id)
    /\ reader.anchor # NoEvent => Spent(reader.anchor)

\* What a read copy holds is still there if it is not too old.
CopyInv ==
    \A r \in LedgerReplica : ~ledgerRun[r].reading =>
        \A e \in LedgerRange(ledgerRun[r].copy.entries) :
            /\ e \in Entry /\ e.seq < ledger.next
            /\ e.seq + MaxLedgerEvents > ledger.next - 1 => e \in LedgerRange(ledger.entries)
            /\ e.req.type = Pinned => ledger.pinned # NoModel

AckInv ==
    \A a \in ledgerAcked :
        /\ a.seq \in Nat
        /\ a.seq + MaxLedgerEvents > ledger.next - 1 =>
              \E e \in LedgerRange(ledger.entries) : e.op = a.op /\ e.seq = a.seq

\* The pages read so far reach down to the anchor.
PageInv ==
    /\ reader \in [top : Nat, anchor : EventId \cup {NoEvent}, seen : SUBSET Nat, done : BOOLEAN]
    /\ reader.top < ledger.next /\ reader.seen \subseteq 1 .. reader.top
    /\ reader.anchor = NoEvent <=> reader.top = 0
    /\ \A e \in LedgerRange(ledger.entries) : e.id = reader.anchor => e.seq <= reader.top
    /\ \A e, d \in LedgerRange(ledger.entries) :
          (/\ d.req.type # Called /\ d.seq <= reader.top
           /\ reader.done \/ (e.id = reader.anchor /\ e.seq <= d.seq))
          => d.seq \in reader.seen

LedgerInv ==
    Sound(ledger) /\ RunInv /\ IdsInv /\ CopyInv /\ AckInv /\ LedgerPinDurable /\ PageInv
-----------------------------------------------------------------------------
(* One prepareAppend (executionledger/state.go). *)

EntryFor(s, req, id) ==
    [op |-> OperationOf(req), req |-> req, id |-> id, seq |-> s.next, parent |-> ParentOf(s, req)]

\* How many entries an append evicts.
Evicted(s) == IF Len(s.entries) = MaxLedgerEvents THEN 1 ELSE 0

\* An append drops one entry at the old end, or none.
LEMMA AppendShifts ==
  ASSUME NEW s, NEW x \in Entry, s \in LedgerState, Len(s.entries) <= MaxLedgerEvents
  PROVE  LET es == LastN(Append(s.entries, x), MaxLedgerEvents)
             n == Len(s.entries)
             off == IF n = MaxLedgerEvents THEN 1 ELSE 0
         IN  /\ es \in Seq(Entry) /\ Len(es) = n + 1 - off
             /\ \A i \in 1 .. Len(es) : es[i] = IF i + off = n + 1 THEN x ELSE s.entries[i + off]
<1> DEFINE n == Len(s.entries)
           a == Append(s.entries, x)
           es == LastN(a, MaxLedgerEvents)
           off == IF n = MaxLedgerEvents THEN 1 ELSE 0
<1>1. s.entries \in Seq(Entry) /\ n \in Nat /\ MaxLedgerEvents \in Nat \ {0}
  BY LedgerAssumption DEF LedgerState
<1>2. /\ a \in Seq(Entry) /\ Len(a) = n + 1
      /\ \A i \in 1 .. n + 1 : a[i] = IF i = n + 1 THEN x ELSE s.entries[i]
  BY <1>1
<1>3. \A i \in 1 .. n + 1 : a[i] \in Entry
  BY <1>2
<1>4. es = SubSeq(a, 1 + off, n + 1)
  <2>1. es = SubSeq(a, IF Len(a) > MaxLedgerEvents THEN Len(a) - MaxLedgerEvents + 1 ELSE 1, Len(a))
    BY DEF LastN
  <2>2. (IF Len(a) > MaxLedgerEvents THEN Len(a) - MaxLedgerEvents + 1 ELSE 1) = 1 + off
    BY <1>1, <1>2
  <2> QED BY <1>2, <2>1, <2>2
<1>5. off \in {0, 1} /\ (off = 1 => n # 0)
  BY <1>1
<1> HIDE DEF a, es, off, n
<1>6. /\ es \in Seq(Entry) /\ Len(es) = n + 1 - off
      /\ \A i \in 1 .. n + 1 - off : es[i] = a[i + off]
  <2>1. 1 + off \in Int /\ n + 1 \in Int /\ \A i \in (1 + off) .. (n + 1) : a[i] \in Entry
    BY <1>1, <1>3, <1>5
  <2>2. /\ es \in Seq(Entry)
        /\ Len(es) = IF (1 + off) <= (n + 1) THEN (n + 1) - (1 + off) + 1 ELSE 0
        /\ \A i \in 1 .. ((n + 1) - (1 + off) + 1) : es[i] = a[(1 + off) + i - 1]
    BY <1>4, <2>1, SubSeqProperties
  <2> QED BY <1>1, <1>5, <2>2
<1>7. \A i \in 1 .. Len(es) : es[i] = IF i + off = n + 1 THEN x ELSE s.entries[i + off]
  BY <1>1, <1>2, <1>5, <1>6
<1> QED BY <1>6, <1>7 DEF a, es, off, n

LEMMA EntryFields ==
  ASSUME NEW e \in Entry
  PROVE  /\ e.req \in Request /\ e.req.branch \in LedgerTurn /\ e.seq \in Nat
         /\ e.id \in EventId /\ e.id # NoEvent
<1>1. e.req \in Request /\ e.seq \in Nat /\ e.id \in EventId
  BY DEF Entry
<1>2. e.req.branch \in LedgerTurn
  BY <1>1 DEF Request
<1> QED BY <1>1, <1>2, LedgerAssumption DEF EventId

LEMMA EntryTyped ==
  ASSUME NEW s, s \in LedgerState, NEW req \in Request, NEW id \in EventId
  PROVE  EntryFor(s, req, id) \in Entry /\ ParentOf(s, req) \in EventId \cup {NoEvent}
<1>1. OperationOf(req) \in EventType \X LedgerTurn \X ModelOrNone
  BY DEF Request, OperationOf
<1>2. ParentOf(s, req) \in EventId \cup {NoEvent}
  BY DEF Request, LedgerState, ParentOf
<1>3. s.next \in Nat
  BY DEF LedgerState
<1> QED BY <1>1, <1>2, <1>3 DEF EntryFor, Entry

LEMMA AppendedFields ==
  ASSUME NEW s, s \in LedgerState, Len(s.entries) <= MaxLedgerEvents,
         NEW req \in Request, NEW id \in EventId
  PROVE  /\ Appended(s, req, id) \in LedgerState
         /\ Appended(s, req, id).next = s.next + 1
         /\ Appended(s, req, id).heads =
              [s.heads EXCEPT ![req.branch] = IF req.type = Finished THEN NoEvent ELSE id]
         /\ Appended(s, req, id).pinned = IF req.type = Pinned THEN req.model ELSE s.pinned
         /\ Appended(s, req, id).entries \in Seq(Entry)
         /\ Len(Appended(s, req, id).entries) = Len(s.entries) + 1 - Evicted(s)
         /\ \A i \in 1 .. Len(Appended(s, req, id).entries) :
               Appended(s, req, id).entries[i] =
                  IF i + Evicted(s) = Len(s.entries) + 1 THEN EntryFor(s, req, id)
                  ELSE s.entries[i + Evicted(s)]
<1> DEFINE x == EntryFor(s, req, id)
           es == LastN(Append(s.entries, x), MaxLedgerEvents)
           hs == [s.heads EXCEPT ![req.branch] = IF req.type = Finished THEN NoEvent ELSE id]
           tm == IF req.type = Finished THEN id ELSE s.terminal
           pn == IF req.type = Pinned THEN req.model ELSE s.pinned
<1>1. Appended(s, req, id) =
        [next |-> s.next + 1, entries |-> es, heads |-> hs, terminal |-> tm, pinned |-> pn]
  BY DEF Appended, EntryFor
<1>2. x \in Entry
  BY EntryTyped
<1>3. es \in Seq(Entry)
  BY <1>2, AppendShifts
<1>4. s.next + 1 \in Nat \ {0}
  BY DEF LedgerState
<1>5. hs \in [LedgerTurn -> EventId \cup {NoEvent}]
  BY DEF LedgerState
<1>6. tm \in EventId \cup {NoEvent} /\ pn \in ModelOrNone
  BY DEF LedgerState, Request
<1>7. /\ Len(es) = Len(s.entries) + 1 - Evicted(s)
      /\ \A i \in 1 .. Len(es) :
            es[i] = IF i + Evicted(s) = Len(s.entries) + 1 THEN x ELSE s.entries[i + Evicted(s)]
  BY <1>2, AppendShifts DEF Evicted
<1> HIDE DEF x, es, hs, tm, pn
<1>8. Appended(s, req, id) \in LedgerState
  BY <1>1, <1>3, <1>4, <1>5, <1>6 DEF LedgerState
<1>9. /\ Appended(s, req, id).next = s.next + 1 /\ Appended(s, req, id).heads = hs
      /\ Appended(s, req, id).pinned = pn /\ Appended(s, req, id).entries = es
  BY <1>1
<1> QED BY <1>3, <1>7, <1>8, <1>9 DEF x, hs, pn

\* The entries after an append are the recent ones of those before and the new one.
LEMMA AppendedRange ==
  ASSUME NEW s, s \in LedgerState, Contiguous(s), NEW req \in Request, NEW id \in EventId
  PROVE  LedgerRange(Appended(s, req, id).entries) =
           {e \in LedgerRange(s.entries) \cup {EntryFor(s, req, id)} :
               e.seq + MaxLedgerEvents > s.next}
<1> DEFINE t == Appended(s, req, id)
           x == EntryFor(s, req, id)
           n == Len(s.entries)
           off == Evicted(s)
<1>1. /\ n \in Nat /\ n <= MaxLedgerEvents /\ n < s.next /\ s.next \in Nat
      /\ MaxLedgerEvents \in Nat \ {0} /\ x.seq = s.next
  BY LedgerAssumption DEF LedgerState, Contiguous, EntryFor
<1>2. /\ Len(t.entries) = n + 1 - off
      /\ \A i \in 1 .. Len(t.entries) :
            t.entries[i] = IF i + off = n + 1 THEN x ELSE s.entries[i + off]
  BY AppendedFields, ZenonT(40) DEF Contiguous
<1>3. \A i \in 1 .. n : s.entries[i].seq = s.next - 1 - n + i
  BY DEF Contiguous
<1>4. off \in {0, 1} /\ (off = 1 <=> n = MaxLedgerEvents)
  BY DEF Evicted
<1> HIDE DEF t, x, n, off
<1>5. ASSUME NEW i \in 1 .. Len(t.entries)
      PROVE  /\ t.entries[i] \in LedgerRange(s.entries) \cup {x}
             /\ t.entries[i].seq + MaxLedgerEvents > s.next
  <2>1. CASE i + off = n + 1
    BY <1>1, <1>2, <2>1
  <2>2. CASE i + off # n + 1
    <3>1. i + off \in 1 .. n /\ t.entries[i] = s.entries[i + off]
      BY <1>1, <1>2, <1>4, <2>2
    <3>2. t.entries[i].seq = s.next - 1 - n + (i + off)
      BY <1>3, <3>1
    <3>3. t.entries[i].seq + MaxLedgerEvents > s.next
      BY <1>1, <1>4, <3>1, <3>2
    <3>4. t.entries[i] \in LedgerRange(s.entries)
      BY <3>1 DEF LedgerRange, n
    <3> QED BY <3>3, <3>4
  <2> QED BY <2>1, <2>2
<1>6. ASSUME NEW e \in LedgerRange(s.entries) \cup {x}, e.seq + MaxLedgerEvents > s.next
      PROVE  e \in LedgerRange(t.entries)
  <2>1. CASE e = x
    <3>1. n + 1 - off \in 1 .. Len(t.entries) /\ t.entries[n + 1 - off] = x
      BY <1>1, <1>2, <1>4
    <3> QED BY <2>1, <3>1 DEF LedgerRange
  <2>2. CASE e # x
    <3>1. PICK j \in 1 .. n : e = s.entries[j]
      BY <2>2, <1>6 DEF LedgerRange, n
    <3>2. s.next - 1 - n + j + MaxLedgerEvents > s.next
      BY <1>3, <1>6, <3>1
    <3>3. j - off \in 1 .. Len(t.entries) /\ t.entries[j - off] = e
      BY <1>1, <1>2, <1>4, <3>1, <3>2
    <3> QED BY <3>3 DEF LedgerRange
  <2> QED BY <2>1, <2>2
<1>7. LedgerRange(t.entries) = {e \in LedgerRange(s.entries) \cup {x} : e.seq + MaxLedgerEvents > s.next}
  <2>1. \A e \in LedgerRange(t.entries) :
          e \in LedgerRange(s.entries) \cup {x} /\ e.seq + MaxLedgerEvents > s.next
    BY <1>5 DEF LedgerRange
  <2> QED BY <1>6, <2>1
<1> QED BY <1>7 DEF t, x

\* A request the stored state neither has nor refuses, under a new id.
Admissible(s, req, id) ==
    /\ Sound(s) /\ req \in Request /\ id \in EventId
    /\ req.type = Pinned => req.model # NoModel
    /\ \A e \in LedgerRange(s.entries) : e.id # id
    /\ Retained(s, OperationOf(req)) = {} /\ ~Conflicts(s, req)

\* Where the entries of the appended state come from.
LEMMA EntryOrigins ==
  ASSUME NEW s, NEW req, NEW id, Admissible(s, req, id)
  PROVE  /\ Len(Appended(s, req, id).entries) = Len(s.entries) + 1 - Evicted(s)
         /\ Evicted(s) \in {0, 1} /\ (Evicted(s) = 1 <=> Len(s.entries) = MaxLedgerEvents)
         /\ Len(s.entries) \in Nat /\ Len(s.entries) <= MaxLedgerEvents /\ MaxLedgerEvents \in Nat \ {0}
         /\ Len(s.entries) < s.next /\ s.next \in Nat
         /\ Appended(s, req, id).next = s.next + 1
         /\ \A i \in 1 .. Len(Appended(s, req, id).entries) :
               \/ /\ i + Evicted(s) = Len(s.entries) + 1
                  /\ Appended(s, req, id).entries[i] = EntryFor(s, req, id)
               \/ /\ i + Evicted(s) \in 1 .. Len(s.entries)
                  /\ Appended(s, req, id).entries[i] = s.entries[i + Evicted(s)]
<1>1. s \in LedgerState /\ Contiguous(s) /\ req \in Request /\ id \in EventId
  BY DEF Admissible, Sound
<1>2. /\ Len(s.entries) \in Nat /\ Len(s.entries) <= MaxLedgerEvents /\ Len(s.entries) < s.next
      /\ s.next \in Nat /\ MaxLedgerEvents \in Nat \ {0}
  BY <1>1, LedgerAssumption DEF Contiguous, LedgerState
<1>3. Evicted(s) \in {0, 1} /\ (Evicted(s) = 1 <=> Len(s.entries) = MaxLedgerEvents)
  BY DEF Evicted
<1>4. /\ Appended(s, req, id).next = s.next + 1
      /\ Len(Appended(s, req, id).entries) = Len(s.entries) + 1 - Evicted(s)
      /\ \A i \in 1 .. Len(Appended(s, req, id).entries) :
               Appended(s, req, id).entries[i] =
                  IF i + Evicted(s) = Len(s.entries) + 1 THEN EntryFor(s, req, id)
                  ELSE s.entries[i + Evicted(s)]
  BY <1>1, <1>2, AppendedFields, ZenonT(40)
<1> QED BY <1>2, <1>3, <1>4

LEMMA AppendedContiguous ==
  ASSUME NEW s, NEW req, NEW id, Admissible(s, req, id)
  PROVE  Contiguous(Appended(s, req, id))
<1> DEFINE t == Appended(s, req, id)
           x == EntryFor(s, req, id)
           n == Len(s.entries)
           off == Evicted(s)
<1>0. /\ Len(t.entries) = n + 1 - off /\ off \in {0, 1} /\ n \in Nat /\ s.next \in Nat
      /\ t.next = s.next + 1
      /\ \A i \in 1 .. Len(t.entries) :
            \/ i + off = n + 1 /\ t.entries[i] = x
            \/ i + off \in 1 .. n /\ t.entries[i] = s.entries[i + off]
  BY EntryOrigins
<1>1. \A i \in 1 .. Len(s.entries) : s.entries[i].seq = s.next - 1 - Len(s.entries) + i
  BY DEF Admissible, Sound, Contiguous
<1>2. EntryFor(s, req, id).seq = s.next
  BY DEF EntryFor
<1>3. Len(t.entries) < t.next /\ Len(t.entries) <= MaxLedgerEvents
  BY EntryOrigins
<1>4. ASSUME NEW i \in 1 .. Len(t.entries)
      PROVE  t.entries[i].seq = t.next - 1 - Len(t.entries) + i
  <2> HIDE DEF t, x, n, off
  <2>1. CASE i + off = n + 1 /\ t.entries[i] = x
    BY <1>0, <1>2, <2>1 DEF x
  <2>2. CASE i + off \in 1 .. n /\ t.entries[i] = s.entries[i + off]
    <3>1. s.entries[i + off].seq = s.next - 1 - n + (i + off)
      BY <1>1, <2>2 DEF n
    <3> QED BY <1>0, <2>2, <3>1
  <2> QED BY <1>0, <2>1, <2>2
<1> QED BY <1>3, <1>4 DEF Contiguous

LEMMA AppendedDistinct ==
  ASSUME NEW s, NEW req, NEW id, Admissible(s, req, id)
  PROVE  Distinct(Appended(s, req, id)) /\ Named(Appended(s, req, id))
<1> DEFINE t == Appended(s, req, id)
           x == EntryFor(s, req, id)
           n == Len(s.entries)
           off == Evicted(s)
<1>0. /\ Len(t.entries) = n + 1 - off /\ off \in {0, 1} /\ n \in Nat /\ s.next \in Nat
      /\ t.next = s.next + 1
      /\ \A i \in 1 .. Len(t.entries) :
            \/ i + off = n + 1 /\ t.entries[i] = x
            \/ i + off \in 1 .. n /\ t.entries[i] = s.entries[i + off]
  BY EntryOrigins
<1>1. \A j \in 1 .. Len(s.entries) : s.entries[j].op # x.op /\ s.entries[j].id # x.id
  BY DEF Admissible, Retained, EntryFor, LedgerRange
<1>2. \A j \in 1 .. Len(s.entries) : s.entries[j].op = OperationOf(s.entries[j].req)
  BY DEF Admissible, Sound, Named, LedgerRange
<1>3. x.op = OperationOf(x.req)
  BY DEF EntryFor
<1>4. Distinct(s)
  BY DEF Admissible, Sound
<1> HIDE DEF t, x, n, off
<1>5. ASSUME NEW i \in 1 .. Len(t.entries), NEW j \in 1 .. Len(t.entries), i # j
      PROVE  t.entries[i].op # t.entries[j].op /\ t.entries[i].id # t.entries[j].id
  <2>1. CASE i + off = n + 1
    <3>1. t.entries[i] = x /\ j + off \in 1 .. n /\ t.entries[j] = s.entries[j + off]
      BY <1>0, <1>5, <2>1
    <3> QED BY <1>1, <3>1 DEF n
  <2>2. CASE j + off = n + 1
    <3>1. t.entries[j] = x /\ i + off \in 1 .. n /\ t.entries[i] = s.entries[i + off]
      BY <1>0, <1>5, <2>2
    <3> QED BY <1>1, <3>1 DEF n
  <2>3. CASE i + off # n + 1 /\ j + off # n + 1
    <3>1. /\ i + off \in 1 .. n /\ j + off \in 1 .. n /\ i + off # j + off
          /\ t.entries[i] = s.entries[i + off] /\ t.entries[j] = s.entries[j + off]
      BY <1>0, <1>5, <2>3
    <3> QED BY <1>4, <3>1 DEF Distinct, n
  <2> QED BY <2>1, <2>2, <2>3
<1>6. ASSUME NEW i \in 1 .. Len(t.entries)
      PROVE  t.entries[i].op = OperationOf(t.entries[i].req)
  <2>1. CASE i + off = n + 1 /\ t.entries[i] = x
    BY <1>3, <2>1
  <2>2. CASE i + off \in 1 .. n /\ t.entries[i] = s.entries[i + off]
    BY <1>2, <2>2 DEF n
  <2> QED BY <1>0, <2>1, <2>2
<1>7. Distinct(t)
  BY <1>5 DEF Distinct
<1>8. Named(t)
  BY <1>6 DEF Named, LedgerRange
<1> QED BY <1>7, <1>8 DEF t


LEMMA AppendedHead ==
  ASSUME NEW s, NEW req, NEW id, Admissible(s, req, id)
  PROVE  /\ Appended(s, req, id).heads \in [LedgerTurn -> EventId \cup {NoEvent}]
         /\ Appended(s, req, id).heads[req.branch] = IF req.type = Finished THEN NoEvent ELSE id
         /\ \A b \in LedgerTurn \ {req.branch} : Appended(s, req, id).heads[b] = s.heads[b]
<1>1. s \in LedgerState /\ Len(s.entries) <= MaxLedgerEvents /\ req \in Request /\ id \in EventId
  BY DEF Admissible, Sound, Contiguous
<1>2. Appended(s, req, id).heads =
              [s.heads EXCEPT ![req.branch] = IF req.type = Finished THEN NoEvent ELSE id]
  BY <1>1, AppendedFields
<1> QED BY <1>1, <1>2 DEF LedgerState, Request

LEMMA AppendedHeadsFollow ==
  ASSUME NEW s, NEW req, NEW id, Admissible(s, req, id)
  PROVE  HeadsFollow(Appended(s, req, id))
<1> DEFINE t == Appended(s, req, id)
           x == EntryFor(s, req, id)
           n == Len(s.entries)
           off == Evicted(s)
<1>0. /\ Len(t.entries) = n + 1 - off /\ off \in {0, 1} /\ n \in Nat /\ s.next \in Nat
      /\ t.next = s.next + 1
      /\ \A i \in 1 .. Len(t.entries) :
            \/ i + off = n + 1 /\ t.entries[i] = x
            \/ i + off \in 1 .. n /\ t.entries[i] = s.entries[i + off]
  BY EntryOrigins
<1> SUFFICES ASSUME NEW i \in 1 .. Len(t.entries), t.entries[i].req.type # Finished,
                    \A k \in i + 1 .. Len(t.entries) :
                       t.entries[k].req.branch # t.entries[i].req.branch
             PROVE  t.heads[t.entries[i].req.branch] = t.entries[i].id
  BY DEF HeadsFollow
<1>1. x.req = req /\ x.id = id /\ req \in Request
  BY DEF EntryFor, Admissible
<1>2. s.entries \in Seq(Entry) /\ HeadsFollow(s)
  BY DEF Admissible, Sound, LedgerState
<1> HIDE DEF t, x, n, off
<1>3. CASE i + off = n + 1 /\ t.entries[i] = x
  BY <1>1, <1>3, AppendedHead DEF t
<1>4. CASE i + off \in 1 .. n /\ t.entries[i] = s.entries[i + off]
  <2>1. PICK j \in 1 .. n : j = i + off
    BY <1>4
  <2>2. s.entries[j].req.branch \in LedgerTurn
    <3>1. s.entries[j] \in Entry
      BY <1>2, <2>1 DEF n
    <3> QED BY <3>1, EntryFields
  <2>3. Len(t.entries) \in i + 1 .. Len(t.entries) /\ Len(t.entries) + off = n + 1
    BY <1>0, <1>4
  <2>4. t.entries[Len(t.entries)] = x
    BY <1>0, <2>3
  <2>5. s.entries[j].req.branch # req.branch
    BY <1>1, <1>4, <2>1, <2>3, <2>4
  <2>6. \A k \in j + 1 .. n : s.entries[k].req.branch # s.entries[j].req.branch
    <3> TAKE k \in j + 1 .. n
    <3>1. k - off \in i + 1 .. Len(t.entries) /\ k - off + off = k /\ k # n + 1
      BY <1>0, <2>1
    <3>2. t.entries[k - off] = s.entries[k]
      BY <1>0, <3>1
    <3> QED BY <1>4, <2>1, <3>1, <3>2
  <2>7. s.heads[s.entries[j].req.branch] = s.entries[j].id
    BY <1>2, <1>4, <2>1, <2>6 DEF HeadsFollow, n
  <2> QED BY <1>4, <2>1, <2>2, <2>5, <2>7, AppendedHead DEF t
<1> QED BY <1>0, <1>3, <1>4

LEMMA AppendedChained ==
  ASSUME NEW s, NEW req, NEW id, Admissible(s, req, id)
  PROVE  Chained(Appended(s, req, id))
<1> DEFINE t == Appended(s, req, id)
           x == EntryFor(s, req, id)
           n == Len(s.entries)
           off == Evicted(s)
<1>0. /\ Len(t.entries) = n + 1 - off /\ off \in {0, 1} /\ n \in Nat
      /\ \A i \in 1 .. Len(t.entries) :
            \/ i + off = n + 1 /\ t.entries[i] = x
            \/ i + off \in 1 .. n /\ t.entries[i] = s.entries[i + off]
  BY EntryOrigins
<1>1. x.req = req /\ x.parent = ParentOf(s, req) /\ req \in Request
  BY DEF EntryFor, Admissible
<1>2. s.entries \in Seq(Entry) /\ HeadsFollow(s) /\ Chained(s)
  BY DEF Admissible, Sound, LedgerState
<1> HIDE DEF t, x, n, off
<1> SUFFICES ASSUME NEW i \in 1 .. Len(t.entries), NEW j \in 1 .. Len(t.entries), j < i,
                    t.entries[i].req.type # Started, t.entries[j].req.type # Finished,
                    t.entries[j].req.branch = t.entries[i].req.branch,
                    \A k \in j + 1 .. i - 1 :
                       t.entries[k].req.branch # t.entries[i].req.branch
             PROVE  t.entries[i].parent = t.entries[j].id
  BY DEF Chained, t
<1>3. j + off \in 1 .. n /\ t.entries[j] = s.entries[j + off]
  BY <1>0
<1>4. PICK d \in 1 .. n : d = j + off
  BY <1>3
<1>5. CASE i + off = n + 1 /\ t.entries[i] = x
  <2>1. \A k \in d + 1 .. n : s.entries[k].req.branch # s.entries[d].req.branch
    <3> TAKE k \in d + 1 .. n
    <3>1. /\ k - off \in j + 1 .. i - 1 /\ k - off \in 1 .. Len(t.entries)
          /\ k - off + off = k /\ k # n + 1
      BY <1>0, <1>4, <1>5
    <3>2. t.entries[k - off] = s.entries[k]
      BY <1>0, <3>1
    <3> QED BY <1>3, <1>4, <3>1, <3>2
  <2>2. s.heads[s.entries[d].req.branch] = s.entries[d].id
    BY <1>2, <1>3, <1>4, <2>1 DEF HeadsFollow, n
  <2>3. s.entries[d].id # NoEvent
    <3>1. s.entries[d] \in Entry
      BY <1>2, <1>4 DEF n
    <3> QED BY <3>1, EntryFields
  <2>4. s.entries[d].req.branch = req.branch /\ req.type # Started
    BY <1>1, <1>3, <1>4, <1>5
  <2> QED BY <1>1, <1>3, <1>4, <1>5, <2>2, <2>3, <2>4 DEF ParentOf
<1>6. CASE i + off \in 1 .. n /\ t.entries[i] = s.entries[i + off]
  <2>1. PICK e \in 1 .. n : e = i + off
    BY <1>6
  <2>2. \A k \in d + 1 .. e - 1 : s.entries[k].req.branch # s.entries[e].req.branch
    <3> TAKE k \in d + 1 .. e - 1
    <3>1. /\ k - off \in j + 1 .. i - 1 /\ k - off \in 1 .. Len(t.entries)
          /\ k - off + off = k /\ k # n + 1
      BY <1>0, <1>4, <2>1
    <3>2. t.entries[k - off] = s.entries[k]
      BY <1>0, <3>1
    <3> QED BY <1>6, <2>1, <3>1, <3>2
  <2>3. d < e
    BY <1>0, <1>4, <2>1
  <2> QED BY <1>2, <1>3, <1>4, <1>6, <2>1, <2>2, <2>3 DEF Chained, n
<1> QED BY <1>0, <1>5, <1>6

LEMMA AppendedPinKept ==
  ASSUME NEW s, NEW req, NEW id, Admissible(s, req, id)
  PROVE  /\ PinKept(Appended(s, req, id))
         /\ s.pinned # NoModel \/ req.type = Pinned => Appended(s, req, id).pinned # NoModel
<1>1. /\ s \in LedgerState /\ Contiguous(s) /\ req \in Request /\ id \in EventId /\ PinKept(s)
      /\ req.type = Pinned => req.model # NoModel
  BY DEF Admissible, Sound
<1>2. Appended(s, req, id).pinned = IF req.type = Pinned THEN req.model ELSE s.pinned
  BY <1>1, AppendedFields, ZenonT(40) DEF Contiguous
<1>3. \A e \in LedgerRange(Appended(s, req, id).entries) :
        e \in LedgerRange(s.entries) \/ e.req = req
  BY <1>1, AppendedRange DEF EntryFor
<1> QED BY <1>1, <1>2, <1>3 DEF PinKept

LEMMA AppendedBranches ==
  ASSUME NEW s, NEW req, NEW id, Admissible(s, req, id)
  PROVE  Cardinality(BranchesOf(Appended(s, req, id).heads)) <= MaxBranches
<1> DEFINE hs == Appended(s, req, id).heads
           b == req.branch
<1>1. /\ b \in LedgerTurn /\ id # NoEvent /\ s.heads \in [LedgerTurn -> EventId \cup {NoEvent}]
      /\ Cardinality(BranchesOf(s.heads)) <= MaxBranches /\ ~Conflicts(s, req)
      /\ Retained(s, OperationOf(req)) = {}
  BY LedgerAssumption DEF Admissible, Sound, Request, LedgerState, EventId
<1>2. hs[b] = IF req.type = Finished THEN NoEvent ELSE id
  BY AppendedHead
<1>3. \A c \in LedgerTurn \ {b} : hs[c] = s.heads[c]
  BY AppendedHead
<1> HIDE DEF hs
<1>4. BranchesOf(s.heads) \subseteq LedgerTurn /\ IsFiniteSet(LedgerTurn)
  BY LedgerAssumption DEF BranchesOf
<1>5. IsFiniteSet(BranchesOf(s.heads)) /\ MaxBranches \in Nat
  BY <1>4, FS_Subset, LedgerAssumption
<1>6. CASE req.type = Finished
  <2>1. BranchesOf(hs) \subseteq BranchesOf(s.heads)
    BY <1>2, <1>3, <1>6 DEF BranchesOf
  <2>2. Cardinality(BranchesOf(hs)) <= Cardinality(BranchesOf(s.heads))
        /\ Cardinality(BranchesOf(hs)) \in Nat /\ Cardinality(BranchesOf(s.heads)) \in Nat
    BY <1>5, <2>1, FS_Subset, FS_CardinalityType
  <2> QED BY <1>1, <1>5, <2>2 DEF hs
<1>7. CASE req.type # Finished
  <2>1. BranchesOf(hs) = BranchesOf(s.heads) \cup {b}
    BY <1>1, <1>2, <1>3, <1>7 DEF BranchesOf
  <2>2. ~(Cardinality(BranchesOf(s.heads) \cup {b}) > MaxBranches)
    BY <1>1, <1>7 DEF Conflicts
  <2>3. Cardinality(BranchesOf(s.heads) \cup {b}) \in Nat
    BY <1>5, FS_AddElement, FS_CardinalityType
  <2> QED BY <1>5, <2>1, <2>2, <2>3 DEF hs
<1> QED BY <1>6, <1>7

LEMMA AppendKeepsSound ==
  ASSUME NEW s, NEW req, NEW id, Admissible(s, req, id)
  PROVE  Sound(Appended(s, req, id))
<1>1. Appended(s, req, id) \in LedgerState
  BY AppendedFields DEF Admissible, Sound, Contiguous
<1> QED BY <1>1, AppendedContiguous, AppendedDistinct, AppendedHeadsFollow, AppendedChained,
           AppendedPinKept, AppendedBranches DEF Sound

-----------------------------------------------------------------------------
(* The replicas. *)

EventIdOf(r) == <<ledgerRun[r].id, ledgerRun[r].step>>

LEMMA CurrentRequestTyped ==
  ASSUME RunInv, NEW r \in LedgerReplica, Running(r)
  PROVE  /\ CurrentRequest(r) \in Request /\ EventIdOf(r) \in EventId
         /\ CurrentRequest(r).type = Pinned => CurrentRequest(r).model \in LedgerModel
<1> DEFINE run == ledgerRun[r]
<1>1. /\ run \in Run /\ run.turn \in LedgerTurn /\ run.step \in 1 .. 3 /\ run.id \in Nat
      /\ run.failed \in BOOLEAN
  BY DEF RunInv, Run, Running
<1>2. /\ LedgerPins[run.turn] \in ModelOrNone
      /\ LedgerPins[run.turn] # NoModel => LedgerPins[run.turn] \in LedgerModel
  BY <1>1, LedgerAssumption DEF ModelOrNone
<1> HIDE DEF run
<1> DEFINE type == LedgerSteps(run.turn)[run.step]
           out == IF type = Finished THEN (IF run.failed THEN "failed" ELSE "succeeded") ELSE "none"
<1>3. type \in EventType /\ (type = Pinned => LedgerPins[run.turn] # NoModel)
  <2>1. run.step = 1 \/ run.step = 2 \/ run.step = 3
    BY <1>1
  <2> QED BY <2>1 DEF LedgerSteps, EventType, Started, Finished, Pinned, Called
<1>4. out \in {"none", "succeeded", "failed"}
  OBVIOUS
<1>5. CurrentRequest(r) =
        [type |-> type, branch |-> run.turn, model |-> LedgerPins[run.turn], outcome |-> out]
  BY DEF CurrentRequest, LedgerRequest, run
<1> HIDE DEF type, out
<1> QED BY <1>1, <1>2, <1>3, <1>4, <1>5 DEF Request, EventId, EventIdOf, run

LEMMA NewSound == Sound(NewLedger) /\ NewLedger \in LedgerState /\ IdleRun \in Run
<1>1. NewLedger \in LedgerState
  BY DEF NewLedger, LedgerState, ModelOrNone
<1>2. Len(NewLedger.entries) = 0 /\ NewLedger.next = 1
  BY DEF NewLedger
<1>3. BranchesOf(NewLedger.heads) = {}
  BY DEF NewLedger, BranchesOf
<1>4. LedgerRange(NewLedger.entries) = {}
  BY <1>2 DEF LedgerRange
<1>5. Sound(NewLedger)
  BY <1>1, <1>2, <1>3, <1>4, FS_EmptySet, LedgerAssumption
     DEF Sound, Contiguous, Distinct, Named, HeadsFollow, Chained, PinKept
<1>6. IdleRun \in Run
  BY <1>1, LedgerAssumption DEF IdleRun, Run
<1> QED BY <1>1, <1>5, <1>6

\* What a replica's run may become, a new delivery apart.
Advances(r) ==
    \/ ledgerRun'[r].turn = NoEvent
    \/ /\ ledgerRun'[r].turn = ledgerRun[r].turn /\ ledgerRun'[r].id = ledgerRun[r].id
       /\ ledgerRun'[r].step >= ledgerRun[r].step

LEMMA RunsAdvance ==
  ASSUME RunInv, deliveries' = deliveries, ledgerFaults' \in Nat,
         ledgerRun' \in [LedgerReplica -> Run], sticky' \in [LedgerReplica -> ModelOrNone],
         \A r \in LedgerReplica : Advances(r)
  PROVE  RunInv' /\ \A x \in EventId : Spent(x) => Spent(x)'
<1>1. \A r \in LedgerReplica : ledgerRun[r].step \in 0 .. 3 /\ ledgerRun'[r].step \in 0 .. 3
  BY DEF RunInv, Run
<1>2. RunInv'
  BY <1>1 DEF RunInv, Running, Advances
<1>3. ASSUME NEW x \in EventId, Spent(x)
      PROVE  Spent(x)'
  <2>1. x[1] \in Nat /\ x[2] \in Nat
    BY DEF EventId
  <2> QED BY <1>1, <1>3, <2>1 DEF Spent, Running, Advances
<1> QED BY <1>2, <1>3

\* An append moves the run of its replica on, or ends it.
LEMMA AfterAppendMoves ==
  ASSUME RunInv, NEW r \in LedgerReplica, Running(r), NEW ok \in BOOLEAN, AfterAppend(r, ok)
  PROVE  /\ ledgerRun' \in [LedgerReplica -> Run] /\ sticky' \in [LedgerReplica -> ModelOrNone]
         /\ \A q \in LedgerReplica \ {r} : ledgerRun'[q] = ledgerRun[q] /\ sticky'[q] = sticky[q]
         /\ ledgerRun'[r].reading
         /\ \/ ledgerRun'[r].turn = NoEvent
            \/ /\ ledgerRun'[r].turn = ledgerRun[r].turn /\ ledgerRun'[r].id = ledgerRun[r].id
               /\ ledgerRun'[r].step = ledgerRun[r].step + 1
         /\ sticky'[r] = IF CurrentRequest(r).type = Pinned /\ ok THEN CurrentRequest(r).model
                         ELSE sticky[r]
<1> DEFINE run == ledgerRun[r]
           pin == CurrentRequest(r).type = Pinned
           fl == run.failed \/ (pin /\ ~ok)
           next == IF run.step = 3 THEN IdleRun
                   ELSE [run EXCEPT !.step = run.step + 1, !.reading = TRUE, !.tries = 0,
                                    !.copy = NewLedger, !.failed = fl]
<1>1. ledgerRun' = [ledgerRun EXCEPT ![r] = next]
  BY DEF AfterAppend
<1>2. sticky' = [sticky EXCEPT ![r] = IF pin /\ ok THEN CurrentRequest(r).model ELSE sticky[r]]
  BY DEF AfterAppend
<1>3. run \in Run /\ run.step \in 1 .. 3
  BY DEF RunInv, Running, Run
<1>4. CurrentRequest(r).model \in ModelOrNone
  BY CurrentRequestTyped DEF Request
<1>5. CASE run.step = 3
  <2>1. next = IdleRun
    BY <1>5
  <2> QED BY <1>1, <1>2, <1>4, <2>1, NewSound DEF RunInv, IdleRun
<1>6. CASE run.step # 3
  <2> HIDE DEF fl
  <2>1. /\ next = [turn |-> run.turn, step |-> run.step + 1, id |-> run.id,
                   failed |-> fl, copy |-> NewLedger,
                   reading |-> TRUE, tries |-> 0]
    BY <1>3, <1>6 DEF Run
  <2>2. fl \in BOOLEAN
    BY DEF fl
  <2>3. next \in Run
    <3>1. /\ run.turn \in LedgerTurn \cup {NoEvent} /\ run.step + 1 \in 0 .. 3 /\ run.id \in Nat
          /\ NewLedger \in LedgerState /\ TRUE \in BOOLEAN /\ 0 \in 0 .. LedgerRetries - 1
      BY <1>3, <1>6, NewSound, LedgerAssumption DEF Run
    <3> HIDE DEF next, run
    <3> QED BY <2>1, <2>2, <3>1 DEF Run
  <2>4. next.turn = run.turn /\ next.id = run.id /\ next.step = run.step + 1 /\ next.reading
    BY <2>1
  <2> HIDE DEF next
  <2> QED BY <1>1, <1>2, <1>4, <2>3, <2>4 DEF RunInv
<1> QED BY <1>5, <1>6

-----------------------------------------------------------------------------
(* What a write does to everything that depends on the stored state. *)

\* The swap of replica r took effect.
Wrote(r) ==
    /\ Running(r) /\ Proceeds(r) /\ ledgerRun[r].copy = ledger
    /\ ledger' = Appended(ledger, CurrentRequest(r), EventIdOf(r))

\* The stored state stays, or r writes one event and its run moves on.
Stores(r) ==
    \/ ledger' = ledger
    \/ /\ Wrote(r)
       /\ ledgerRun'[r].turn = NoEvent \/ ledgerRun'[r].step = ledgerRun[r].step + 1

\* A copy is kept, dropped or just read.
CopiesStay ==
    \A q \in LedgerReplica :
        \/ ledgerRun'[q].reading
        \/ ~ledgerRun[q].reading /\ ledgerRun'[q].copy = ledgerRun[q].copy
        \/ ledgerRun'[q].copy = ledger /\ ledger' = ledger

LEMMA WriteIsAdmissible ==
  ASSUME LedgerInv, NEW r \in LedgerReplica, Wrote(r)
  PROVE  Admissible(ledger, CurrentRequest(r), EventIdOf(r))
<1>1. RunInv /\ Running(r) /\ Sound(ledger)
  BY DEF LedgerInv, Wrote
<1>2. /\ CurrentRequest(r) \in Request /\ EventIdOf(r) \in EventId
      /\ CurrentRequest(r).type = Pinned => CurrentRequest(r).model # NoModel
  BY <1>1, CurrentRequestTyped, LedgerAssumption
<1>3. Retained(ledger, OperationOf(CurrentRequest(r))) = {} /\ ~Conflicts(ledger, CurrentRequest(r))
  BY DEF Wrote, Proceeds
<1>4. \A e \in LedgerRange(ledger.entries) : e.id # EventIdOf(r)
  <2> SUFFICES ASSUME NEW e \in LedgerRange(ledger.entries), e.id = EventIdOf(r)
               PROVE  FALSE
    OBVIOUS
  <2>1. EventIdOf(r)[2] < ledgerRun[r].step
    BY <1>1 DEF LedgerInv, IdsInv, Spent, EventIdOf
  <2>2. ledgerRun[r].step \in 0 .. 3
    BY <1>1 DEF RunInv, Run
  <2> QED BY <2>1, <2>2 DEF EventIdOf
<1> QED BY <1>1, <1>2, <1>3, <1>4 DEF Admissible

LEMMA WriteChanges ==
  ASSUME LedgerInv, NEW r \in LedgerReplica, Wrote(r)
  PROVE  /\ Sound(ledger') /\ ledger'.next = ledger.next + 1 /\ ledger.next \in Nat \ {0}
         /\ LedgerRange(ledger'.entries) =
              {e \in LedgerRange(ledger.entries)
                       \cup {EntryFor(ledger, CurrentRequest(r), EventIdOf(r))} :
                  e.seq + MaxLedgerEvents > ledger.next}
         /\ EntryFor(ledger, CurrentRequest(r), EventIdOf(r)) \in Entry
         /\ EntryFor(ledger, CurrentRequest(r), EventIdOf(r)) \in LedgerRange(ledger'.entries)
         /\ LedgerRange(ledger.entries) \subseteq Entry
         /\ \A e \in LedgerRange(ledger.entries) : e.seq < ledger.next
         /\ ledger.pinned # NoModel \/ CurrentRequest(r).type = Pinned => ledger'.pinned # NoModel
<1>1. Admissible(ledger, CurrentRequest(r), EventIdOf(r))
  BY WriteIsAdmissible
<1>2. ledger' = Appended(ledger, CurrentRequest(r), EventIdOf(r))
  BY DEF Wrote
<1>3. Sound(ledger')
  BY <1>1, <1>2, AppendKeepsSound
<1>4. /\ ledger \in LedgerState /\ Contiguous(ledger)
      /\ CurrentRequest(r) \in Request /\ EventIdOf(r) \in EventId
  BY <1>1 DEF Admissible, Sound
<1>5. ledger'.next = ledger.next + 1 /\ ledger.next \in Nat \ {0}
  <2>1. Len(ledger.entries) <= MaxLedgerEvents /\ ledger.next \in Nat \ {0}
    BY <1>4 DEF Contiguous, LedgerState
  <2>2. Appended(ledger, CurrentRequest(r), EventIdOf(r)).next = ledger.next + 1
    BY <1>4, <2>1, AppendedFields
  <2> QED BY <1>2, <2>1, <2>2
<1>6. LedgerRange(ledger'.entries) =
        {e \in LedgerRange(ledger.entries)
                 \cup {EntryFor(ledger, CurrentRequest(r), EventIdOf(r))} :
            e.seq + MaxLedgerEvents > ledger.next}
  BY <1>2, <1>4, AppendedRange
<1>7. EntryFor(ledger, CurrentRequest(r), EventIdOf(r)) \in Entry
  BY <1>4, EntryTyped
<1>8. EntryFor(ledger, CurrentRequest(r), EventIdOf(r)).seq = ledger.next
  BY DEF EntryFor
<1>9. LedgerRange(ledger.entries) \subseteq Entry
  BY <1>4 DEF LedgerState, LedgerRange
<1>10. \A e \in LedgerRange(ledger.entries) : e.seq < ledger.next
  BY <1>4, <1>5 DEF Contiguous, LedgerState, LedgerRange
<1>11. ledger.pinned # NoModel \/ CurrentRequest(r).type = Pinned => ledger'.pinned # NoModel
  BY <1>1, <1>2, AppendedPinKept
<1>12. EntryFor(ledger, CurrentRequest(r), EventIdOf(r)) \in LedgerRange(ledger'.entries)
  BY <1>5, <1>6, <1>8, LedgerAssumption
<1> QED BY <1>3, <1>5, <1>6, <1>7, <1>9, <1>10, <1>11, <1>12

LEMMA StoredStaysSound ==
  ASSUME LedgerInv, NEW r \in LedgerReplica, Stores(r)
  PROVE  /\ Sound(ledger')
         /\ ledger.pinned # NoModel => ledger'.pinned # NoModel
<1>1. CASE ledger' = ledger
  BY <1>1 DEF LedgerInv
<1>2. CASE Wrote(r)
  BY <1>2, WriteChanges
<1> QED BY <1>1, <1>2 DEF Stores

LEMMA IdsStaySpent ==
  ASSUME LedgerInv, NEW r \in LedgerReplica, Stores(r), reader' = reader, deliveries' = deliveries,
         RunInv', \A x \in EventId : Spent(x) => Spent(x)',
         \A q \in LedgerReplica \ {r} : ledgerRun'[q] = ledgerRun[q],
         ledgerRun'[r].turn = NoEvent \/ ledgerRun'[r].id = ledgerRun[r].id
  PROVE  IdsInv'
<1>1. IdsInv /\ RunInv /\ Sound(ledger) /\ PageInv
  BY DEF LedgerInv
<1>2. LedgerRange(ledger.entries) \subseteq Entry
  BY <1>1 DEF Sound, LedgerState, LedgerRange
<1>3. \A e \in LedgerRange(ledger.entries) : e.id \in EventId /\ Spent(e.id)
  BY <1>1, <1>2, EntryFields DEF IdsInv
<1>4. ASSUME reader'.anchor # NoEvent
      PROVE  Spent(reader.anchor)'
  <2>1. PICK y \in EventId : y = reader.anchor /\ Spent(y)
    BY <1>1, <1>4 DEF IdsInv, PageInv
  <2>2. Spent(y)'
    BY <2>1
  <2> QED BY <2>1, <2>2 DEF Spent
<1>5. ASSUME NEW e \in LedgerRange(ledger'.entries)
      PROVE  Spent(e.id)'
  <2>1. CASE e \in LedgerRange(ledger.entries)
    BY <1>3, <2>1
  <2>2. CASE e \notin LedgerRange(ledger.entries)
    <3>1. Wrote(r) /\ (ledgerRun'[r].turn = NoEvent \/ ledgerRun'[r].step = ledgerRun[r].step + 1)
      BY <2>2 DEF Stores
    <3>2. e = EntryFor(ledger, CurrentRequest(r), EventIdOf(r))
      BY <1>5, <2>2, <3>1, WriteChanges
    <3>3. e.id[1] = ledgerRun[r].id /\ e.id[2] = ledgerRun[r].step
      BY <3>2 DEF EntryFor, EventIdOf
    <3>4. /\ Running(r) /\ ledgerRun[r].step \in 0 .. 3 /\ ledgerRun[r].id <= deliveries
          /\ \A q \in LedgerReplica \ {r} : Running(q) => ledgerRun[q].id # ledgerRun[r].id
      BY <1>1, <3>1 DEF RunInv, Run, Wrote
    <3> QED BY <3>1, <3>3, <3>4 DEF Spent, Running
  <2> QED BY <2>1, <2>2
<1> QED BY <1>4, <1>5 DEF IdsInv

\* An entry that is recent enough stays, and no number is used again.
LEMMA RecentStay ==
  ASSUME LedgerInv, NEW r \in LedgerReplica, Stores(r)
  PROVE  /\ ledger'.next \in Nat /\ ledger.next \in Nat /\ ledger.next <= ledger'.next
         /\ \A e \in LedgerRange(ledger.entries) :
               /\ e \in Entry /\ e.seq < ledger.next
               /\ e.seq + MaxLedgerEvents > ledger'.next - 1 => e \in LedgerRange(ledger'.entries)
         /\ \A e \in LedgerRange(ledger'.entries) :
               /\ e.seq < ledger'.next
               /\ e.seq < ledger.next => e \in LedgerRange(ledger.entries)
         /\ \A e, d \in LedgerRange(ledger'.entries) : e.id = d.id => e = d
<1>1. Sound(ledger) /\ Sound(ledger')
  BY StoredStaysSound DEF LedgerInv
<1>2. /\ ledger.next \in Nat /\ LedgerRange(ledger.entries) \subseteq Entry
      /\ \A e \in LedgerRange(ledger.entries) : e.seq < ledger.next
  BY <1>1 DEF Sound, LedgerState, Contiguous, LedgerRange
<1>3. /\ ledger'.next \in Nat
      /\ \A e \in LedgerRange(ledger'.entries) : e.seq < ledger'.next
  BY <1>1 DEF Sound, LedgerState, Contiguous, LedgerRange
<1>4. \A e, d \in LedgerRange(ledger'.entries) : e.id = d.id => e = d
  BY <1>1 DEF Sound, Distinct, LedgerRange
<1>5. CASE ledger' = ledger
  BY <1>2, <1>3, <1>4, <1>5
<1>6. CASE Wrote(r)
  <2> DEFINE x == EntryFor(ledger, CurrentRequest(r), EventIdOf(r))
  <2>1. x.seq = ledger.next
    BY DEF EntryFor
  <2>2. /\ ledger'.next = ledger.next + 1
        /\ LedgerRange(ledger'.entries) =
             {e \in LedgerRange(ledger.entries) \cup {x} : e.seq + MaxLedgerEvents > ledger.next}
    BY <1>6, WriteChanges
  <2> HIDE DEF x
  <2>3. \A e \in LedgerRange(ledger'.entries) : e.seq < ledger.next => e \in LedgerRange(ledger.entries)
    BY <1>2, <2>1, <2>2
  <2>4. \A e \in LedgerRange(ledger.entries) :
          e.seq + MaxLedgerEvents > ledger'.next - 1 => e \in LedgerRange(ledger'.entries)
    BY <1>2, <2>2
  <2>5. ledger.next <= ledger'.next
    BY <1>2, <2>2
  <2> QED BY <1>2, <1>3, <1>4, <2>3, <2>4, <2>5
<1> QED BY <1>5, <1>6 DEF Stores

LEMMA CopiesStayRight ==
  ASSUME LedgerInv, NEW r \in LedgerReplica, Stores(r), CopiesStay
  PROVE  CopyInv'
<1> SUFFICES ASSUME NEW q \in LedgerReplica, ~ledgerRun'[q].reading,
                    NEW e \in LedgerRange(ledgerRun'[q].copy.entries)
             PROVE  /\ e \in Entry /\ e.seq < ledger'.next
                    /\ e.seq + MaxLedgerEvents > ledger'.next - 1 => e \in LedgerRange(ledger'.entries)
                    /\ e.req.type = Pinned => ledger'.pinned # NoModel
  BY DEF CopyInv
<1>1. Sound(ledger) /\ CopyInv
  BY DEF LedgerInv
<1>2. ledger.pinned # NoModel => ledger'.pinned # NoModel
  BY StoredStaysSound
<1>3. CASE ~ledgerRun[q].reading /\ ledgerRun'[q].copy = ledgerRun[q].copy
  <2>1. /\ e \in Entry /\ e.seq < ledger.next
        /\ e.seq + MaxLedgerEvents > ledger.next - 1 => e \in LedgerRange(ledger.entries)
        /\ e.req.type = Pinned => ledger.pinned # NoModel
    BY <1>1, <1>3 DEF CopyInv
  <2>2. e.seq \in Nat /\ MaxLedgerEvents \in Nat
    BY <2>1, EntryFields, LedgerAssumption
  <2>3. e.seq < ledger'.next
    BY <2>1, <2>2, RecentStay
  <2>4. e.seq + MaxLedgerEvents > ledger'.next - 1 => e \in LedgerRange(ledger.entries)
    BY <2>1, <2>2, RecentStay
  <2> QED BY <1>2, <2>1, <2>3, <2>4, RecentStay
<1>4. CASE ledgerRun'[q].copy = ledger /\ ledger' = ledger
  BY <1>1, <1>4, RecentStay DEF Sound, PinKept
<1> QED BY <1>3, <1>4 DEF CopiesStay

\* What was acknowledged before stays so.
LEMMA AcknowledgedStay ==
  ASSUME LedgerInv, NEW r \in LedgerReplica, Stores(r)
  PROVE  \A a \in ledgerAcked :
            /\ a.seq \in Nat
            /\ a.seq + MaxLedgerEvents > ledger'.next - 1 =>
                  \E e \in LedgerRange(ledger'.entries) : e.op = a.op /\ e.seq = a.seq
<1> TAKE a \in ledgerAcked
<1>1. /\ a.seq \in Nat
      /\ a.seq + MaxLedgerEvents > ledger.next - 1 =>
            \E e \in LedgerRange(ledger.entries) : e.op = a.op /\ e.seq = a.seq
  BY DEF LedgerInv, AckInv
<1>2. ASSUME a.seq + MaxLedgerEvents > ledger'.next - 1
      PROVE  \E e \in LedgerRange(ledger'.entries) : e.op = a.op /\ e.seq = a.seq
  <2>1. a.seq + MaxLedgerEvents > ledger.next - 1
    BY <1>1, <1>2, RecentStay, LedgerAssumption
  <2>2. PICK e \in LedgerRange(ledger.entries) : e.op = a.op /\ e.seq = a.seq
    BY <1>1, <2>1
  <2> QED BY <1>2, <2>2, RecentStay
<1> QED BY <1>1, <1>2

LEMMA PagesStay ==
  ASSUME LedgerInv, NEW r \in LedgerReplica, Stores(r), reader' = reader
  PROVE  PageInv'
<1>1. PageInv
  BY DEF LedgerInv
<1>2. /\ reader'.top < ledger'.next
  BY <1>1, RecentStay DEF PageInv
<1>3. ASSUME NEW e \in LedgerRange(ledger'.entries), e.id = reader.anchor
      PROVE  e \in LedgerRange(ledger.entries)
  <2>1. CASE ledger' = ledger
    BY <2>1
  <2>2. CASE Wrote(r)
    <3>1. CASE e = EntryFor(ledger, CurrentRequest(r), EventIdOf(r))
      <4>1. reader.anchor = EventIdOf(r) /\ Running(r) /\ RunInv /\ IdsInv
        BY <1>3, <2>2, <3>1 DEF EntryFor, Wrote, LedgerInv
      <4>2. EventIdOf(r) \in EventId
        BY <4>1, CurrentRequestTyped
      <4>3. Spent(EventIdOf(r))
        BY <4>1, <4>2, LedgerAssumption DEF IdsInv, EventId
      <4>4. ledgerRun[r].step < ledgerRun[r].step /\ ledgerRun[r].step \in 0 .. 3
        BY <4>1, <4>3 DEF Spent, EventIdOf, RunInv, Run
      <4> QED BY <4>4
    <3> QED BY <1>3, <2>2, <3>1, WriteChanges
  <2> QED BY <2>1, <2>2 DEF Stores
<1>4. \A d \in LedgerRange(ledger'.entries) :
        d.seq <= reader.top => d \in LedgerRange(ledger.entries)
  <2> TAKE d \in LedgerRange(ledger'.entries)
  <2>1. Sound(ledger')
    BY StoredStaysSound
  <2>2. d \in Entry
    BY <2>1 DEF Sound, LedgerState, LedgerRange
  <2>3. d.seq \in Nat
    BY <2>2, EntryFields
  <2>4. reader.top \in Nat /\ reader.top < ledger.next
    BY <1>1 DEF PageInv
  <2> QED BY <2>3, <2>4, RecentStay
<1> QED BY <1>1, <1>2, <1>3, <1>4 DEF PageInv

\* A step of one replica keeps the invariant if it stores as the store does
\* and claims a pin only when there is one.
LEMMA ReplicaStep ==
  ASSUME LedgerInv, NEW r \in LedgerReplica, Stores(r), CopiesStay, Advances(r),
         reader' = reader, deliveries' = deliveries, ledgerFaults' \in Nat,
         ledgerRun' \in [LedgerReplica -> Run], sticky' \in [LedgerReplica -> ModelOrNone],
         \A q \in LedgerReplica \ {r} : ledgerRun'[q] = ledgerRun[q] /\ sticky'[q] = sticky[q],
         sticky'[r] # NoModel => sticky[r] # NoModel \/ ledger'.pinned # NoModel,
         AckInv'
  PROVE  LedgerInv'
<1>1. RunInv /\ LedgerPinDurable
  BY DEF LedgerInv
<1>2. \A q \in LedgerReplica : Advances(q)
  <2> TAKE q \in LedgerReplica
  <2>1. ledgerRun[q].step \in 0 .. 3
    BY <1>1 DEF RunInv, Run
  <2> QED BY <2>1 DEF Advances
<1>3. RunInv' /\ \A x \in EventId : Spent(x) => Spent(x)'
  BY <1>1, <1>2, RunsAdvance
<1>4. ledgerRun'[r].turn = NoEvent \/ ledgerRun'[r].id = ledgerRun[r].id
  BY DEF Advances
<1>5. IdsInv'
  BY <1>3, <1>4, IdsStaySpent
<1>6. Sound(ledger') /\ (ledger.pinned # NoModel => ledger'.pinned # NoModel)
  BY StoredStaysSound
<1>7. LedgerPinDurable'
  BY <1>1, <1>6 DEF LedgerPinDurable
<1> QED BY <1>3, <1>5, <1>6, <1>7, CopiesStayRight, PagesStay DEF LedgerInv

\* The same for a step that ends in AfterAppend.
LEMMA AppendStep ==
  ASSUME LedgerInv, NEW r \in LedgerReplica, Running(r), NEW ok \in BOOLEAN, AfterAppend(r, ok),
         ledger' = ledger \/ Wrote(r), reader' = reader, deliveries' = deliveries,
         ledgerFaults' \in Nat, AckInv',
         (CurrentRequest(r).type = Pinned /\ ok) => ledger'.pinned # NoModel
  PROVE  LedgerInv'
<1>1. RunInv
  BY DEF LedgerInv
<1>2. /\ ledgerRun' \in [LedgerReplica -> Run] /\ sticky' \in [LedgerReplica -> ModelOrNone]
      /\ \A q \in LedgerReplica \ {r} : ledgerRun'[q] = ledgerRun[q] /\ sticky'[q] = sticky[q]
      /\ ledgerRun'[r].reading
      /\ \/ ledgerRun'[r].turn = NoEvent
         \/ /\ ledgerRun'[r].turn = ledgerRun[r].turn /\ ledgerRun'[r].id = ledgerRun[r].id
            /\ ledgerRun'[r].step = ledgerRun[r].step + 1
      /\ sticky'[r] = IF CurrentRequest(r).type = Pinned /\ ok THEN CurrentRequest(r).model
                      ELSE sticky[r]
  BY <1>1, AfterAppendMoves
<1>3. ledgerRun[r].step \in 0 .. 3
  BY <1>1 DEF RunInv, Run
<1>4. Advances(r) /\ Stores(r)
  BY <1>2, <1>3 DEF Advances, Stores
<1>5. CopiesStay
  BY <1>2 DEF CopiesStay
<1>6. sticky'[r] # NoModel => sticky[r] # NoModel \/ ledger'.pinned # NoModel
  BY <1>2
<1> QED BY <1>2, <1>4, <1>5, <1>6, ReplicaStep

LEMMA ReplayKeeps ==
  ASSUME LedgerInv, NEW r \in LedgerReplica, LedgerReplay(r)
  PROVE  LedgerInv'
<1>1. PICK e \in Retained(ledgerRun[r].copy, OperationOf(CurrentRequest(r))) :
        /\ e.req = CurrentRequest(r)
        /\ UNCHANGED <<ledger, deliveries, ledgerFaults, reader>> /\ Acknowledge(e.op, e.seq)
  BY DEF LedgerReplay
<1>2. Running(r) /\ ~ledgerRun[r].reading /\ AfterAppend(r, TRUE) /\ RunInv /\ CopyInv /\ AckInv
  BY DEF LedgerReplay, LedgerInv
<1>3. /\ e \in Entry
      /\ e.seq + MaxLedgerEvents > ledger.next - 1 => e \in LedgerRange(ledger.entries)
      /\ e.req.type = Pinned => ledger.pinned # NoModel
  BY <1>2 DEF CopyInv, Retained
<1>4. e.seq \in Nat
  BY <1>3, EntryFields
<1>5. AckInv'
  <2> SUFFICES ASSUME NEW a \in ledgerAcked'
               PROVE  /\ a.seq \in Nat
                      /\ a.seq + MaxLedgerEvents > ledger.next - 1 =>
                           \E d \in LedgerRange(ledger.entries) : d.op = a.op /\ d.seq = a.seq
    BY <1>1 DEF AckInv
  <2>1. a \in ledgerAcked \/ a = [op |-> e.op, seq |-> e.seq]
    BY <1>1 DEF Acknowledge
  <2>2. CASE a \in ledgerAcked
    BY <1>2, <2>2 DEF AckInv
  <2>3. CASE a = [op |-> e.op, seq |-> e.seq]
    <3>1. a.op = e.op /\ a.seq = e.seq
      BY <2>3
    <3> QED BY <1>3, <1>4, <3>1
  <2> QED BY <2>1, <2>2, <2>3
<1>6. CurrentRequest(r).type = Pinned => ledger'.pinned # NoModel
  BY <1>1, <1>3
<1>7. ledgerFaults' \in Nat
  BY <1>1, <1>2 DEF RunInv
<1> QED BY <1>1, <1>2, <1>5, <1>6, <1>7, AppendStep

LEMMA SwapKeeps ==
  ASSUME LedgerInv, NEW r \in LedgerReplica, LedgerSwap(r)
  PROVE  LedgerInv'
<1>1. /\ Running(r) /\ AfterAppend(r, TRUE) /\ reader' = reader /\ deliveries' = deliveries
      /\ ledgerFaults' = ledgerFaults /\ RunInv
  BY DEF LedgerSwap, Proceeds, LedgerInv
<1>2. Wrote(r)
  BY DEF LedgerSwap, Wrote, Proceeds, Prepared, EventIdOf
<1>3. Acknowledge(OperationOf(CurrentRequest(r)), ledger.next)
  BY DEF LedgerSwap
<1> DEFINE x == EntryFor(ledger, CurrentRequest(r), EventIdOf(r))
<1>4. /\ x \in LedgerRange(ledger'.entries) /\ ledger.next \in Nat
      /\ CurrentRequest(r).type = Pinned => ledger'.pinned # NoModel
  BY <1>2, WriteChanges
<1>5. x.op = OperationOf(CurrentRequest(r)) /\ x.seq = ledger.next
  BY DEF EntryFor
<1> HIDE DEF x
<1>6. Stores(r)
  BY <1>1, <1>2, AfterAppendMoves DEF Stores
<1>7. AckInv'
  <2> SUFFICES ASSUME NEW a \in ledgerAcked'
               PROVE  /\ a.seq \in Nat
                      /\ a.seq + MaxLedgerEvents > ledger'.next - 1 =>
                           \E d \in LedgerRange(ledger'.entries) : d.op = a.op /\ d.seq = a.seq
    BY DEF AckInv
  <2>1. a \in ledgerAcked \/ a = [op |-> OperationOf(CurrentRequest(r)), seq |-> ledger.next]
    BY <1>3 DEF Acknowledge
  <2>2. CASE a \in ledgerAcked
    BY <1>6, <2>2, AcknowledgedStay
  <2>3. CASE a = [op |-> OperationOf(CurrentRequest(r)), seq |-> ledger.next]
    <3>1. a.op = x.op /\ a.seq = x.seq
      BY <1>5, <2>3
    <3> QED BY <1>4, <1>5, <3>1
  <2> QED BY <2>1, <2>2, <2>3
<1>8. ledgerFaults' \in Nat
  BY <1>1 DEF RunInv
<1> QED BY <1>1, <1>2, <1>4, <1>7, <1>8, AppendStep

LEMMA RefuseKeeps ==
  ASSUME LedgerInv, NEW r \in LedgerReplica, LedgerRefuse(r)
  PROVE  LedgerInv'
<1>1. /\ Running(r) /\ AfterAppend(r, FALSE)
      /\ UNCHANGED <<ledger, deliveries, ledgerFaults, ledgerAcked, reader>>
  BY DEF LedgerRefuse
<1>2. AckInv' /\ ledgerFaults' \in Nat
  BY <1>1 DEF LedgerInv, AckInv, RunInv
<1> QED BY <1>1, <1>2, AppendStep

LEMMA LoseKeeps ==
  ASSUME LedgerInv, NEW r \in LedgerReplica, LedgerLose(r)
  PROVE  LedgerInv'
<1>1. Running(r) /\ UNCHANGED <<ledger, deliveries, ledgerFaults, ledgerAcked, reader>>
  BY DEF LedgerLose, Proceeds
<1>2. AckInv' /\ ledgerFaults' \in Nat /\ RunInv
  BY <1>1 DEF LedgerInv, AckInv, RunInv
<1>3. CASE ledgerRun[r].tries + 1 < LedgerRetries
  <2> DEFINE run == ledgerRun[r]
             again == [run EXCEPT !.reading = TRUE, !.tries = run.tries + 1, !.copy = NewLedger]
  <2>1. ledgerRun' = [ledgerRun EXCEPT ![r] = again] /\ sticky' = sticky
    BY <1>3 DEF LedgerLose
  <2>2. run \in Run
    BY <1>2 DEF RunInv
  <2>3. run.tries + 1 \in 0 .. LedgerRetries - 1 /\ run.step \in 0 .. 3
    BY <1>3, <2>2, LedgerAssumption DEF Run
  <2> HIDE DEF run
  <2>4. again \in Run
    BY <2>2, <2>3, NewSound DEF Run
  <2>5. again.reading
    BY <2>2 DEF Run
  <2>6. again.turn = run.turn /\ again.id = run.id /\ again.step = run.step
    BY <2>2 DEF Run
  <2> HIDE DEF again
  <2>7. ledgerRun'[r] = again /\ \A q \in LedgerReplica \ {r} : ledgerRun'[q] = ledgerRun[q]
    BY <1>2, <2>1 DEF RunInv
  <2>8. ledgerRun' \in [LedgerReplica -> Run] /\ sticky' \in [LedgerReplica -> ModelOrNone]
    BY <1>2, <2>1, <2>4 DEF RunInv
  <2>9. Advances(r) /\ Stores(r) /\ CopiesStay
    BY <1>1, <2>3, <2>5, <2>6, <2>7 DEF Advances, Stores, CopiesStay, run
  <2> QED BY <1>1, <1>2, <2>1, <2>7, <2>8, <2>9, ReplicaStep
<1>4. CASE ~(ledgerRun[r].tries + 1 < LedgerRetries)
  <2>1. AfterAppend(r, FALSE)
    BY <1>4 DEF LedgerLose
  <2> QED BY <1>1, <1>2, <2>1, AppendStep
<1> QED BY <1>3, <1>4

LEMMA FaultKeeps ==
  ASSUME LedgerInv, NEW r \in LedgerReplica, LedgerFault(r)
  PROVE  LedgerInv'
<1>1. /\ Running(r) /\ AfterAppend(r, FALSE) /\ ledgerFaults' = ledgerFaults + 1
      /\ UNCHANGED <<deliveries, ledgerAcked, reader>> /\ RunInv
  BY DEF LedgerFault, Proceeds, LedgerInv
<1>2. ledger' = ledger \/ Wrote(r)
  BY DEF LedgerFault, Wrote, Proceeds, Prepared, EventIdOf
<1>3. Stores(r)
  BY <1>1, <1>2, AfterAppendMoves DEF Stores
<1>4. AckInv'
  BY <1>1, <1>3, AcknowledgedStay DEF AckInv
<1>5. ledgerFaults' \in Nat
  BY <1>1 DEF RunInv
<1> QED BY <1>1, <1>2, <1>4, <1>5, AppendStep

LEMMA ReadKeeps ==
  ASSUME LedgerInv, NEW r \in LedgerReplica, LedgerRead(r)
  PROVE  LedgerInv'
<1> DEFINE run == ledgerRun[r]
           read == [run EXCEPT !.copy = ledger, !.reading = FALSE]
<1>1. /\ ledgerRun' = [ledgerRun EXCEPT ![r] = read]
      /\ UNCHANGED <<ledger, sticky, deliveries, ledgerFaults, ledgerAcked, reader>>
  BY DEF LedgerRead
<1>2. AckInv' /\ ledgerFaults' \in Nat /\ RunInv /\ ledger \in LedgerState
  BY <1>1 DEF LedgerInv, AckInv, RunInv, Sound
<1>3. run \in Run
  BY <1>2 DEF RunInv
<1>4. run.step \in 0 .. 3
  BY <1>3 DEF Run
<1> HIDE DEF run
<1>5. read \in Run
  BY <1>2, <1>3 DEF Run
<1>6. read.turn = run.turn /\ read.id = run.id /\ read.step = run.step /\ read.copy = ledger
  BY <1>3 DEF Run
<1> HIDE DEF read
<1>7. ledgerRun'[r] = read /\ \A q \in LedgerReplica \ {r} : ledgerRun'[q] = ledgerRun[q]
  BY <1>1, <1>2 DEF RunInv
<1>8. ledgerRun' \in [LedgerReplica -> Run] /\ sticky' \in [LedgerReplica -> ModelOrNone]
  BY <1>1, <1>2, <1>5 DEF RunInv
<1>9. Advances(r) /\ Stores(r)
  BY <1>1, <1>4, <1>6, <1>7 DEF Advances, Stores, run
<1>10. CopiesStay
  BY <1>1, <1>6, <1>7 DEF CopiesStay
<1> QED BY <1>1, <1>2, <1>7, <1>8, <1>9, <1>10, ReplicaStep

LEMMA CrashKeeps ==
  ASSUME LedgerInv, NEW r \in LedgerReplica, LedgerCrash(r)
  PROVE  LedgerInv'
<1>1. /\ ledgerRun' = [ledgerRun EXCEPT ![r] = IdleRun] /\ sticky' = [sticky EXCEPT ![r] = NoModel]
      /\ UNCHANGED <<ledger, deliveries, ledgerFaults, ledgerAcked, reader>>
  BY DEF LedgerCrash
<1>2. AckInv' /\ ledgerFaults' \in Nat /\ RunInv
  BY <1>1 DEF LedgerInv, AckInv, RunInv
<1>3. /\ ledgerRun'[r] = IdleRun /\ sticky'[r] = NoModel
      /\ \A q \in LedgerReplica \ {r} : ledgerRun'[q] = ledgerRun[q] /\ sticky'[q] = sticky[q]
  BY <1>1, <1>2 DEF RunInv
<1>4. IdleRun.turn = NoEvent /\ IdleRun.reading
  BY DEF IdleRun
<1>5. ledgerRun' \in [LedgerReplica -> Run] /\ sticky' \in [LedgerReplica -> ModelOrNone]
  BY <1>1, <1>2, NewSound DEF RunInv, ModelOrNone
<1>6. Advances(r) /\ Stores(r) /\ CopiesStay
  BY <1>1, <1>3, <1>4 DEF Advances, Stores, CopiesStay
<1> QED BY <1>1, <1>2, <1>3, <1>5, <1>6, ReplicaStep

\* A delivery takes an id above all those in use.
LEMMA DeliverKeeps ==
  ASSUME LedgerInv, NEW r \in LedgerReplica, NEW t \in LedgerTurn, LedgerDeliver(r, t)
  PROVE  LedgerInv'
<1> DEFINE fresh == [IdleRun EXCEPT !.turn = t, !.step = 1, !.id = deliveries + 1]
<1>1. /\ ledgerRun' = [ledgerRun EXCEPT ![r] = fresh] /\ deliveries' = deliveries + 1
      /\ sticky' = [sticky EXCEPT ![r] = IF ledger.pinned # NoModel THEN ledger.pinned ELSE sticky[r]]
      /\ UNCHANGED <<ledger, ledgerFaults, ledgerAcked, reader>> /\ ~Running(r)
  BY DEF LedgerDeliver
<1>2. RunInv /\ ledger \in LedgerState /\ deliveries \in Nat
  BY DEF LedgerInv, RunInv, Sound
<1>3. fresh \in Run
  <2>1. IdleRun \in Run /\ deliveries + 1 \in Nat /\ t \in LedgerTurn \cup {NoEvent} /\ 1 \in 0 .. 3
    BY <1>2, NewSound
  <2> QED BY <2>1 DEF Run
<1>4. fresh.turn = t /\ fresh.id = deliveries + 1 /\ fresh.step = 1 /\ fresh.reading /\ t # NoEvent
  BY LedgerAssumption DEF IdleRun
<1> HIDE DEF fresh
<1>5. ledger.pinned \in ModelOrNone
  BY <1>2 DEF LedgerState
<1>6. /\ ledgerRun' \in [LedgerReplica -> Run] /\ sticky' \in [LedgerReplica -> ModelOrNone]
      /\ ledgerRun'[r] = fresh /\ \A q \in LedgerReplica \ {r} : ledgerRun'[q] = ledgerRun[q]
  BY <1>1, <1>2, <1>3, <1>5 DEF RunInv
<1>7. RunInv'
  <2>1. \A q \in LedgerReplica : ledgerRun[q].id \in Nat
    BY <1>2 DEF RunInv, Run
  <2> QED BY <1>1, <1>2, <1>4, <1>6, <2>1 DEF RunInv, Running
<1>8. ASSUME NEW x \in EventId, Spent(x)
      PROVE  Spent(x)'
  <2>1. x[1] \in Nat
    BY DEF EventId
  <2> QED BY <1>1, <1>2, <1>4, <1>6, <1>8, <2>1 DEF Spent, Running
<1>9. IdsInv'
  <2>1. \A e \in LedgerRange(ledger.entries) : e.id \in EventId /\ Spent(e.id)
    BY <1>2, EntryFields DEF LedgerInv, IdsInv, LedgerState, LedgerRange
  <2>2. ASSUME reader'.anchor # NoEvent
        PROVE  Spent(reader.anchor)'
    <3>1. PICK y \in EventId : y = reader.anchor /\ Spent(y)
      BY <1>1, <2>2 DEF LedgerInv, IdsInv, PageInv
    <3>2. Spent(y)'
      BY <1>8, <3>1
    <3> QED BY <1>1, <3>1, <3>2 DEF Spent
  <2> QED BY <1>1, <1>8, <2>1, <2>2 DEF IdsInv
<1>10. CopyInv'
  BY <1>1, <1>4, <1>6 DEF LedgerInv, CopyInv
<1>11. Sound(ledger') /\ AckInv' /\ PageInv'
  BY <1>1 DEF LedgerInv, AckInv, PageInv
<1>12. LedgerPinDurable'
  BY <1>1, <1>2 DEF LedgerInv, LedgerPinDurable, RunInv
<1> QED BY <1>7, <1>9, <1>10, <1>11, <1>12 DEF LedgerInv

\* A set of indices has a greatest one.
LEMMA GreatestExists ==
  ASSUME NEW n \in Nat, NEW S, S \subseteq 1 .. n, S # {}
  PROVE  \E i \in S : \A j \in S : j <= i
<1> DEFINE below == {n - i : i \in S}
           less == OpToRel(<, Nat)
<1>1. below \subseteq Nat /\ below # {}
  <2>1. \A i \in S : n - i \in Nat
    OBVIOUS
  <2>2. PICK i \in S : TRUE
    OBVIOUS
  <2>3. n - i \in below
    BY <2>2
  <2> QED BY <2>1, <2>3
<1>2. IsWellFoundedOn(less, Nat)
  BY NatLessThanWellFounded
<1> HIDE DEF less
<1>3. PICK m \in below : \A k \in below : <<k, m>> \notin less
  BY <1>1, <1>2, WFMin
<1>4. ASSUME NEW k \in Nat, NEW l \in Nat, k < l
      PROVE  <<k, l>> \in less
  BY <1>4 DEF less, OpToRel
<1>5. PICK i \in S : m = n - i
  OBVIOUS
<1>6. \A j \in S : n - j \in below /\ ~ (n - j < m)
  BY <1>1, <1>3, <1>4
<1>7. \A j \in S : j <= i
  BY <1>5, <1>6
<1> QED BY <1>7

\* Where a page begins and ends.
LEMMA PageBounds ==
  ASSUME Sound(ledger), ledger.entries # <<>>, AnchorRetained
  PROVE  /\ Len(ledger.entries) \in Nat \ {0} /\ PageStart \in 0 .. Len(ledger.entries)
         /\ PageEnd \in 1 .. Len(ledger.entries) /\ (PageEnd <= PageStart \/ PageEnd = 1)
         /\ reader.anchor = NoEvent => PageStart = Len(ledger.entries)
         /\ reader.anchor # NoEvent =>
               /\ PageStart + 1 \in 1 .. Len(ledger.entries)
               /\ ledger.entries[PageStart + 1].id = reader.anchor
<1> DEFINE n == Len(ledger.entries)
<1>1. n \in Nat \ {0}
  BY DEF Sound, LedgerState
<1>2. ASSUME reader.anchor # NoEvent
      PROVE  /\ AnchorIndex \in 1 .. n /\ ledger.entries[AnchorIndex].id = reader.anchor
             /\ PageStart = AnchorIndex - 1
  <2>1. \E i \in 1 .. n : ledger.entries[i].id = reader.anchor
    BY <1>2 DEF AnchorRetained, LedgerRange
  <2>2. AnchorIndex \in 1 .. n /\ ledger.entries[AnchorIndex].id = reader.anchor
    BY <2>1 DEF AnchorIndex
  <2> QED BY <1>2, <2>2 DEF PageStart
<1>3. reader.anchor = NoEvent => PageStart = n
  BY DEF PageStart
<1> HIDE DEF n
<1>4. PageStart \in 0 .. n /\ (reader.anchor # NoEvent => PageStart + 1 = AnchorIndex)
  BY <1>1, <1>2, <1>3
<1> DEFINE full == {i \in 1 .. PageStart :
                       Cardinality({j \in i .. PageStart : Wanted(j)}) = PageLimit}
<1>5. PageEnd = IF full = {} THEN 1 ELSE CHOOSE i \in full : \A j \in full : j <= i
  BY DEF PageEnd
<1>6. full \subseteq 1 .. PageStart
  OBVIOUS
<1> HIDE DEF full
<1>7. CASE full = {}
  BY <1>1, <1>2, <1>3, <1>4, <1>5, <1>7 DEF n
<1>8. CASE full # {}
  <2>1. PageStart \in Nat
    BY <1>1, <1>4
  <2>2. \E i \in full : \A j \in full : j <= i
    BY <1>6, <1>8, <2>1, GreatestExists
  <2>3. PageEnd \in full
    BY <1>5, <1>8, <2>2
  <2> QED BY <1>1, <1>2, <1>3, <1>4, <1>6, <2>3 DEF n
<1> QED BY <1>7, <1>8

\* A page continues where the anchor is and ends at the next one.
LEMMA PageKeeps ==
  ASSUME LedgerInv, LedgerPage
  PROVE  LedgerInv'
<1> DEFINE es == ledger.entries
           n == Len(es)
           new == {es[i].seq : i \in {j \in PageEnd .. PageStart : Wanted(j)}}
           top == IF reader.top = 0 THEN ledger.next - 1 ELSE reader.top
<1>1. /\ reader' = [top |-> top, anchor |-> es[PageEnd].id, seen |-> reader.seen \cup new,
                    done |-> PageEnd = 1]
      /\ UNCHANGED <<ledger, ledgerRun, sticky, deliveries, ledgerFaults, ledgerAcked>>
      /\ es # <<>> /\ AnchorRetained
  BY DEF LedgerPage
<1>2. Sound(ledger) /\ RunInv /\ IdsInv /\ CopyInv /\ AckInv /\ LedgerPinDurable /\ PageInv
  BY DEF LedgerInv
<1>3. /\ n \in Nat \ {0} /\ PageStart \in 0 .. n
      /\ PageEnd \in 1 .. n /\ (PageEnd <= PageStart \/ PageEnd = 1)
      /\ reader.anchor = NoEvent => PageStart = n
      /\ reader.anchor # NoEvent => PageStart + 1 \in 1 .. n /\ es[PageStart + 1].id = reader.anchor
  BY <1>1, <1>2, PageBounds
<1>4. /\ ledger.next \in Nat /\ n < ledger.next
      /\ \A i \in 1 .. n : es[i] \in Entry /\ es[i].seq = ledger.next - 1 - n + i
      /\ \A i, j \in 1 .. n : es[i].id = es[j].id => i = j
  BY <1>2 DEF Sound, LedgerState, Contiguous, Distinct
<1>5. \A i \in 1 .. n : es[i] \in LedgerRange(es) /\ es[i].id \in EventId /\ es[i].id # NoEvent
  BY <1>4, EntryFields DEF LedgerRange
<1>6. /\ reader.top \in Nat /\ reader.top < ledger.next /\ reader.seen \subseteq 1 .. reader.top
      /\ reader.anchor = NoEvent <=> reader.top = 0
  BY <1>2 DEF PageInv
<1>7. reader.anchor # NoEvent => es[PageStart + 1].seq <= reader.top
  BY <1>2, <1>3, <1>5 DEF PageInv
<1>8. \A d \in LedgerRange(es) : \E i \in 1 .. n : d = es[i]
  BY DEF LedgerRange
<1>9. LedgerRange(ledger.entries) = LedgerRange(es)
  OBVIOUS
<1>10. \A i \in 1 .. n : Wanted(i) <=> es[i].req.type # Called
  BY DEF Wanted
<1> HIDE DEF es, n
<1>11. top \in Nat /\ top < ledger.next /\ reader.top <= top /\ top # 0
  BY <1>3, <1>4, <1>6
<1>12. /\ reader'.top = top /\ reader'.anchor = es[PageEnd].id
       /\ reader'.seen = reader.seen \cup new /\ (reader'.done <=> PageEnd = 1)
  BY <1>1
<1>13. \A i \in 1 .. PageStart : i \in 1 .. n /\ es[i].seq \in 1 .. top
  <2> TAKE i \in 1 .. PageStart
  <2>1. CASE reader.anchor = NoEvent
    BY <1>3, <1>4, <1>6, <2>1
  <2>2. CASE reader.anchor # NoEvent
    BY <1>3, <1>4, <1>6, <1>7, <2>2
  <2> QED BY <2>1, <2>2
<1>14. new \subseteq 1 .. top
  BY <1>3, <1>13
<1>15. es[PageEnd].seq <= top
  <2>1. CASE PageEnd <= PageStart
    BY <1>3, <1>13, <2>1
  <2>2. CASE PageEnd > PageStart
    <3>1. reader.anchor # NoEvent /\ PageEnd = PageStart + 1
      BY <1>3, <2>2
    <3> QED BY <1>3, <1>4, <1>6, <1>7, <1>11, <3>1
  <2> QED BY <1>3, <2>1, <2>2
<1>16. \A e \in LedgerRange(es) : e.id = es[PageEnd].id => e.seq <= top
  BY <1>3, <1>4, <1>8, <1>15
<1>17. ASSUME NEW e \in LedgerRange(es), NEW d \in LedgerRange(es), d.req.type # Called,
              d.seq <= top, PageEnd = 1 \/ (e.id = es[PageEnd].id /\ e.seq <= d.seq)
       PROVE  d.seq \in reader.seen \cup new
  <2>1. PICK i \in 1 .. n, j \in 1 .. n : e = es[i] /\ d = es[j]
    BY <1>8
  <2>2. PageEnd <= j
    <3>1. PageEnd = 1 \/ i = PageEnd
      BY <1>3, <1>4, <1>17, <2>1
    <3> QED BY <1>3, <1>4, <1>17, <2>1, <3>1
  <2>3. CASE j <= PageStart
    BY <1>3, <1>10, <1>17, <2>1, <2>2, <2>3
  <2>4. CASE j > PageStart
    <3>1. reader.anchor # NoEvent /\ PageStart + 1 <= j
      BY <1>3, <2>1, <2>4
    <3>2. /\ es[PageStart + 1].id = reader.anchor /\ es[PageStart + 1] \in LedgerRange(es)
          /\ es[PageStart + 1].seq <= d.seq /\ d.seq <= reader.top
      BY <1>3, <1>4, <1>5, <1>6, <1>17, <2>1, <3>1
    <3>3. d.seq \in reader.seen
      BY <1>2, <1>9, <1>17, <3>2 DEF PageInv
    <3> QED BY <3>3
  <2> QED BY <1>3, <2>1, <2>3, <2>4
<1>18. PageInv'
  <2>1. reader' \in [top : Nat, anchor : EventId \cup {NoEvent}, seen : SUBSET Nat, done : BOOLEAN]
    <3>1. /\ top \in Nat /\ es[PageEnd].id \in EventId \cup {NoEvent}
          /\ reader.seen \cup new \in SUBSET Nat /\ (PageEnd = 1) \in BOOLEAN
      BY <1>3, <1>5, <1>6, <1>11, <1>14
    <3> HIDE DEF top, new
    <3> QED BY <1>1, <3>1
  <2>2. reader.seen \cup new \subseteq 1 .. top
    BY <1>6, <1>11, <1>14
  <2> HIDE DEF top, new
  <2> QED BY <1>1, <1>3, <1>5, <1>9, <1>11, <1>12, <1>16, <1>17, <2>1, <2>2 DEF PageInv
<1>19. IdsInv'
  <2>1. \A e \in LedgerRange(es) : Spent(e.id)'
    BY <1>1, <1>2, <1>9 DEF IdsInv, Spent, Running
  <2>2. PICK x \in LedgerRange(es) : x = es[PageEnd]
    BY <1>3, <1>5
  <2>3. Spent(x.id)'
    BY <2>1
  <2> QED BY <1>1, <1>9, <1>12, <2>1, <2>2, <2>3 DEF IdsInv, Spent, Running
<1>20. RunInv' /\ CopyInv' /\ AckInv' /\ LedgerPinDurable' /\ Sound(ledger')
  BY <1>1, <1>2 DEF RunInv, Running, CopyInv, AckInv, LedgerPinDurable
<1> QED BY <1>18, <1>19, <1>20 DEF LedgerInv

\* A listing that lost its anchor reports nothing.
LEMMA PageLostKeeps ==
  ASSUME LedgerInv, LedgerPageLost
  PROVE  LedgerInv'
<1>1. /\ reader' = [NoReader EXCEPT !.done = TRUE]
      /\ UNCHANGED <<ledger, ledgerRun, sticky, deliveries, ledgerFaults, ledgerAcked>>
  BY DEF LedgerPageLost
<1>2. reader'.top = 0 /\ reader'.anchor = NoEvent /\ reader'.seen = {}
  BY <1>1 DEF NoReader
<1>3. Sound(ledger) /\ RunInv /\ IdsInv /\ CopyInv /\ AckInv /\ LedgerPinDurable /\ PageInv
  BY DEF LedgerInv
<1>4. /\ ledger.next \in Nat \ {0}
      /\ \A e \in LedgerRange(ledger.entries) : e \in Entry /\ e.seq >= 1 /\ e.id # NoEvent
  <2>1. \A e \in LedgerRange(ledger.entries) : e \in Entry /\ e.seq >= 1
    BY <1>3 DEF Sound, LedgerState, Contiguous, LedgerRange
  <2> QED BY <1>3, <2>1, EntryFields DEF Sound, LedgerState
<1>5. reader' \in [top : Nat, anchor : EventId \cup {NoEvent}, seen : SUBSET Nat, done : BOOLEAN]
  BY <1>1 DEF NoReader
<1>6. PageInv'
  <2>1. \A e \in LedgerRange(ledger.entries) : e.seq \in Nat
    BY <1>4, EntryFields
  <2> QED BY <1>1, <1>2, <1>4, <1>5, <2>1 DEF PageInv
<1>7. IdsInv'
  BY <1>1, <1>2, <1>3 DEF IdsInv, Spent, Running
<1>8. RunInv' /\ CopyInv' /\ AckInv' /\ LedgerPinDurable' /\ Sound(ledger')
  BY <1>1, <1>3 DEF RunInv, Running, CopyInv, AckInv, LedgerPinDurable
<1> QED BY <1>6, <1>7, <1>8 DEF LedgerInv

LEMMA UnchangedKeeps ==
  ASSUME LedgerInv, UNCHANGED ledgerVars
  PROVE  LedgerInv'
<1>1. UNCHANGED <<ledger, ledgerRun, sticky, deliveries, ledgerFaults, ledgerAcked, reader>>
  BY DEF ledgerVars
<1>2. Sound(ledger') /\ RunInv' /\ IdsInv' /\ CopyInv' /\ AckInv' /\ LedgerPinDurable' /\ PageInv'
  BY <1>1 DEF LedgerInv, RunInv, Running, IdsInv, Spent, CopyInv, AckInv, LedgerPinDurable, PageInv
<1> QED BY <1>2 DEF LedgerInv

LEMMA InitialLedger == LedgerInit => LedgerInv
<1> SUFFICES ASSUME LedgerInit PROVE LedgerInv
  OBVIOUS
<1>1. /\ ledger = NewLedger /\ ledgerRun = [r \in LedgerReplica |-> IdleRun]
      /\ sticky = [r \in LedgerReplica |-> NoModel] /\ deliveries = 0 /\ ledgerFaults = 0
      /\ ledgerAcked = {} /\ reader = NoReader
  BY DEF LedgerInit
<1>2. /\ \A r \in LedgerReplica : ledgerRun[r].turn = NoEvent /\ ledgerRun[r].reading
      /\ LedgerRange(ledger.entries) = {} /\ ledger.next = 1
  BY <1>1 DEF IdleRun, NewLedger, LedgerRange
<1>3. Sound(ledger)
  BY <1>1, NewSound
<1>4. RunInv
  BY <1>1, <1>2, NewSound DEF RunInv, Running, ModelOrNone
<1>5. IdsInv /\ PageInv
  BY <1>1, <1>2 DEF IdsInv, PageInv, NoReader
<1>6. CopyInv /\ AckInv /\ LedgerPinDurable
  BY <1>1, <1>2 DEF CopyInv, AckInv, LedgerPinDurable
<1> QED BY <1>3, <1>4, <1>5, <1>6 DEF LedgerInv

LEMMA StepKeeps == LedgerInv /\ [LedgerNext]_ledgerVars => LedgerInv'
<1> SUFFICES ASSUME LedgerInv, [LedgerNext]_ledgerVars
             PROVE  LedgerInv'
  OBVIOUS
<1>1. ASSUME NEW r \in LedgerReplica, NEW t \in LedgerTurn, LedgerDeliver(r, t)
      PROVE  LedgerInv'
  BY <1>1, DeliverKeeps
<1>2. ASSUME NEW r \in LedgerReplica,
             \/ LedgerRead(r) \/ LedgerReplay(r) \/ LedgerRefuse(r) \/ LedgerSwap(r)
             \/ LedgerLose(r) \/ LedgerFault(r) \/ LedgerCrash(r)
      PROVE  LedgerInv'
  BY <1>2, ReadKeeps, ReplayKeeps, RefuseKeeps, SwapKeeps, LoseKeeps, FaultKeeps, CrashKeeps
<1>3. CASE LedgerPage
  BY <1>3, PageKeeps
<1>4. CASE LedgerPageLost
  BY <1>4, PageLostKeeps
<1>5. CASE UNCHANGED ledgerVars
  BY <1>5, UnchangedKeeps
<1> QED BY <1>1, <1>2, <1>3, <1>4, <1>5 DEF LedgerNext

LEMMA LedgerInvariant == LedgerSpec => []LedgerInv
<1> QED BY InitialLedger, StepKeeps, PTL DEF LedgerSpec

-----------------------------------------------------------------------------
LEMMA SoundStates == LedgerInv => LedgerSound /\ LedgerTypeOK
<1> SUFFICES ASSUME LedgerInv PROVE LedgerSound /\ LedgerTypeOK
  OBVIOUS
<1>1. Sound(ledger) /\ RunInv /\ AckInv /\ LedgerPinDurable /\ PageInv
  BY DEF LedgerInv
<1>2. LedgerReadable
  BY <1>1 DEF LedgerReadable, Accepted, Sound, Contiguous, Distinct
<1>3. LedgerBranchesChain
  BY <1>1 DEF LedgerBranchesChain, Sound, Chained
<1>4. LedgerKeepsAcknowledged
  BY <1>1 DEF LedgerKeepsAcknowledged, AckInv
<1>5. LedgerPagesComplete
  BY <1>1 DEF LedgerPagesComplete, PageInv
<1>6. LedgerTypeOK
  <2>1. ASSUME NEW r \in LedgerReplica
        PROVE  /\ sticky[r] \in LedgerModel \cup {NoModel}
               /\ ledgerRun[r].step \in 0 .. 3 /\ ledgerRun[r].tries < LedgerRetries
    BY <1>1, LedgerAssumption DEF RunInv, Run, ModelOrNone
  <2>2. /\ ledger.next \in Nat \ {0} /\ Len(ledger.entries) <= MaxLedgerEvents
        /\ ledger.pinned \in LedgerModel \cup {NoModel}
    BY <1>1 DEF Sound, Contiguous, LedgerState, ModelOrNone
  <2> QED BY <1>1, <2>1, <2>2 DEF LedgerTypeOK, PageInv
<1> QED BY <1>1, <1>2, <1>3, <1>4, <1>5, <1>6 DEF LedgerSound

\* The type invariant of the execution ledger (pkg/executionledger): sequence
\* numbers begin at 1, no more entries are kept than maxEvents, an append is
\* tried at most maxRetries times, and a reader has seen only what was there
\* when it began.
THEOREM LedgerTyped == LedgerSpec => []LedgerTypeOK
<1> QED BY LedgerInvariant, SoundStates, PTL

\* Whatever replicas append, whatever the store's CAS loses, fails after it
\* took effect or evicts: the stored state passes validateState, a branch's
\* events name their predecessors, an acknowledged event stays under its
\* number until maxEvents newer ones, a pin a process claims is in the record,
\* and a reader that paged to the end has seen all (state.go, service.go).
THEOREM LedgerIsSound == LedgerSpec => []LedgerSound
<1> QED BY LedgerInvariant, SoundStates, PTL
=============================================================================
