-------------------------- MODULE SessionLogProofs --------------------------
(***************************************************************************)
(* The event log of a session and who follows it, for any number of        *)
(* publishers, processes, attaches, clear controls and failed commits.     *)
(*                                                                         *)
(* The argument: an append is applied to the stored log only, so a cursor  *)
(* is new when it is given away, and the retained events are the last ones *)
(* of their generation (GoodLog, LogInv).  The publishers of one process   *)
(* take turns from the read of the log to the notification, so the cursors *)
(* a client is sent grow; an event that is neither in the client's buffer  *)
(* nor on its way to it was published elsewhere (BufferInv).               *)
(***************************************************************************)
EXTENDS SessionLog, FiniteSetTheorems, SequenceTheorems, TLAPS

EventOver(M) == {"start", "final"} \X M
LogOver(M) == [gen : Nat, seq : Nat, events : Seq(Nat \X EventOver(M)), proj : Seq(M),
               final : SUBSET M]

\* What decodeEventLogState asks of a log, and that finals are projected.
GoodLog(l) ==
    /\ Len(l.events) <= MaxRetained /\ Len(l.events) <= l.seq
    /\ l.seq > 0 => Len(l.events) > 0
    /\ \A i \in 1 .. Len(l.events) : l.events[i][1] = l.seq - Len(l.events) + i
    /\ Len(l.proj) <= MaxRetained
    /\ \A i, j \in 1 .. Len(l.proj) : l.proj[i] = l.proj[j] => i = j
    /\ \A m \in l.final : \E i \in 1 .. Len(l.proj) : l.proj[i] = m

-----------------------------------------------------------------------------
(* The event log. *)

LEMMA LastOfFacts ==
  ASSUME NEW S, NEW s \in Seq(S), NEW k \in Nat
  PROVE  /\ LastOf(s, k) \in Seq(S)
         /\ Len(LastOf(s, k)) = IF Len(s) > k THEN k ELSE Len(s)
         /\ \A i \in 1 .. Len(LastOf(s, k)) :
               LastOf(s, k)[i] = s[Len(s) - Len(LastOf(s, k)) + i]
         /\ Len(s) <= k => LastOf(s, k) = s
<1> DEFINE a == IF Len(s) > k THEN Len(s) - k + 1 ELSE 1
           t == SubSeq(s, a, Len(s))
<1>1. a \in Nat \ {0} /\ Len(s) \in Nat /\ a <= Len(s) + 1
  OBVIOUS
<1>2. t \in Seq(S) /\ Len(t) = Len(s) - a + 1 /\ \A i \in 1 .. Len(t) : t[i] = s[a + i - 1]
  <2> HIDE DEF a
  <2>1. \A i \in a .. Len(s) : s[i] \in S
    BY <1>1
  <2>2. /\ t \in Seq(S) /\ Len(t) = (IF a <= Len(s) THEN Len(s) - a + 1 ELSE 0)
        /\ \A i \in 1 .. Len(s) - a + 1 : t[i] = s[a + i - 1]
    BY <1>1, <2>1, SubSeqProperties
  <2> QED BY <1>1, <2>2
<1>3. ASSUME Len(s) <= k PROVE t = s
  <2>1. a = 1 /\ Len(t) = Len(s) /\ \A i \in 1 .. Len(s) : t[i] = s[i]
    BY <1>1, <1>2, <1>3
  <2> QED BY <2>1, <1>2, SeqEqual
<1>4. Len(t) = (IF Len(s) > k THEN k ELSE Len(s)) /\ a - 1 = Len(s) - Len(t)
  <2> HIDE DEF t
  <2>1. Len(t) = Len(s) - a + 1
    BY <1>2
  <2> QED BY <1>1, <2>1
<1>5. \A i \in 1 .. Len(t) : t[i] = s[Len(s) - Len(t) + i]
  <2> SUFFICES ASSUME NEW i \in 1 .. Len(t) PROVE t[i] = s[Len(s) - Len(t) + i]
    OBVIOUS
  <2> HIDE DEF t, a
  <2>1. a + i - 1 = Len(s) - Len(t) + i
    BY <1>1, <1>2, <1>4
  <2> QED BY <1>2, <2>1
<1>6. LastOf(s, k) = t
  BY DEF LastOf
<1> HIDE DEF t
<1> QED BY <1>2, <1>3, <1>4, <1>5, <1>6

LEMMA EmptyIsGood ==
  ASSUME NEW M, NEW g \in Nat
  PROVE  EmptyLog(g) \in LogOver(M) /\ GoodLog(EmptyLog(g))
BY EventLogAssumption DEF EmptyLog, LogOver, GoodLog

LEMMA ProjectFacts ==
  ASSUME NEW M, NEW s \in Seq(M), NEW e \in EventOver(M), Len(s) <= MaxRetained,
         \A i, j \in 1 .. Len(s) : s[i] = s[j] => i = j
  PROVE  LET t == Project(s, e)
         IN  /\ t \in Seq(M) /\ Len(t) <= MaxRetained
             /\ \A i, j \in 1 .. Len(t) : t[i] = t[j] => i = j
             /\ \E i \in 1 .. Len(t) : t[i] = e[2]
             /\ Len(s) < MaxRetained \/ (\E i \in 1 .. Len(s) : s[i] = e[2]) =>
                   \A i \in 1 .. Len(s) : \E j \in 1 .. Len(t) : t[j] = s[i]
<1> DEFINE u == Append(s, e[2])
           t == LastOf(u, MaxRetained)
<1>1. e[2] \in M /\ MaxRetained \in Nat \ {0} /\ DOMAIN s = 1 .. Len(s) /\ Len(s) \in Nat
  BY EventLogAssumption DEF EventOver
<1>2. CASE \E i \in 1 .. Len(s) : s[i] = e[2]
  <2>1. Project(s, e) = s
    BY <1>1, <1>2 DEF Project
  <2> QED BY <1>1, <1>2, <2>1
<1>3. CASE ~ \E i \in 1 .. Len(s) : s[i] = e[2]
  <2>1. Project(s, e) = t
    BY <1>1, <1>3 DEF Project
  <2>2. /\ u \in Seq(M) /\ Len(u) = Len(s) + 1 /\ u[Len(s) + 1] = e[2]
        /\ \A i \in 1 .. Len(s) : u[i] = s[i]
    BY <1>1
  <2>3. \A i, j \in 1 .. Len(u) : u[i] = u[j] => i = j
    BY <1>1, <1>3, <2>2
  <2> HIDE DEF u
  <2>4. /\ t \in Seq(M) /\ Len(t) = (IF Len(u) > MaxRetained THEN MaxRetained ELSE Len(u))
        /\ \A i \in 1 .. Len(t) : t[i] = u[Len(u) - Len(t) + i]
        /\ Len(u) <= MaxRetained => t = u
    BY <1>1, <2>2, LastOfFacts
  <2> HIDE DEF t
  <2>5. Len(t) \in Nat /\ Len(t) > 0 /\ Len(t) <= Len(u) /\ Len(t) <= MaxRetained
    BY <1>1, <2>2, <2>4
  <2>6. \A i, j \in 1 .. Len(t) : t[i] = t[j] => i = j
    <3> SUFFICES ASSUME NEW i \in 1 .. Len(t), NEW j \in 1 .. Len(t), t[i] = t[j] PROVE i = j
      OBVIOUS
    <3>1. Len(u) - Len(t) + i \in 1 .. Len(u) /\ Len(u) - Len(t) + j \in 1 .. Len(u)
      BY <1>1, <2>2, <2>5
    <3>2. u[Len(u) - Len(t) + i] = u[Len(u) - Len(t) + j]
      BY <2>4
    <3>3. Len(u) - Len(t) + i = Len(u) - Len(t) + j
      BY <3>1, <3>2, <2>3
    <3> QED BY <3>3, <1>1, <2>2, <2>5
  <2>7. t[Len(t)] = e[2]
    BY <2>2, <2>4, <2>5
  <2>8. Len(s) < MaxRetained => \A i \in 1 .. Len(s) : \E j \in 1 .. Len(t) : t[j] = s[i]
    BY <1>1, <2>2, <2>4
  <2> QED BY <1>3, <2>1, <2>4, <2>5, <2>6, <2>7, <2>8
<1> QED BY <1>2, <1>3

\* An append keeps a log good, and takes the next number.
LEMMA ExtendedFacts ==
  ASSUME NEW M, NEW l \in LogOver(M), GoodLog(l), NEW e \in EventOver(M)
  PROVE  LET x == Extended(l, e)
         IN  /\ x \in LogOver(M) /\ GoodLog(x) /\ x.gen = l.gen /\ x.seq = l.seq + 1
             /\ \A i \in 1 .. Len(x.events) :
                   \/ x.events[i] = <<l.seq + 1, e>>
                   \/ \E j \in 1 .. Len(l.events) : x.events[i] = l.events[j]
<1> DEFINE x == Extended(l, e)
           p == Project(l.proj, e)
           u == Append(l.events, <<l.seq + 1, e>>)
           t == LastOf(u, MaxRetained)
           f == l.final \cup (IF e[1] = "final" THEN {e[2]} ELSE {})
<1>1. /\ MaxRetained \in Nat \ {0} /\ l.gen \in Nat /\ l.seq \in Nat /\ l.proj \in Seq(M)
      /\ l.events \in Seq(Nat \X EventOver(M)) /\ l.final \subseteq M /\ e[2] \in M
      /\ Len(l.events) \in Nat
  BY EventLogAssumption DEF LogOver, EventOver
<1>2. /\ p \in Seq(M) /\ Len(p) <= MaxRetained
      /\ \A i, j \in 1 .. Len(p) : p[i] = p[j] => i = j
  <2> DEFINE s == l.proj
  <2>1. s \in Seq(M) /\ Len(s) <= MaxRetained /\ \A i, j \in 1 .. Len(s) : s[i] = s[j] => i = j
    BY <1>1 DEF GoodLog
  <2>2. p = Project(s, e)
    OBVIOUS
  <2> HIDE DEF p, s
  <2>3. /\ Project(s, e) \in Seq(M) /\ Len(Project(s, e)) <= MaxRetained
        /\ \A i, j \in 1 .. Len(Project(s, e)) : Project(s, e)[i] = Project(s, e)[j] => i = j
    BY <2>1, ProjectFacts
  <2> QED BY <2>2, <2>3
<1>3. /\ u \in Seq(Nat \X EventOver(M)) /\ Len(u) = Len(l.events) + 1
      /\ u[Len(l.events) + 1] = <<l.seq + 1, e>>
      /\ \A i \in 1 .. Len(l.events) : u[i] = l.events[i]
  <2>1. <<l.seq + 1, e>> \in Nat \X EventOver(M)
    BY <1>1
  <2> QED BY <1>1, <2>1
<1>4. /\ t \in Seq(Nat \X EventOver(M))
      /\ Len(t) = (IF Len(u) > MaxRetained THEN MaxRetained ELSE Len(u))
      /\ \A i \in 1 .. Len(t) : t[i] = u[Len(u) - Len(t) + i]
  <2> DEFINE S == Nat \X EventOver(M)
  <2>1. u \in Seq(S) /\ MaxRetained \in Nat
    BY <1>1, <1>3
  <2> HIDE DEF u, S
  <2>2. /\ t \in Seq(S)
        /\ Len(t) = (IF Len(u) > MaxRetained THEN MaxRetained ELSE Len(u))
        /\ \A i \in 1 .. Len(t) : t[i] = u[Len(u) - Len(t) + i]
    BY <2>1, LastOfFacts
  <2> QED BY <2>2 DEF S
<1>5. /\ x.gen = l.gen /\ x.seq = l.seq + 1 /\ x.proj = p /\ x.events = t
      /\ x.final = {m \in f : \E i \in DOMAIN p : p[i] = m}
      /\ x = [gen |-> l.gen, seq |-> l.seq + 1, proj |-> p, events |-> t, final |-> x.final]
  BY DEF Extended
<1>6. x.final \subseteq M /\ \A m \in x.final : \E i \in 1 .. Len(p) : p[i] = m
  <2>1. f \subseteq M
    BY <1>1
  <2> HIDE DEF x, f, p
  <2>2. DOMAIN p = 1 .. Len(p)
    BY <1>2
  <2> QED BY <1>5, <2>1, <2>2
<1> HIDE DEF x, p, u, t, f
<1>7. x \in LogOver(M)
  BY <1>1, <1>2, <1>4, <1>5, <1>6 DEF LogOver
<1>8. Len(t) \in Nat /\ Len(t) > 0 /\ Len(t) <= MaxRetained /\ Len(t) <= l.seq + 1 /\ Len(t) <= Len(u)
  <2> DEFINE n == Len(l.events)
             m == Len(u)
  <2>1. n \in Nat /\ n <= MaxRetained /\ n <= l.seq /\ l.seq \in Nat /\ MaxRetained \in Nat \ {0}
    BY <1>1 DEF GoodLog
  <2>2. m = n + 1 /\ Len(t) = IF m > MaxRetained THEN MaxRetained ELSE m
    BY <1>3, <1>4
  <2> HIDE DEF n, m
  <2>3. Len(t) \in Nat /\ Len(t) > 0 /\ Len(t) <= MaxRetained /\ Len(t) <= l.seq + 1 /\ Len(t) <= m
    BY <2>1, <2>2
  <2> QED BY <2>3 DEF m
<1>9. \A i \in 1 .. Len(t) :
          /\ t[i][1] = l.seq + 1 - Len(t) + i
          /\ t[i] = <<l.seq + 1, e>> \/ \E j \in 1 .. Len(l.events) : t[i] = l.events[j]
  <2> SUFFICES ASSUME NEW i \in 1 .. Len(t)
               PROVE  /\ t[i][1] = l.seq + 1 - Len(t) + i
                      /\ t[i] = <<l.seq + 1, e>> \/ \E j \in 1 .. Len(l.events) : t[i] = l.events[j]
    OBVIOUS
  <2> DEFINE k == Len(u) - Len(t) + i
  <2>1. t[i] = u[k] /\ k \in 1 .. Len(u)
    BY <1>3, <1>4, <1>8, SMTT(30)
  <2>n. /\ Len(u) = Len(l.events) + 1 /\ Len(l.events) \in Nat /\ Len(t) \in Nat /\ i \in Nat
        /\ k = Len(l.events) + 1 - Len(t) + i /\ l.seq \in Nat
    BY <1>1, <1>3, <1>8
  <2> HIDE DEF k
  <2>2. CASE k = Len(l.events) + 1
    <3>1. t[i] = <<l.seq + 1, e>>
      BY <1>3, <2>1, <2>2
    <3>2. i = Len(t)
      BY <2>n, <2>2
    <3> QED BY <2>n, <3>1, <3>2
  <2>3. CASE k # Len(l.events) + 1
    <3>1. k \in 1 .. Len(l.events)
      BY <2>n, <2>1, <2>3
    <3>2. t[i] = l.events[k]
      BY <1>3, <2>1, <3>1
    <3>3. l.events[k][1] = l.seq - Len(l.events) + k
      BY <3>1 DEF GoodLog
    <3>5. l.seq - Len(l.events) + k = l.seq + 1 - Len(t) + i
      BY <2>n
    <3>4. t[i][1] = l.seq + 1 - Len(t) + i
      BY <3>2, <3>3, <3>5
    <3> QED BY <3>1, <3>2, <3>4
  <2> QED BY <2>2, <2>3
<1>10. GoodLog(x)
  <2>1. /\ Len(x.events) <= MaxRetained /\ Len(x.events) <= x.seq /\ Len(x.events) > 0
        /\ \A i \in 1 .. Len(x.events) : x.events[i][1] = x.seq - Len(x.events) + i
    BY <1>1, <1>5, <1>8, <1>9
  <2>2. /\ Len(x.proj) <= MaxRetained
        /\ \A i, j \in 1 .. Len(x.proj) : x.proj[i] = x.proj[j] => i = j
        /\ \A m \in x.final : \E i \in 1 .. Len(x.proj) : x.proj[i] = m
    BY <1>2, <1>5, <1>6
  <2> QED BY <2>1, <2>2 DEF GoodLog
<1> QED BY <1>5, <1>7, <1>9, <1>10 DEF x

\* As long as the projection has room for all messages nothing final leaves.
Fits(M) == IsFiniteSet(M) /\ Cardinality(M) <= MaxRetained

LEMMA FinalsStay ==
  ASSUME NEW M, Fits(M), NEW l \in LogOver(M), GoodLog(l), NEW e \in EventOver(M)
  PROVE  Extended(l, e).final = l.final \cup (IF e[1] = "final" THEN {e[2]} ELSE {})
<1> DEFINE s == l.proj
           t == Project(s, e)
<1>1. /\ s \in Seq(M) /\ Len(s) \in Nat /\ e[2] \in M /\ MaxRetained \in Nat
      /\ Len(s) <= MaxRetained /\ \A i, j \in 1 .. Len(s) : s[i] = s[j] => i = j
      /\ \A m \in l.final : \E i \in 1 .. Len(s) : s[i] = m
  BY EventLogAssumption DEF LogOver, EventOver, GoodLog
<1>2. Len(s) < MaxRetained \/ \E i \in 1 .. Len(s) : s[i] = e[2]
  <2> SUFFICES ASSUME ~ \E i \in 1 .. Len(s) : s[i] = e[2] PROVE Len(s) < MaxRetained
    OBVIOUS
  <2> DEFINE R == M \ {e[2]}
             g == [i \in 1 .. Len(s) |-> s[i]]
  <2>1. IsFiniteSet(R) /\ Cardinality(R) = Cardinality(M) - 1 /\ Cardinality(M) \in Nat
    BY <1>1, FS_RemoveElement, FS_CardinalityType DEF Fits
  <2>2. g \in [1 .. Len(s) -> R] /\ \A i, j \in 1 .. Len(s) : g[i] = g[j] => i = j
    BY <1>1
  <2>3. g \in Injection(1 .. Len(s), R)
    BY <2>2 DEF Injection, IsInjective
  <2>4. Cardinality(1 .. Len(s)) <= Cardinality(R)
    BY <2>1, <2>3, FS_Injection
  <2>5. Cardinality(1 .. Len(s)) = Len(s)
    <3> PICK n : n = Len(s)
      OBVIOUS
    <3>1. n \in Nat
      BY <1>1
    <3>2. 1 \in Int /\ n \in Int
      BY <3>1
    <3>3. Cardinality(1 .. n) = IF 1 > n THEN 0 ELSE n - 1 + 1
      BY <3>2, FS_Interval
    <3>4. Cardinality(1 .. n) = n
      BY <3>1, <3>3
    <3> QED BY <3>4
  <2> QED BY <1>1, <2>1, <2>4, <2>5 DEF Fits
<1>3. /\ t \in Seq(M) /\ \E i \in 1 .. Len(t) : t[i] = e[2]
      /\ \A i \in 1 .. Len(s) : \E j \in 1 .. Len(t) : t[j] = s[i]
  <2> HIDE DEF s
  <2>1. t = Project(s, e)
    OBVIOUS
  <2> HIDE DEF t
  <2>2. /\ Project(s, e) \in Seq(M) /\ \E i \in 1 .. Len(Project(s, e)) : Project(s, e)[i] = e[2]
        /\ \A i \in 1 .. Len(s) : \E j \in 1 .. Len(Project(s, e)) : Project(s, e)[j] = s[i]
    BY <1>1, <1>2, ProjectFacts
  <2> QED BY <2>1, <2>2
<1>4. \A m \in l.final \cup {e[2]} : \E i \in DOMAIN t : t[i] = m
  <2> SUFFICES ASSUME NEW m \in l.final \cup {e[2]} PROVE \E i \in 1 .. Len(t) : t[i] = m
    BY <1>3
  <2> HIDE DEF s, t
  <2>1. CASE m = e[2]
    BY <1>3, <2>1
  <2>2. CASE m \in l.final
    <3>1. PICK i \in 1 .. Len(s) : s[i] = m
      BY <1>1, <2>2
    <3> QED BY <1>3, <3>1
  <2> QED BY <2>1, <2>2
<1> QED BY <1>4 DEF Extended

\* A complete replay has the events after the cursor, and all of them.
LEMMA ReplayFacts ==
  ASSUME NEW M, NEW l \in LogOver(M), GoodLog(l), NEW after \in Nat \X Nat
  PROVE  LET r == Replay(l, after)
         IN  /\ r \in {"unavailable", "complete", "partial"} \X SUBSET (Nat \X EventOver(M))
             /\ r[1] = "complete" =>
                   /\ after[1] = l.gen /\ after[2] <= l.seq
                   /\ r[2] = {l.events[i] : i \in {j \in 1 .. Len(l.events) : l.events[j][1] > after[2]}}
                   /\ \A k \in after[2] + 1 .. l.seq : \E i \in 1 .. Len(l.events) : l.events[i][1] = k
<1> DEFINE r == Replay(l, after)
           later == {l.events[i] : i \in {j \in 1 .. Len(l.events) : l.events[j][1] > after[2]}}
<1>1. /\ l.seq \in Nat /\ l.events \in Seq(Nat \X EventOver(M)) /\ Len(l.events) \in Nat
      /\ DOMAIN l.events = 1 .. Len(l.events) /\ after[1] \in Nat /\ after[2] \in Nat
      /\ Len(l.events) <= l.seq
      /\ \A i \in 1 .. Len(l.events) : l.events[i][1] = l.seq - Len(l.events) + i
  BY DEF LogOver, GoodLog
<1>2. later \subseteq Nat \X EventOver(M)
  BY <1>1
<1>3. CASE after[1] # l.gen \/ after[2] > l.seq
  <2>1. r = <<"unavailable", {}>>
    BY <1>3 DEF Replay
  <2> QED BY <2>1
<1>4. CASE after[1] = l.gen /\ after[2] = l.seq
  <2>1. r = <<"complete", {}>>
    BY <1>1, <1>4 DEF Replay
  <2>2. later = {}
    BY <1>1, <1>4
  <2> QED BY <1>1, <1>4, <2>1, <2>2
<1>5. CASE after[1] = l.gen /\ after[2] < l.seq
  <2> DEFINE status == IF l.events # <<>> /\ after[2] + 1 < l.events[1][1]
                       THEN "partial" ELSE "complete"
             shown == {l.events[i] : i \in {j \in DOMAIN l.events : l.events[j][1] > after[2]}}
  <2>0. ~(after[1] # l.gen \/ after[2] > l.seq) /\ after[2] # l.seq
    BY <1>1, <1>5
  <2>a. r = <<status, shown>>
    BY <2>0 DEF Replay
  <2>b. shown = later
    BY <1>1
  <2> HIDE DEF r, shown, later
  <2>1. /\ r[2] = later /\ r = <<r[1], r[2]>> /\ r[1] \in {"complete", "partial"}
        /\ r[1] = "complete" => ~(l.events # <<>> /\ after[2] + 1 < l.events[1][1])
    BY <2>a, <2>b
  <2>2. ASSUME r[1] = "complete", NEW k \in after[2] + 1 .. l.seq
        PROVE  \E i \in 1 .. Len(l.events) : l.events[i][1] = k
    <3>1. Len(l.events) > 0
      BY <1>1, <1>5 DEF GoodLog
    <3>2. l.events[1][1] = l.seq - Len(l.events) + 1 /\ l.events # <<>>
      BY <1>1, <3>1
    <3>3. after[2] + 1 >= l.seq - Len(l.events) + 1
      BY <1>1, <2>1, <2>2, <3>2
    <3>4. k - (l.seq - Len(l.events)) \in 1 .. Len(l.events)
      BY <1>1, <2>2, <3>3, SMTT(30)
    <3> DEFINE i == k - (l.seq - Len(l.events))
    <3>5. l.events[i][1] = l.seq - Len(l.events) + i
      BY <1>1, <3>4
    <3>6. l.seq - Len(l.events) + i = k
      BY <1>1, <2>2
    <3> QED BY <3>4, <3>5, <3>6
  <2>3. /\ r \in {"unavailable", "complete", "partial"} \X SUBSET (Nat \X EventOver(M))
        /\ r[1] = "complete" =>
              /\ after[1] = l.gen /\ after[2] <= l.seq /\ r[2] = later
              /\ \A k \in after[2] + 1 .. l.seq : \E i \in 1 .. Len(l.events) : l.events[i][1] = k
    BY <1>1, <1>2, <1>5, <2>1, <2>2
  <2> QED BY <2>3 DEF r, later
<1> QED BY <1>1, <1>3, <1>4, <1>5

-----------------------------------------------------------------------------
(* The log that processes share. *)

SessEvents == EventOver(SessPublisher)
SessLogs == LogOver(SessPublisher)
Publisher == [pc : {"begin", "start", "start_swap", "start_notify", "final", "final_swap",
                    "final_notify", "save", "done", "failed"},
              prev : SessLogs, mem : SUBSET SessPublisher]
Client == [pc : {"off", "subscribed", "loaded", "captured", "live", "refused"},
           history : SUBSET SessPublisher, view : SUBSET SessPublisher, gen : Nat, seq : Nat,
           pending : Seq(Nat \X Nat), overflow : BOOLEAN, sent : Seq(Nat \X Nat),
           resume : Nat \X Nat,
           replay : {"none", "unavailable", "complete", "partial"} \X SUBSET (Nat \X SessEvents)]

TypeInv ==
    /\ log \in SessLogs /\ transcript \in SUBSET SessPublisher
    /\ publisher \in [SessPublisher -> Publisher] /\ client \in Client
    /\ clearing \in [pc : {"idle", "swap", "delete"}, prev : SessLogs]
    /\ past \in SUBSET (Nat \X Nat \X SessEvents) /\ missed \in SUBSET (Nat \X Nat)

\* A cursor is given once, in order, and the log has the last of them.
LogInv ==
    /\ GoodLog(log)
    /\ \A a \in past :
          /\ a[2] > 0 /\ (a[1] < log.gen \/ (a[1] = log.gen /\ a[2] <= log.seq))
          /\ \A k \in 1 .. a[2] : \E b \in past : b[1] = a[1] /\ b[2] = k
    /\ \A a, b \in past : a[1] = b[1] /\ a[2] = b[2] => a = b
    /\ log.seq > 0 => \E b \in past : b[1] = log.gen /\ b[2] = log.seq
    /\ \A i \in 1 .. Len(log.events) :
          <<log.gen, log.events[i][1], log.events[i][2]>> \in past

Busy(p) == Swapping(p) \/ Notifying(p)

LaneInv ==
    \A p, q \in SessPublisher :
        Busy(p) /\ Busy(q) /\ replicaOf[p] = replicaOf[q] => p = q

\* The cursor of the snapshot was reached by the log.
ClientInv ==
    /\ client.gen < log.gen \/ (client.gen = log.gen /\ client.seq <= log.seq)
    /\ client.pc \in {"subscribed", "loaded"} => client.replay[1] = "none"
    /\ SessReplayExact

BufferOf(c) == IF c.pc = "live" THEN c.sent ELSE c.pending
Cursor(p) == <<publisher[p].prev.gen, publisher[p].prev.seq + 1>>
AtClient(p) == Notifying(p) /\ replicaOf[p] = SessClientAt
Given(at) == \E a \in past : a[1] = at[1] /\ a[2] = at[2]

\* An event after the snapshot was published elsewhere, has been buffered or
\* sent, or is about to be.
Accounted(at) ==
    \/ at \in missed
    \/ \E i \in 1 .. Len(BufferOf(client)) : BufferOf(client)[i] = at
    \/ \E p \in SessPublisher : AtClient(p) /\ Cursor(p) = at

BufferInv ==
    /\ \A p \in SessPublisher : Notifying(p) => Given(Cursor(p))
    /\ \A i \in 1 .. Len(BufferOf(client)) :
          /\ Given(BufferOf(client)[i])
          /\ \A j \in 1 .. Len(BufferOf(client)) :
                i < j => Earlier(BufferOf(client)[i], BufferOf(client)[j])
          /\ \A p \in SessPublisher : AtClient(p) => Earlier(BufferOf(client)[i], Cursor(p))
    /\ client.pc = "live" => ~client.overflow
    /\ client.pc \in {"captured", "live"} /\ ~client.overflow =>
          \A a \in past : a[1] = client.gen /\ a[2] > client.seq => Accounted(<<a[1], a[2]>>)
    /\ Len(client.pending) <= AttachBuffer

SessInv == TypeInv /\ LogInv /\ LaneInv /\ ClientInv /\ BufferInv

LEMMA EventOfTyped ==
  ASSUME NEW p \in SessPublisher PROVE EventOf(p) \in SessEvents
BY DEF EventOf, SessEvents, EventOver

\* What an append to the stored log does.
LEMMA AppendKeeps ==
  ASSUME TypeInv, LogInv, NEW p \in SessPublisher, log = publisher[p].prev, Applied(p)
  PROVE  /\ LogInv' /\ log' \in SessLogs /\ past' \in SUBSET (Nat \X Nat \X SessEvents)
         /\ log'.gen = log.gen /\ log'.seq = log.seq + 1
         /\ past' = past \cup {<<log.gen, log.seq + 1, EventOf(p)>>}
         /\ <<log'.gen, log'.seq>> \in Nat \X Nat
<1> DEFINE e == EventOf(p)
           new == <<log.gen, log.seq + 1, e>>
<1>1. /\ e \in EventOver(SessPublisher) /\ log \in LogOver(SessPublisher) /\ GoodLog(log)
      /\ log.gen \in Nat /\ log.seq \in Nat /\ e \in SessEvents
      /\ past \subseteq Nat \X Nat \X SessEvents
  BY EventOfTyped DEF SessEvents, SessLogs, TypeInv, LogInv, LogOver
<1>2. log' = Extended(log, e)
  BY DEF Applied
<1> HIDE DEF e
<1>3. /\ log' \in SessLogs /\ GoodLog(log') /\ log'.gen = log.gen /\ log'.seq = log.seq + 1
      /\ \A i \in 1 .. Len(log'.events) :
            \/ log'.events[i] = <<log.seq + 1, e>>
            \/ \E j \in 1 .. Len(log.events) : log'.events[i] = log.events[j]
  <2> DEFINE x == Extended(log, e)
  <2>1. /\ x \in LogOver(SessPublisher) /\ GoodLog(x) /\ x.gen = log.gen /\ x.seq = log.seq + 1
        /\ \A i \in 1 .. Len(x.events) :
              \/ x.events[i] = <<log.seq + 1, e>>
              \/ \E j \in 1 .. Len(log.events) : x.events[i] = log.events[j]
    BY <1>1, ExtendedFacts, SMTT(30)
  <2>2. log' = x
    BY <1>2
  <2> HIDE DEF x
  <2> QED BY <2>1, <2>2 DEF SessLogs
<1>4. past' = past \cup {new} /\ new \in Nat \X Nat \X SessEvents
  BY <1>1, <1>2, <1>3 DEF Applied, e
<1>5. \A a \in past : a[1] \in Nat /\ a[2] \in Nat
  BY <1>1
<1>6. \A a \in past' :
         /\ a[2] > 0 /\ (a[1] < log'.gen \/ (a[1] = log'.gen /\ a[2] <= log'.seq))
         /\ \A k \in 1 .. a[2] : \E b \in past' : b[1] = a[1] /\ b[2] = k
  <2> SUFFICES ASSUME NEW a \in past'
               PROVE  /\ a[2] > 0 /\ (a[1] < log'.gen \/ (a[1] = log'.gen /\ a[2] <= log'.seq))
                      /\ \A k \in 1 .. a[2] : \E b \in past' : b[1] = a[1] /\ b[2] = k
    OBVIOUS
  <2>1. CASE a \in past
    BY <1>1, <1>3, <1>4, <1>5, <2>1 DEF LogInv
  <2>2. CASE a = new
    <3>1. a[1] = log.gen /\ a[2] = log.seq + 1
      BY <2>2
    <3>2. ASSUME NEW k \in 1 .. log.seq PROVE \E b \in past : b[1] = log.gen /\ b[2] = k
      <4>1. log.seq > 0
        BY <1>1
      <4>2. PICK b \in past : b[1] = log.gen /\ b[2] = log.seq
        BY <4>1 DEF LogInv
      <4> QED BY <4>2 DEF LogInv
    <3>3. ASSUME NEW k \in 1 .. log.seq + 1
          PROVE  \E b \in past' : b[1] = log.gen /\ b[2] = k
      <4>1. CASE k = log.seq + 1
        BY <1>4, <4>1
      <4>2. CASE k # log.seq + 1
        BY <1>1, <1>4, <3>2, <4>2
      <4> QED BY <4>1, <4>2
    <3> QED BY <1>1, <1>3, <3>1, <3>3
  <2> QED BY <1>4, <2>1, <2>2
<1>7. ASSUME NEW a \in past', NEW b \in past', a[1] = b[1], a[2] = b[2] PROVE a = b
  <2>1. \A c \in past : ~(c[1] = log.gen /\ c[2] = log.seq + 1)
    BY <1>1, <1>5 DEF LogInv
  <2>2. new[1] = log.gen /\ new[2] = log.seq + 1
    OBVIOUS
  <2> QED BY <1>4, <1>7, <2>1, <2>2 DEF LogInv
<1>8. \E b \in past' : b[1] = log'.gen /\ b[2] = log'.seq
  BY <1>3, <1>4
<1>9. ASSUME NEW i \in 1 .. Len(log'.events)
      PROVE  <<log'.gen, log'.events[i][1], log'.events[i][2]>> \in past'
  <2>1. CASE log'.events[i] = <<log.seq + 1, e>>
    BY <1>3, <1>4, <2>1
  <2>2. CASE \E j \in 1 .. Len(log.events) : log'.events[i] = log.events[j]
    BY <1>3, <1>4, <2>2 DEF LogInv
  <2> QED BY <1>3, <2>1, <2>2
<1>10. LogInv'
  BY <1>3, <1>6, <1>7, <1>8, <1>9 DEF LogInv
<1> QED BY <1>1, <1>3, <1>4, <1>10 DEF e

\* A snapshot's replay and cursor stay right when the log is appended to.
LEMMA AppendKeepsClient ==
  ASSUME TypeInv, LogInv, ClientInv, NEW p \in SessPublisher, log = publisher[p].prev,
         Applied(p), client' = client
  PROVE  ClientInv'
<1>1. /\ log'.gen = log.gen /\ log'.seq = log.seq + 1
      /\ past' = past \cup {<<log.gen, log.seq + 1, EventOf(p)>>}
  BY AppendKeeps
<1>2. log.gen \in Nat /\ log.seq \in Nat /\ client.gen \in Nat /\ client.seq \in Nat
  BY DEF TypeInv, SessLogs, LogOver, Client
<1>3. client.gen < log'.gen \/ (client.gen = log'.gen /\ client.seq <= log'.seq)
  BY <1>1, <1>2 DEF ClientInv
<1>4. {a \in past' : a[1] = client.gen /\ client.resume[2] < a[2] /\ a[2] <= client.seq}
        = {a \in past : a[1] = client.gen /\ client.resume[2] < a[2] /\ a[2] <= client.seq}
  <2> DEFINE new == <<log.gen, log.seq + 1, EventOf(p)>>
  <2>1. ~(new[1] = client.gen /\ new[2] <= client.seq)
    BY <1>2 DEF ClientInv
  <2> QED BY <1>1, <2>1
<1> QED BY <1>3, <1>4 DEF ClientInv, SessReplayExact

LEMMA InitialSession == SessInit => SessInv
<1> SUFFICES ASSUME SessInit PROVE SessInv
  OBVIOUS
<1> DEFINE l == EmptyLog(1)
<1>1. l \in SessLogs /\ GoodLog(l) /\ l.gen = 1 /\ l.seq = 0 /\ Len(l.events) = 0
  BY EmptyIsGood DEF SessLogs, EmptyLog
<1> HIDE DEF l
<1>2. NoClient \in Client /\ NoClient.gen = 0 /\ NoClient.pc = "off"
      /\ Len(NoClient.pending) = 0 /\ NoClient.replay[1] = "none"
  BY DEF NoClient, Client
<1>3. /\ log = l /\ past = {} /\ missed = {} /\ client = NoClient /\ transcript = {}
      /\ publisher = [p \in SessPublisher |-> [pc |-> "begin", prev |-> l, mem |-> {}]]
      /\ clearing = [pc |-> "idle", prev |-> l]
  BY DEF SessInit, l
<1>4. TypeInv
  BY <1>1, <1>2, <1>3 DEF TypeInv, Publisher
<1>5. LogInv
  BY <1>1, <1>3 DEF LogInv
<1>6. LaneInv
  BY <1>3 DEF LaneInv, Busy, Swapping, Notifying
<1>7. ClientInv
  BY <1>1, <1>2, <1>3 DEF ClientInv, SessReplayExact
<1>8. BufferInv
  <2>1. \A p \in SessPublisher : ~Notifying(p)
    BY <1>3 DEF Notifying
  <2>2. BufferOf(client) = client.pending
    BY <1>2, <1>3 DEF BufferOf
  <2> QED BY <1>2, <1>3, <2>1, <2>2, SessAssumption DEF BufferInv
<1> QED BY <1>4, <1>5, <1>6, <1>7, <1>8 DEF SessInv

-----------------------------------------------------------------------------
(* Publishers. *)

\* Step pc of one publisher, which leaves the others alone.
LEMMA PublisherMoves ==
  ASSUME TypeInv, NEW p \in SessPublisher, NEW f \in Publisher,
         publisher' = [publisher EXCEPT ![p] = f]
  PROVE  /\ publisher' \in [SessPublisher -> Publisher] /\ publisher'[p] = f
         /\ \A q \in SessPublisher \ {p} : publisher'[q] = publisher[q]
BY DEF TypeInv

LEMMA ToMoves ==
  ASSUME TypeInv, NEW p \in SessPublisher, NEW pc, To(p, pc),
         pc \in {"start", "start_notify", "final", "final_notify", "save", "done", "failed"}
  PROVE  /\ publisher' \in [SessPublisher -> Publisher] /\ publisher'[p].pc = pc
         /\ publisher'[p].prev = publisher[p].prev
         /\ \A q \in SessPublisher \ {p} : publisher'[q] = publisher[q]
<1> DEFINE f == [publisher[p] EXCEPT !.pc = pc]
<1>1. publisher[p] \in Publisher
  BY DEF TypeInv
<1>2. f \in Publisher /\ f.pc = pc /\ f.prev = publisher[p].prev
  BY <1>1 DEF Publisher
<1>3. publisher' = [publisher EXCEPT ![p] = f]
  BY DEF To, TypeInv
<1> HIDE DEF f
<1> QED BY <1>2, <1>3, PublisherMoves

\* One publisher takes the lane only when it is free.
LEMMA LaneKept ==
  ASSUME LaneInv, NEW p \in SessPublisher, replicaOf' = replicaOf,
         \A q \in SessPublisher \ {p} : publisher'[q] = publisher[q],
         Busy(p)' => Busy(p) \/ LaneFree(p)
  PROVE  LaneInv'
<1>1. \A q \in SessPublisher \ {p} : Busy(q)' <=> Busy(q)
  BY DEF Busy, Swapping, Notifying
<1>2. LaneFree(p) => \A q \in SessPublisher \ {p} : replicaOf[q] = replicaOf[p] => ~Busy(q)
  BY DEF LaneFree, Busy
<1> SUFFICES ASSUME NEW q \in SessPublisher, NEW r \in SessPublisher, Busy(q)', Busy(r)',
                    replicaOf[q] = replicaOf[r], q # r
             PROVE  FALSE
  BY DEF LaneInv
<1>3. q = p \/ r = p
  BY <1>1 DEF LaneInv
<1> QED BY <1>1, <1>2, <1>3 DEF LaneInv

\* The buffer when neither it nor what is on its way to it changes.
LEMMA BufferQuiet ==
  ASSUME BufferInv, client' = client, past' = past, missed' = missed, replicaOf' = replicaOf,
         \A q \in SessPublisher :
            /\ Notifying(q)' <=> Notifying(q)
            /\ Notifying(q) => Cursor(q)' = Cursor(q)
  PROVE  BufferInv'
<1>1. \A at : Given(at)' <=> Given(at)
  BY DEF Given
<1>2. \A q \in SessPublisher : AtClient(q)' <=> AtClient(q)
  BY DEF AtClient
<1>3. \A at : Accounted(at) => Accounted(at)'
  <2> SUFFICES ASSUME NEW at, Accounted(at) PROVE Accounted(at)'
    OBVIOUS
  <2>1. BufferOf(client)' = BufferOf(client)
    BY DEF BufferOf
  <2>2. ASSUME NEW q \in SessPublisher, AtClient(q), Cursor(q) = at
        PROVE  AtClient(q)' /\ Cursor(q)' = at
    BY <1>2, <2>2 DEF AtClient
  <2> QED BY <2>1, <2>2 DEF Accounted
<1>4. BufferOf(client)' = BufferOf(client)
  BY DEF BufferOf
<1>5. \A q \in SessPublisher : Notifying(q)' => Given(Cursor(q))'
  <2> SUFFICES ASSUME NEW q \in SessPublisher, Notifying(q)' PROVE Given(Cursor(q))'
    OBVIOUS
  <2>1. Given(Cursor(q)) /\ Cursor(q)' = Cursor(q)
    BY DEF BufferInv
  <2> QED BY <2>1 DEF Given
<1>6. ASSUME NEW i \in 1 .. Len(BufferOf(client))
      PROVE  /\ Given(BufferOf(client)[i])'
             /\ \A q \in SessPublisher : AtClient(q)' => Earlier(BufferOf(client)[i], Cursor(q)')
  <2>1. Given(BufferOf(client)[i])
    BY DEF BufferInv
  <2>2. Given(BufferOf(client)[i])'
    BY <1>4, <2>1 DEF Given
  <2>3. ASSUME NEW q \in SessPublisher, AtClient(q)'
        PROVE  Earlier(BufferOf(client)[i], Cursor(q)')
    <3>1. AtClient(q) /\ Cursor(q)' = Cursor(q)
      BY <1>2, <2>3 DEF AtClient
    <3> QED BY <3>1 DEF BufferInv
  <2> QED BY <2>2, <2>3
<1>7. ASSUME NEW i \in 1 .. Len(BufferOf(client)), NEW j \in 1 .. Len(BufferOf(client)), i < j
      PROVE  Earlier(BufferOf(client)[i], BufferOf(client)[j])
  BY <1>7 DEF BufferInv
<1>8. client.pc \in {"captured", "live"} /\ ~client.overflow =>
          \A a \in past : a[1] = client.gen /\ a[2] > client.seq => Accounted(<<a[1], a[2]>>)'
  BY <1>3 DEF BufferInv
<1>9. Len(client.pending) <= AttachBuffer /\ (client.pc = "live" => ~client.overflow)
  BY DEF BufferInv
<1> HIDE DEF Given, Accounted, AtClient, Cursor, Earlier
<1> QED BY <1>4, <1>5, <1>6, <1>7, <1>8, <1>9 DEF BufferInv

LEMMA LogStays ==
  ASSUME LogInv, log' = log, past' = past
  PROVE  LogInv'
BY DEF LogInv, GoodLog

LEMMA LogQuiet ==
  ASSUME LogInv, ClientInv, log' = log, client' = client, past' = past
  PROVE  LogInv' /\ ClientInv'
<1>1. LogInv'
  BY LogStays
<1>2. ClientInv'
  BY DEF ClientInv, SessReplayExact
<1> QED BY <1>1, <1>2

LEMMA BeginKeeps ==
  ASSUME SessInv, NEW p \in SessPublisher, SessBegin(p) PROVE SessInv'
<1> DEFINE f == [publisher[p] EXCEPT !.pc = "start", !.mem = transcript]
<1>1. publisher[p] \in Publisher /\ publisher[p].pc = "begin" /\ TypeInv
  BY DEF SessInv, TypeInv, SessBegin
<1>2. f \in Publisher /\ f.pc = "start"
  BY <1>1 DEF Publisher, TypeInv
<1>3. publisher' = [publisher EXCEPT ![p] = f]
  BY <1>1 DEF SessBegin, TypeInv
<1> HIDE DEF f
<1>4. /\ publisher' \in [SessPublisher -> Publisher] /\ publisher'[p] = f
      /\ \A q \in SessPublisher \ {p} : publisher'[q] = publisher[q]
  BY <1>1, <1>2, <1>3, PublisherMoves
<1>5. UNCHANGED <<log, transcript, client, clearing, past, missed, replicaOf>>
  BY DEF SessBegin
<1>6. TypeInv'
  BY <1>4, <1>5 DEF SessInv, TypeInv
<1>7. ~Busy(p)'
  BY <1>2, <1>4 DEF Busy, Swapping, Notifying
<1>8. LaneInv'
  BY <1>4, <1>5, <1>7, LaneKept DEF SessInv
<1>9. BufferInv'
  BY <1>1, <1>2, <1>4, <1>5, BufferQuiet DEF SessInv, Notifying, Cursor
<1>10. LogInv' /\ ClientInv'
  BY <1>5, LogQuiet DEF SessInv
<1> QED BY <1>6, <1>8, <1>9, <1>10 DEF SessInv

LEMMA ReadKeeps ==
  ASSUME SessInv, NEW p \in SessPublisher, SessRead(p) PROVE SessInv'
<1> DEFINE pc == IF publisher[p].pc = "start" THEN "start_swap" ELSE "final_swap"
           f == [publisher[p] EXCEPT !.prev = log, !.pc = pc]
<1>1. publisher[p] \in Publisher /\ publisher[p].pc \in {"start", "final"} /\ TypeInv
  BY DEF SessInv, TypeInv, SessRead
<1>2. f \in Publisher /\ f.pc \in {"start_swap", "final_swap"}
  BY <1>1 DEF Publisher, TypeInv
<1>3. publisher' = [publisher EXCEPT ![p] = f]
  BY <1>1 DEF SessRead, TypeInv
<1> HIDE DEF f, pc
<1>4. /\ publisher' \in [SessPublisher -> Publisher] /\ publisher'[p] = f
      /\ \A q \in SessPublisher \ {p} : publisher'[q] = publisher[q]
  BY <1>1, <1>2, <1>3, PublisherMoves
<1>5. UNCHANGED <<log, transcript, client, clearing, past, missed, replicaOf>> /\ LaneFree(p)
  BY DEF SessRead
<1>6. TypeInv'
  BY <1>4, <1>5 DEF SessInv, TypeInv
<1>8. LaneInv'
  BY <1>4, <1>5, LaneKept DEF SessInv
<1>9. BufferInv'
  BY <1>1, <1>2, <1>4, <1>5, BufferQuiet DEF SessInv, Notifying, Cursor
<1>10. LogInv' /\ ClientInv'
  BY <1>5, LogQuiet DEF SessInv
<1> QED BY <1>6, <1>8, <1>9, <1>10 DEF SessInv

LEMMA SaveKeeps ==
  ASSUME SessInv, NEW p \in SessPublisher, SessSave(p) PROVE SessInv'
<1>1. publisher[p] \in Publisher /\ publisher[p].pc = "save" /\ TypeInv /\ To(p, "done")
  BY DEF SessInv, TypeInv, SessSave
<1>4. /\ publisher' \in [SessPublisher -> Publisher] /\ publisher'[p].pc = "done"
      /\ \A q \in SessPublisher \ {p} : publisher'[q] = publisher[q]
  BY <1>1, ToMoves
<1>5. UNCHANGED <<log, client, clearing, past, missed, replicaOf>>
      /\ transcript' \in SUBSET SessPublisher
  BY <1>1 DEF SessSave, Publisher
<1>6. TypeInv'
  BY <1>4, <1>5 DEF SessInv, TypeInv
<1>7. ~Busy(p)'
  BY <1>4 DEF Busy, Swapping, Notifying
<1>8. LaneInv'
  BY <1>4, <1>5, <1>7, LaneKept DEF SessInv
<1>9. BufferInv'
  BY <1>1, <1>4, <1>5, BufferQuiet DEF SessInv, Notifying, Cursor
<1>10. LogInv' /\ ClientInv'
  BY <1>5, LogQuiet DEF SessInv
<1> QED BY <1>6, <1>8, <1>9, <1>10 DEF SessInv

LEMMA NextNotifyPc ==
  ASSUME NEW p
  PROVE  NextNotify(p) \in {"start_notify", "final_notify"}
BY DEF NextNotify

\* An event that was given its cursor after what the buffer holds.
LEMMA BufferAfterAppend ==
  ASSUME SessInv, NEW p \in SessPublisher, log = publisher[p].prev, Applied(p), Swapping(p),
         client' = client, replicaOf' = replicaOf, TypeInv',
         publisher'[p].prev = publisher[p].prev,
         \A q \in SessPublisher \ {p} : publisher'[q] = publisher[q],
         \/ Notifying(p)' /\ missed' = (IF replicaOf[p] = SessClientAt THEN missed
                                        ELSE missed \cup {<<log'.gen, log'.seq>>})
         \/ ~Notifying(p)' /\ missed' = missed \cup {<<log'.gen, log'.seq>>}
  PROVE  BufferInv'
<1> DEFINE at == <<log.gen, log.seq + 1>>
           new == <<log.gen, log.seq + 1, EventOf(p)>>
           B == BufferOf(client)
<1>1. /\ log'.gen = log.gen /\ log'.seq = log.seq + 1 /\ past' = past \cup {new}
      /\ TypeInv /\ LogInv /\ BufferInv
  BY AppendKeeps DEF SessInv
<1>2. /\ log.gen \in Nat /\ log.seq \in Nat /\ past \subseteq Nat \X Nat \X SessEvents
      /\ Cursor(p) = at /\ Cursor(p)' = at /\ ~Notifying(p) /\ missed \subseteq missed'
  BY <1>1 DEF TypeInv, SessLogs, LogOver, Cursor, Swapping, Notifying
<1>3. ASSUME NEW c, Given(c) PROVE Given(c)' /\ Earlier(c, at)
  <2>1. PICK a \in past : a[1] = c[1] /\ a[2] = c[2]
    BY <1>3 DEF Given
  <2>2. a[1] < log.gen \/ (a[1] = log.gen /\ a[2] <= log.seq)
    BY <1>1, <2>1 DEF LogInv
  <2>3. a \in past' /\ a[1] \in Nat /\ a[2] \in Nat
    BY <1>1, <1>2, <2>1
  <2>4. Earlier(c, at)
    BY <1>2, <2>1, <2>2, <2>3 DEF Earlier
  <2> QED BY <2>1, <2>3, <2>4 DEF Given
<1>4. \E a \in past' : a[1] = at[1] /\ a[2] = at[2]
  <2>1. new \in past'
    BY <1>1
  <2>2. new[1] = at[1] /\ new[2] = at[2]
    OBVIOUS
  <2> QED BY <2>1, <2>2
<1>5. \A q \in SessPublisher \ {p} :
          /\ (Notifying(q)' <=> Notifying(q)) /\ (AtClient(q)' <=> AtClient(q))
          /\ Cursor(q)' = Cursor(q)
  BY DEF Notifying, AtClient, Cursor
<1>6. B' = B /\ client' = client
  BY DEF BufferOf
<1>7. \A q \in SessPublisher : Notifying(q)' => Given(Cursor(q))'
  <2> SUFFICES ASSUME NEW q \in SessPublisher, Notifying(q)' PROVE Given(Cursor(q))'
    OBVIOUS
  <2>1. CASE q = p
    <3>1. Cursor(q)' = at
      BY <1>2, <2>1
    <3> QED BY <1>4, <3>1 DEF Given
  <2>2. CASE q # p
    <3>1. Given(Cursor(q)) /\ Cursor(q)' = Cursor(q)
      BY <1>1, <1>5, <2>2 DEF BufferInv
    <3> QED BY <3>1, <1>3 DEF Given
  <2> QED BY <2>1, <2>2
<1>8. ASSUME NEW i \in 1 .. Len(B)
      PROVE  /\ Given(B[i])' /\ \A j \in 1 .. Len(B) : i < j => Earlier(B[i], B[j])
             /\ \A q \in SessPublisher : AtClient(q)' => Earlier(B[i], Cursor(q)')
  <2>1. Given(B[i]) /\ \A j \in 1 .. Len(B) : i < j => Earlier(B[i], B[j])
    BY <1>1 DEF BufferInv
  <2>2. Given(B[i])' /\ Earlier(B[i], at)
    BY <1>3, <2>1
  <2>3. ASSUME NEW q \in SessPublisher, AtClient(q)' PROVE Earlier(B[i], Cursor(q)')
    <3>1. CASE q = p
      BY <1>2, <2>2, <3>1
    <3>2. CASE q # p
      <4>1. AtClient(q) /\ Cursor(q)' = Cursor(q)
        BY <1>5, <2>3, <3>2
      <4> QED BY <1>1, <4>1 DEF BufferInv
    <3> QED BY <3>1, <3>2
  <2> QED BY <2>1, <2>2, <2>3
<1>9. ASSUME client.pc \in {"captured", "live"}, ~client.overflow,
             NEW a \in past', a[1] = client.gen, a[2] > client.seq
      PROVE  Accounted(<<a[1], a[2]>>)'
  <2>1. CASE a \in past
    <3>1. Accounted(<<a[1], a[2]>>)
      BY <1>1, <1>9, <2>1 DEF BufferInv
    <3>2. ASSUME NEW q \in SessPublisher, AtClient(q) PROVE AtClient(q)' /\ Cursor(q)' = Cursor(q)
      BY <1>2, <1>5, <3>2 DEF AtClient
    <3> QED BY <1>2, <1>6, <3>1, <3>2 DEF Accounted
  <2>2. CASE a = new
    <3>1. <<a[1], a[2]>> = at /\ <<log'.gen, log'.seq>> = at
      BY <1>1, <2>2
    <3>2. at \in missed' \/ AtClient(p)'
      BY <3>1 DEF AtClient
    <3> QED BY <1>2, <3>1, <3>2 DEF Accounted
  <2> QED BY <1>1, <2>1, <2>2
<1>10. Len(client.pending) <= AttachBuffer /\ (client.pc = "live" => ~client.overflow)
  BY <1>1 DEF BufferInv
<1> HIDE DEF Given, Accounted, AtClient, Cursor, Earlier, B
<1> QED BY <1>6, <1>7, <1>8, <1>9, <1>10 DEF BufferInv, B

LEMMA MissedTyped ==
  ASSUME TypeInv, <<log'.gen, log'.seq>> \in Nat \X Nat
  PROVE  missed \cup {<<log'.gen, log'.seq>>} \in SUBSET (Nat \X Nat)
BY DEF TypeInv

LEMMA SwapKeeps ==
  ASSUME SessInv, NEW p \in SessPublisher, SessSwap(p) PROVE SessInv'
<1>1. publisher[p] \in Publisher /\ Swapping(p) /\ TypeInv /\ publisher[p].pc \in {"start_swap", "final_swap"}
  BY DEF SessInv, TypeInv, SessSwap, Swapping
<1>2. UNCHANGED <<transcript, client, clearing, replicaOf>>
  BY DEF SessSwap
<1>3. CASE log = publisher[p].prev
  <2>1. /\ Applied(p) /\ To(p, NextNotify(p))
        /\ missed' = IF replicaOf[p] = SessClientAt THEN missed
                     ELSE missed \cup {<<log'.gen, log'.seq>>}
    BY <1>3 DEF SessSwap
  <2>2. /\ publisher' \in [SessPublisher -> Publisher]
        /\ publisher'[p].pc \in {"start_notify", "final_notify"}
        /\ publisher'[p].prev = publisher[p].prev
        /\ \A q \in SessPublisher \ {p} : publisher'[q] = publisher[q]
    BY <1>1, <2>1, ToMoves, NextNotifyPc
  <2>3. /\ LogInv' /\ log' \in SessLogs /\ past' \in SUBSET (Nat \X Nat \X SessEvents)
        /\ <<log'.gen, log'.seq>> \in Nat \X Nat
    BY <1>1, <1>3, <2>1, AppendKeeps DEF SessInv
  <2>4. TypeInv'
    BY <1>1, <1>2, <2>1, <2>2, <2>3, MissedTyped DEF TypeInv
  <2>5. ClientInv'
    BY <1>2, <1>3, <2>1, AppendKeepsClient DEF SessInv
  <2>6. LaneInv'
    BY <1>1, <1>2, <2>2, LaneKept DEF SessInv, Busy
  <2>7. Notifying(p)'
    BY <2>2 DEF Notifying
  <2>8. BufferInv'
    BY <1>1, <1>2, <1>3, <2>1, <2>2, <2>4, <2>7, BufferAfterAppend
  <2> QED BY <2>3, <2>4, <2>5, <2>6, <2>8 DEF SessInv
<1>4. CASE log # publisher[p].prev
  <2> DEFINE f == [publisher[p] EXCEPT !.prev = log]
  <2>1. publisher' = [publisher EXCEPT ![p] = f] /\ UNCHANGED <<log, past, missed>>
    BY <1>1, <1>4 DEF SessSwap, TypeInv
  <2>2. f \in Publisher /\ f.pc = publisher[p].pc
    BY <1>1 DEF Publisher, TypeInv
  <2> HIDE DEF f
  <2>3. /\ publisher' \in [SessPublisher -> Publisher] /\ publisher'[p] = f
        /\ \A q \in SessPublisher \ {p} : publisher'[q] = publisher[q]
    BY <1>1, <2>1, <2>2, PublisherMoves
  <2>4. TypeInv'
    BY <1>1, <1>2, <2>1, <2>3 DEF TypeInv
  <2>5. LaneInv'
    BY <1>1, <1>2, <2>3, LaneKept DEF SessInv, Busy
  <2>6. BufferInv'
    BY <1>1, <1>2, <2>1, <2>2, <2>3, BufferQuiet DEF SessInv, Notifying, Cursor
  <2>7. LogInv' /\ ClientInv'
    BY <1>2, <2>1, LogQuiet DEF SessInv
  <2> QED BY <2>4, <2>5, <2>6, <2>7 DEF SessInv
<1> QED BY <1>3, <1>4

LEMMA FaultKeeps ==
  ASSUME SessInv, NEW p \in SessPublisher, SessFault(p) PROVE SessInv'
<1>1. publisher[p] \in Publisher /\ Swapping(p) /\ TypeInv /\ publisher[p].pc \in {"start_swap", "final_swap"}
      /\ To(p, "failed")
  BY DEF SessInv, TypeInv, SessFault, Swapping
<1>2. UNCHANGED <<transcript, client, clearing, replicaOf>>
  BY DEF SessFault
<1>3. /\ publisher' \in [SessPublisher -> Publisher] /\ publisher'[p].pc = "failed"
      /\ publisher'[p].prev = publisher[p].prev
      /\ \A q \in SessPublisher \ {p} : publisher'[q] = publisher[q]
  BY <1>1, ToMoves
<1>4. ~Busy(p)' /\ ~Notifying(p)' /\ ~Notifying(p)
  BY <1>1, <1>3 DEF Busy, Swapping, Notifying
<1>5. LaneInv'
  BY <1>2, <1>3, <1>4, LaneKept DEF SessInv
<1>6. CASE log = publisher[p].prev /\ Applied(p) /\ missed' = missed \cup {<<log'.gen, log'.seq>>}
  <2>1. /\ LogInv' /\ log' \in SessLogs /\ past' \in SUBSET (Nat \X Nat \X SessEvents)
        /\ <<log'.gen, log'.seq>> \in Nat \X Nat
    BY <1>6, AppendKeeps DEF SessInv
  <2>2. TypeInv'
    BY <1>1, <1>2, <1>3, <1>6, <2>1, MissedTyped DEF TypeInv
  <2>3. ClientInv'
    BY <1>2, <1>6, AppendKeepsClient DEF SessInv
  <2>4. BufferInv'
    BY <1>1, <1>2, <1>3, <1>4, <1>6, <2>2, BufferAfterAppend
  <2> QED BY <1>5, <2>1, <2>2, <2>3, <2>4 DEF SessInv
<1>7. CASE UNCHANGED <<log, past, missed>>
  <2>1. TypeInv'
    BY <1>1, <1>2, <1>3, <1>7 DEF TypeInv
  <2>2. BufferInv'
    BY <1>2, <1>3, <1>4, <1>7, BufferQuiet DEF SessInv, Notifying, Cursor
  <2>3. LogInv' /\ ClientInv'
    BY <1>2, <1>7, LogQuiet DEF SessInv
  <2> QED BY <1>5, <2>1, <2>2, <2>3 DEF SessInv
<1> QED BY <1>6, <1>7 DEF SessFault

\* PublishSessionEvent changes the buffer at its end, or drops the event.
LEMMA PublishedFacts ==
  ASSUME NEW c \in Client, NEW at \in Nat \X Nat, Len(c.pending) <= AttachBuffer
  PROVE  LET d == Published(c, at)
         IN  /\ d \in Client /\ d.pc = c.pc /\ d.gen = c.gen /\ d.seq = c.seq /\ d.view = c.view
             /\ d.replay = c.replay /\ d.resume = c.resume /\ Len(d.pending) <= AttachBuffer
             /\ \/ BufferOf(d) = Append(BufferOf(c), at) /\ d.overflow = c.overflow
                \/ /\ BufferOf(d) = BufferOf(c)
                   /\ c.pc \in {"subscribed", "loaded", "captured"} => d.overflow
                   /\ c.pc # "live"
             /\ c.pc = "live" => d.overflow = c.overflow
<1>1. CASE c.pc = "live"
  <2> DEFINE d == [c EXCEPT !.sent = Append(@, at)]
  <2>1. Published(c, at) = d
    BY <1>1 DEF Published
  <2>2. Append(c.sent, at) \in Seq(Nat \X Nat)
    BY DEF Client
  <2> QED BY <1>1, <2>1, <2>2 DEF Client, BufferOf
<1>2. CASE c.pc \in {"subscribed", "loaded", "captured"} /\ Len(c.pending) < AttachBuffer
  <2> DEFINE d == [c EXCEPT !.pending = Append(@, at)]
  <2>1. Published(c, at) = d
    BY <1>2 DEF Published
  <2>2. Append(c.pending, at) \in Seq(Nat \X Nat) /\ Len(Append(c.pending, at)) = Len(c.pending) + 1
        /\ Len(c.pending) \in Nat
    BY DEF Client
  <2>3. Len(c.pending) + 1 <= AttachBuffer
    BY <1>2, <2>2, SessAssumption
  <2> QED BY <1>2, <2>1, <2>2, <2>3 DEF Client, BufferOf
<1>3. CASE c.pc \in {"subscribed", "loaded", "captured"} /\ ~(Len(c.pending) < AttachBuffer)
  <2> DEFINE d == [c EXCEPT !.overflow = TRUE]
  <2>1. Published(c, at) = d
    BY <1>3 DEF Published
  <2> QED BY <1>3, <2>1 DEF Client, BufferOf
<1>4. CASE c.pc \in {"off", "refused"}
  <2>1. Published(c, at) = c
    BY <1>4 DEF Published
  <2> QED BY <1>4, <2>1 DEF BufferOf
<1> QED BY <1>1, <1>2, <1>3, <1>4 DEF Client

LEMMA NotifyKeeps ==
  ASSUME SessInv, NEW p \in SessPublisher, SessNotify(p) PROVE SessInv'
<1> DEFINE at == Cursor(p)
           B == BufferOf(client)
<1>1. /\ publisher[p] \in Publisher /\ TypeInv /\ LogInv /\ BufferInv /\ Notifying(p)
      /\ publisher[p].pc \in {"start_notify", "final_notify"}
  BY DEF SessInv, TypeInv, SessNotify, Notifying
<1>2. UNCHANGED <<log, transcript, clearing, past, missed, replicaOf>>
      /\ client' = IF AtClient(p) THEN Published(client, at) ELSE client
  BY DEF SessNotify, AtClient, Cursor
<1>3. /\ publisher' \in [SessPublisher -> Publisher] /\ publisher'[p].pc \in {"final", "save"}
      /\ \A q \in SessPublisher \ {p} : publisher'[q] = publisher[q]
  <2>1. \/ To(p, "final") \/ To(p, "save")
    BY DEF SessNotify
  <2> QED BY <1>1, <2>1, ToMoves
<1>4. ~Busy(p)' /\ ~Notifying(p)'
  BY <1>3 DEF Busy, Swapping, Notifying
<1>5. LaneInv'
  BY <1>2, <1>3, <1>4, LaneKept DEF SessInv
<1>6. /\ client \in Client /\ Len(client.pending) <= AttachBuffer /\ at \in Nat \X Nat
      /\ publisher[p].prev \in SessLogs
  BY <1>1, SMTT(30) DEF TypeInv, BufferInv, Cursor, Publisher, SessLogs, LogOver
<1>7. /\ client' \in Client /\ client'.pc = client.pc /\ client'.gen = client.gen
      /\ client'.seq = client.seq /\ client'.replay = client.replay /\ client'.view = client.view
      /\ client'.resume = client.resume /\ Len(client'.pending) <= AttachBuffer
      /\ client.pc = "live" => client'.overflow = client.overflow
  BY <1>2, <1>6, PublishedFacts
<1>8. TypeInv'
  BY <1>1, <1>2, <1>3, <1>7 DEF TypeInv
<1>9. LogInv'
  BY <1>1, <1>2, LogStays
<1>10. ClientInv'
  BY <1>2, <1>7 DEF SessInv, ClientInv, SessReplayExact
<1>11. \A c : Given(c)' <=> Given(c)
  BY <1>2 DEF Given
<1>12. \A q \in SessPublisher \ {p} :
          /\ (Notifying(q)' <=> Notifying(q)) /\ (AtClient(q)' <=> AtClient(q))
          /\ Cursor(q)' = Cursor(q)
  BY <1>2, <1>3 DEF Notifying, AtClient, Cursor
<1>13. \A q \in SessPublisher : Notifying(q)' => Given(Cursor(q))'
  <2> SUFFICES ASSUME NEW q \in SessPublisher, Notifying(q)' PROVE Given(Cursor(q))'
    OBVIOUS
  <2>1. q # p /\ Given(Cursor(q)) /\ Cursor(q)' = Cursor(q)
    BY <1>1, <1>4, <1>12 DEF BufferInv
  <2> QED BY <1>2, <2>1 DEF Given
<1>14. AtClient(p)' = FALSE
  BY <1>4 DEF AtClient
<1>15. client.pc = "live" => ~client.overflow
  BY <1>1 DEF BufferInv
<1>c. B \in Seq(Nat \X Nat) /\ Len(B) \in Nat
  BY <1>6 DEF BufferOf, Client
<1>16. CASE B' = B
  <2>1. \A i \in 1 .. Len(B) :
           /\ Given(B[i]) /\ \A j \in 1 .. Len(B) : i < j => Earlier(B[i], B[j])
           /\ \A q \in SessPublisher : AtClient(q) => Earlier(B[i], Cursor(q))
    BY <1>1 DEF BufferInv
  <2>2. \A i \in 1 .. Len(B) : \A q \in SessPublisher : AtClient(q)' => Earlier(B[i], Cursor(q)')
    <3> SUFFICES ASSUME NEW i \in 1 .. Len(B), NEW q \in SessPublisher, AtClient(q)'
                 PROVE  Earlier(B[i], Cursor(q)')
      OBVIOUS
    <3>1. AtClient(q) /\ Cursor(q)' = Cursor(q)
      BY <1>12, <1>14
    <3> QED BY <2>1, <3>1
  <2>3. ASSUME client.pc \in {"captured", "live"}, ~client'.overflow,
               NEW a \in past, a[1] = client.gen, a[2] > client.seq
        PROVE  Accounted(<<a[1], a[2]>>)'
    <3>1. ~AtClient(p) /\ client' = client
      <4> SUFFICES ASSUME AtClient(p) PROVE FALSE
        BY <1>2
      <4>1. client' = Published(client, at)
        BY <1>2
      <4>2. BufferOf(client') = B
        BY <1>16 DEF BufferOf
      <4>3. Len(Append(B, at)) = Len(B) + 1
        BY <1>c, <1>6
      <4>4. BufferOf(client') # Append(B, at)
        BY <1>c, <4>2, <4>3
      <4>5. client'.overflow
        BY <1>6, <2>3, <4>1, <4>4, PublishedFacts
      <4> QED BY <2>3, <4>5
    <3>2. Accounted(<<a[1], a[2]>>)
      BY <1>1, <2>3, <3>1 DEF BufferInv
    <3>3. ASSUME NEW q \in SessPublisher, AtClient(q) PROVE AtClient(q)' /\ Cursor(q)' = Cursor(q)
      BY <1>12, <3>1, <3>3
    <3> QED BY <1>2, <1>16, <3>2, <3>3 DEF Accounted
  <2>4. \A i \in 1 .. Len(B) : Given(B[i])'
    BY <1>2, <1>16, <2>1 DEF Given
  <2> HIDE DEF Given, Accounted, AtClient, Cursor, Earlier, B, at
  <2>5. BufferInv'
    BY <1>2, <1>7, <1>13, <1>15, <1>16, <2>1, <2>2, <2>3, <2>4 DEF BufferInv, B
  <2> QED BY <1>5, <1>8, <1>9, <1>10, <2>5 DEF SessInv
<1>17. CASE B' # B
  <2>1. AtClient(p) /\ client' = Published(client, at)
    BY <1>2, <1>17 DEF BufferOf
  <2>2. B' = BufferOf(client')
    BY DEF BufferOf
  <2>3. B' = Append(B, at) /\ client'.overflow = client.overflow
    BY <1>6, <1>17, <2>1, <2>2, PublishedFacts
  <2>4. /\ Len(B') = Len(B) + 1 /\ B'[Len(B) + 1] = at /\ \A i \in 1 .. Len(B) : B'[i] = B[i]
    BY <1>c, <1>6, <2>3
  <2>5. \A i \in 1 .. Len(B) :
           /\ Given(B[i]) /\ \A j \in 1 .. Len(B) : i < j => Earlier(B[i], B[j])
           /\ Earlier(B[i], at)
    BY <1>1, <2>1 DEF BufferInv
  <2>6. Given(at)
    BY <1>1 DEF BufferInv
  <2>7. \A q \in SessPublisher : ~AtClient(q)'
    <3> SUFFICES ASSUME NEW q \in SessPublisher, AtClient(q)' PROVE FALSE
      OBVIOUS
    <3>1. q # p /\ AtClient(q)
      BY <1>12, <1>14
    <3> QED BY <2>1, <3>1 DEF SessInv, LaneInv, AtClient, Busy
  <2>8. \A i \in 1 .. Len(B') : \E a \in past' : a[1] = B'[i][1] /\ a[2] = B'[i][2]
    <3> SUFFICES ASSUME NEW i \in 1 .. Len(B') PROVE \E a \in past' : a[1] = B'[i][1] /\ a[2] = B'[i][2]
      OBVIOUS
    <3>1. CASE i = Len(B) + 1
      BY <1>2, <2>4, <2>6, <3>1 DEF Given
    <3>2. CASE i # Len(B) + 1
      <4>1. i \in 1 .. Len(B)
        BY <1>c, <2>4, <3>2
      <4> QED BY <1>2, <2>4, <2>5, <4>1 DEF Given
    <3> QED BY <3>1, <3>2
  <2>9. \A i, j \in 1 .. Len(B') : i < j => Earlier(B'[i], B'[j])
    <3> SUFFICES ASSUME NEW i \in 1 .. Len(B'), NEW j \in 1 .. Len(B'), i < j
                 PROVE  Earlier(B'[i], B'[j])
      OBVIOUS
    <3>1. i \in 1 .. Len(B) /\ B'[i] = B[i]
      BY <1>c, <2>4
    <3>2. CASE j = Len(B) + 1
      BY <2>4, <2>5, <3>1, <3>2
    <3>3. CASE j # Len(B) + 1
      <4>1. j \in 1 .. Len(B)
        BY <1>c, <2>4, <3>3
      <4>2. B'[j] = B[j]
        BY <2>4, <4>1
      <4> QED BY <2>5, <3>1, <4>1, <4>2
    <3> QED BY <3>2, <3>3
  <2>10. ASSUME client.pc \in {"captured", "live"}, ~client.overflow,
                NEW a \in past, a[1] = client.gen, a[2] > client.seq
         PROVE  Accounted(<<a[1], a[2]>>)'
    <3>1. Accounted(<<a[1], a[2]>>)
      BY <1>1, <2>10 DEF BufferInv
    <3>2. CASE <<a[1], a[2]>> \in missed
      BY <1>2, <3>2 DEF Accounted
    <3>3. CASE \E i \in 1 .. Len(B) : B[i] = <<a[1], a[2]>>
      <4>1. PICK i \in 1 .. Len(B) : B[i] = <<a[1], a[2]>>
        BY <3>3
      <4>2. i \in 1 .. Len(B') /\ B'[i] = <<a[1], a[2]>>
        BY <1>c, <2>4, <4>1
      <4> QED BY <4>2 DEF Accounted
    <3>4. CASE \E q \in SessPublisher : AtClient(q) /\ Cursor(q) = <<a[1], a[2]>>
      <4>1. PICK q \in SessPublisher : AtClient(q) /\ Cursor(q) = <<a[1], a[2]>>
        BY <3>4
      <4>2. q = p
        BY <1>12, <2>7, <4>1
      <4>3. Len(B) + 1 \in 1 .. Len(B') /\ B'[Len(B) + 1] = <<a[1], a[2]>>
        BY <1>c, <2>4, <4>1, <4>2
      <4> QED BY <4>3 DEF Accounted
    <3> QED BY <3>1, <3>2, <3>3, <3>4 DEF Accounted
  <2> HIDE DEF Accounted, AtClient, Cursor, Earlier, B, at
  <2>11. BufferInv'
    BY <1>2, <1>7, <1>13, <1>15, <2>3, <2>7, <2>8, <2>9, <2>10 DEF BufferInv, B, Given
  <2> QED BY <1>5, <1>8, <1>9, <1>10, <2>11 DEF SessInv
<1> QED BY <1>16, <1>17

-----------------------------------------------------------------------------
(* The client and the clear control. *)

\* A step of the client alone.
ClientMoves(c) ==
    /\ client' = c /\ c \in Client
    /\ UNCHANGED <<log, transcript, publisher, clearing, past, missed, replicaOf>>

LEMMA ClientFrame ==
  ASSUME SessInv, NEW c, ClientMoves(c)
  PROVE  /\ TypeInv' /\ LogInv' /\ LaneInv'
         /\ \A at : Given(at)' <=> Given(at)
         /\ \A p \in SessPublisher :
               /\ (Notifying(p)' <=> Notifying(p)) /\ (AtClient(p)' <=> AtClient(p))
               /\ Cursor(p)' = Cursor(p)
<1>0. /\ log' = log /\ transcript' = transcript /\ publisher' = publisher /\ clearing' = clearing
      /\ past' = past /\ missed' = missed /\ replicaOf' = replicaOf /\ client' \in Client
  BY DEF ClientMoves
<1>1. TypeInv'
  BY <1>0 DEF SessInv, TypeInv
<1>2. LogInv'
  BY <1>0, LogStays DEF SessInv
<1>3. LaneInv'
  BY <1>0 DEF SessInv, LaneInv, Busy, Swapping, Notifying
<1>4. \A at : Given(at)' <=> Given(at)
  BY <1>0 DEF Given
<1>5. \A p \in SessPublisher :
          /\ (Notifying(p)' <=> Notifying(p)) /\ (AtClient(p)' <=> AtClient(p))
          /\ Cursor(p)' = Cursor(p)
  BY <1>0 DEF Notifying, AtClient, Cursor
<1> QED BY <1>1, <1>2, <1>3, <1>4, <1>5

\* A client that has nothing in its buffer, or keeps what it has.
LEMMA BufferKept ==
  ASSUME SessInv, NEW c, ClientMoves(c), Len(c.pending) <= AttachBuffer,
         c.pc = "live" => ~c.overflow,
         BufferOf(c) = <<>> \/ BufferOf(c) = BufferOf(client),
         c.pc \in {"captured", "live"} /\ ~c.overflow =>
            \A a \in past : a[1] = c.gen /\ a[2] > c.seq => Accounted(<<a[1], a[2]>>)',
         ClientInv'
  PROVE  SessInv'
<1>1. TypeInv' /\ LogInv' /\ LaneInv'
  BY ClientFrame
<1>2. client' = c /\ past' = past
  BY DEF ClientMoves
<1>3. BufferOf(client)' = BufferOf(c)
  BY <1>2 DEF BufferOf
<1>4. \A p \in SessPublisher : Notifying(p)' => Given(Cursor(p))'
  <2> SUFFICES ASSUME NEW p \in SessPublisher, Notifying(p)' PROVE Given(Cursor(p))'
    OBVIOUS
  <2>1. Given(Cursor(p)) /\ Cursor(p)' = Cursor(p)
    BY ClientFrame DEF SessInv, BufferInv
  <2> QED BY <1>2, <2>1 DEF Given
<1>5. \A i \in 1 .. Len(BufferOf(c)) :
         /\ \E a \in past : a[1] = BufferOf(c)[i][1] /\ a[2] = BufferOf(c)[i][2]
         /\ \A j \in 1 .. Len(BufferOf(c)) : i < j => Earlier(BufferOf(c)[i], BufferOf(c)[j])
         /\ \A p \in SessPublisher : AtClient(p)' => Earlier(BufferOf(c)[i], Cursor(p)')
  <2>1. CASE BufferOf(c) = <<>>
    BY <2>1
  <2>2. CASE BufferOf(c) = BufferOf(client)
    <3> DEFINE B == BufferOf(client)
    <3>1. \A i \in 1 .. Len(B) :
            /\ Given(B[i]) /\ \A j \in 1 .. Len(B) : i < j => Earlier(B[i], B[j])
            /\ \A p \in SessPublisher : AtClient(p) => Earlier(B[i], Cursor(p))
      BY DEF SessInv, BufferInv
    <3>2. \A p \in SessPublisher : AtClient(p)' => AtClient(p) /\ Cursor(p)' = Cursor(p)
      BY ClientFrame
    <3> HIDE DEF AtClient, Cursor, Earlier, B
    <3> QED BY <2>2, <3>1, <3>2 DEF Given, B
  <2> QED BY <2>1, <2>2
<1> HIDE DEF Accounted, AtClient, Cursor, Earlier
<1>6. BufferInv'
  BY <1>2, <1>3, <1>4, <1>5 DEF BufferInv, Given
<1> QED BY <1>1, <1>6 DEF SessInv

LEMMA SubscribeKeeps == ASSUME SessInv, SessSubscribe PROVE SessInv'
<1> DEFINE c == [NoClient EXCEPT !.pc = "subscribed", !.resume = <<client.gen, client.seq>>]
<1>1. client \in Client /\ client' = c
  BY DEF SessInv, TypeInv, SessSubscribe
<1>2. /\ c \in Client /\ c.pc = "subscribed" /\ c.pending = <<>> /\ c.gen = 0 /\ c.seq = 0
      /\ c.replay[1] = "none"
  <2>1. <<client.gen, client.seq>> \in Nat \X Nat
    BY <1>1 DEF Client
  <2>2. NoClient \in Client /\ NoClient.pending = <<>> /\ NoClient.gen = 0 /\ NoClient.seq = 0
        /\ NoClient.replay[1] = "none"
    BY EmptySeq DEF NoClient, Client
  <2> HIDE DEF NoClient
  <2> QED BY <2>1, <2>2 DEF Client
<1> HIDE DEF c
<1>3. ClientMoves(c)
  BY <1>1, <1>2 DEF ClientMoves, SessSubscribe
<1>4. BufferOf(c) = <<>> /\ Len(c.pending) <= AttachBuffer
  BY <1>2, SessAssumption DEF BufferOf
<1>5. ClientInv'
  <2>1. log' = log /\ log.gen \in Nat /\ log.seq \in Nat
    BY <1>3 DEF ClientMoves, SessInv, TypeInv, SessLogs, LogOver
  <2> QED BY <1>1, <1>2, <2>1 DEF ClientInv, SessReplayExact
<1> QED BY <1>2, <1>3, <1>4, <1>5, BufferKept

LEMMA LoadKeeps == ASSUME SessInv, SessLoad PROVE SessInv'
<1> DEFINE c == [client EXCEPT !.pc = "loaded", !.history = transcript]
<1>1. client \in Client /\ client' = c /\ client.pc = "subscribed" /\ TypeInv
  BY DEF SessInv, TypeInv, SessLoad
<1>2. /\ c \in Client /\ c.pc = "loaded" /\ c.pending = client.pending /\ c.gen = client.gen
      /\ c.seq = client.seq /\ c.replay = client.replay /\ c.resume = client.resume
  BY <1>1 DEF Client, TypeInv
<1> HIDE DEF c
<1>3. ClientMoves(c)
  BY <1>1, <1>2 DEF ClientMoves, SessLoad
<1>4. BufferOf(c) = BufferOf(client) /\ Len(c.pending) <= AttachBuffer
  BY <1>1, <1>2 DEF BufferOf, SessInv, BufferInv
<1>5. ClientInv'
  <2>1. log' = log /\ past' = past
    BY <1>3 DEF ClientMoves
  <2> QED BY <1>1, <1>2, <2>1 DEF SessInv, ClientInv, SessReplayExact
<1> QED BY <1>2, <1>3, <1>4, <1>5, BufferKept

\* The replay of a log is made from the events it retains.
LEMMA ReplayIsExact ==
  ASSUME TypeInv, LogInv, NEW after \in Nat \X Nat, Replay(log, after)[1] = "complete"
  PROVE  /\ after[1] = log.gen
         /\ {<<log.gen, e[1], e[2]>> : e \in Replay(log, after)[2]}
              = {e \in past : e[1] = log.gen /\ after[2] < e[2] /\ e[2] <= log.seq}
<1> DEFINE shown == Replay(log, after)[2]
           es == log.events
<1>1. /\ log \in LogOver(SessPublisher) /\ GoodLog(log) /\ log.seq \in Nat /\ after[2] \in Nat
      /\ es \in Seq(Nat \X SessEvents) /\ Len(es) \in Nat
      /\ past \subseteq Nat \X Nat \X SessEvents
  BY DEF TypeInv, LogInv, SessLogs, LogOver, SessEvents
<1>2. /\ after[1] = log.gen /\ after[2] <= log.seq
      /\ shown = {es[i] : i \in {j \in 1 .. Len(es) : es[j][1] > after[2]}}
      /\ \A k \in after[2] + 1 .. log.seq : \E i \in 1 .. Len(es) : es[i][1] = k
  BY <1>1, ReplayFacts
<1> HIDE DEF shown
<1>3. ASSUME NEW e \in shown
      PROVE  /\ <<log.gen, e[1], e[2]>> \in past /\ after[2] < e[1] /\ e[1] <= log.seq
  <2>1. PICK i \in 1 .. Len(es) : e = es[i] /\ es[i][1] > after[2]
    BY <1>2
  <2>2. <<log.gen, es[i][1], es[i][2]>> \in past
    BY DEF LogInv
  <2>3. es[i][1] = log.seq - Len(es) + i
    BY <1>1 DEF GoodLog
  <2>4. es[i][1] <= log.seq
    BY <1>1, <2>3
  <2>5. es[i][1] \in Nat
    BY <1>1, <2>2
  <2> QED BY <1>1, <2>1, <2>2, <2>4, <2>5
<1>4. ASSUME NEW a \in past, a[1] = log.gen, after[2] < a[2], a[2] <= log.seq
      PROVE  \E e \in shown : a = <<log.gen, e[1], e[2]>>
  <2>1. a[2] \in Nat
    BY <1>1
  <2>2. a[2] \in after[2] + 1 .. log.seq
    BY <1>1, <1>4, <2>1
  <2>3. PICK i \in 1 .. Len(es) : es[i][1] = a[2]
    BY <1>2, <2>2
  <2>4. <<log.gen, es[i][1], es[i][2]>> \in past
    BY DEF LogInv
  <2>5. a = <<log.gen, es[i][1], es[i][2]>>
    BY <1>4, <2>3, <2>4 DEF LogInv
  <2>6. es[i] \in shown
    BY <1>2, <1>4, <2>1, <2>3, <1>1
  <2> QED BY <2>5, <2>6
<1>5. {<<log.gen, e[1], e[2]>> : e \in shown}
        = {e \in past : e[1] = log.gen /\ after[2] < e[2] /\ e[2] <= log.seq}
  <2> DEFINE L == {<<log.gen, e[1], e[2]>> : e \in shown}
             R == {e \in past : e[1] = log.gen /\ after[2] < e[2] /\ e[2] <= log.seq}
  <2>1. ASSUME NEW x \in L PROVE x \in R
    BY <1>3
  <2>2. ASSUME NEW x \in R PROVE x \in L
    BY <1>4
  <2> QED BY <2>1, <2>2
<1> QED BY <1>2, <1>5 DEF shown

LEMMA CaptureKeeps == ASSUME SessInv, SessCapture PROVE SessInv'
<1> DEFINE replay == IF client.resume[1] = 0 THEN client.replay ELSE Replay(log, client.resume)
           view == client.history \cup log.final
           c == [client EXCEPT !.pc = "captured", !.gen = log.gen, !.seq = log.seq,
                               !.view = view, !.replay = replay]
<1>1. /\ client \in Client /\ client' = c /\ client.pc = "loaded" /\ TypeInv /\ LogInv
      /\ ClientInv /\ BufferInv /\ client.replay[1] = "none"
  BY DEF SessInv, TypeInv, SessCapture, ClientInv
<1>2. /\ log \in LogOver(SessPublisher) /\ GoodLog(log) /\ log.gen \in Nat /\ log.seq \in Nat
      /\ client.resume \in Nat \X Nat /\ view \in SUBSET SessPublisher
      /\ past \subseteq Nat \X Nat \X SessEvents
  BY <1>1 DEF TypeInv, LogInv, SessLogs, LogOver, Client
<1>3. Replay(log, client.resume) \in {"unavailable", "complete", "partial"} \X SUBSET (Nat \X SessEvents)
  BY <1>2, ReplayFacts DEF SessEvents
<1>4. replay \in {"none", "unavailable", "complete", "partial"} \X SUBSET (Nat \X SessEvents)
  BY <1>1, <1>3 DEF Client
<1> HIDE DEF replay, view
<1>5. /\ c \in Client /\ c.pc = "captured" /\ c.pending = client.pending /\ c.gen = log.gen
      /\ c.seq = log.seq /\ c.replay = replay /\ c.resume = client.resume
  BY <1>1, <1>2, <1>4 DEF Client
<1> HIDE DEF c
<1>6. ClientMoves(c)
  BY <1>1, <1>5 DEF ClientMoves, SessCapture
<1>7. BufferOf(c) = BufferOf(client) /\ Len(c.pending) <= AttachBuffer
  BY <1>1, <1>5 DEF BufferOf, BufferInv
<1>8. replay[1] = "complete" =>
         /\ client.resume[1] = log.gen
         /\ {<<log.gen, e[1], e[2]>> : e \in replay[2]}
              = {e \in past : e[1] = log.gen /\ client.resume[2] < e[2] /\ e[2] <= log.seq}
  <2> SUFFICES ASSUME replay[1] = "complete"
               PROVE  /\ client.resume[1] = log.gen
                      /\ {<<log.gen, e[1], e[2]>> : e \in replay[2]}
                         = {e \in past : e[1] = log.gen /\ client.resume[2] < e[2] /\ e[2] <= log.seq}
    OBVIOUS
  <2>1. replay = Replay(log, client.resume)
    BY <1>1 DEF replay
  <2> QED BY <1>1, <1>2, <2>1, ReplayIsExact
<1>9. ClientInv'
  <2>1. log' = log /\ past' = past
    BY <1>6 DEF ClientMoves
  <2>2. client'.gen = log'.gen /\ client'.seq <= log'.seq /\ client'.pc = "captured"
    BY <1>1, <1>2, <1>5, <2>1
  <2>3. SessReplayExact'
    BY <1>1, <1>5, <1>8, <2>1 DEF SessReplayExact
  <2> QED BY <2>2, <2>3 DEF ClientInv
<1>10. \A a \in past : ~(a[1] = c.gen /\ a[2] > c.seq)
  BY <1>1, <1>2, <1>5 DEF LogInv
<1> QED BY <1>5, <1>6, <1>7, <1>9, <1>10, BufferKept

LEMMA ActivateKeeps == ASSUME SessInv, SessActivate PROVE SessInv'
<1>1. client \in Client /\ client.pc = "captured" /\ TypeInv /\ ClientInv /\ BufferInv
  BY DEF SessInv, TypeInv, SessActivate
<1>2. CASE client.overflow
  <2> DEFINE c == [client EXCEPT !.pc = "refused"]
  <2>1. client' = c
    BY <1>2 DEF SessActivate
  <2>2. /\ c \in Client /\ c.pc = "refused" /\ c.pending = client.pending /\ c.gen = client.gen
        /\ c.seq = client.seq /\ c.replay = client.replay /\ c.resume = client.resume
    BY <1>1 DEF Client
  <2> HIDE DEF c
  <2>3. ClientMoves(c)
    BY <2>1, <2>2 DEF ClientMoves, SessActivate
  <2>4. BufferOf(c) = BufferOf(client) /\ Len(c.pending) <= AttachBuffer
    BY <1>1, <2>2 DEF BufferOf, BufferInv
  <2>5. ClientInv'
    <3>1. log' = log /\ past' = past
      BY <2>3 DEF ClientMoves
    <3> QED BY <1>1, <2>1, <2>2, <3>1 DEF ClientInv, SessReplayExact
  <2> QED BY <2>2, <2>3, <2>4, <2>5, BufferKept
<1>3. CASE ~client.overflow
  <2> DEFINE c == [client EXCEPT !.pc = "live", !.sent = client.pending, !.pending = <<>>]
  <2>1. client' = c
    BY <1>3 DEF SessActivate
  <2>2. /\ c \in Client /\ c.pc = "live" /\ c.pending = <<>> /\ c.gen = client.gen
        /\ c.seq = client.seq /\ c.replay = client.replay /\ c.resume = client.resume
        /\ c.sent = client.pending /\ c.overflow = client.overflow
    <3>1. <<>> \in Seq(Nat \X Nat) /\ client.pending \in Seq(Nat \X Nat)
      BY <1>1, EmptySeq DEF Client
    <3> QED BY <1>1, <3>1 DEF Client
  <2> HIDE DEF c
  <2>3. ClientMoves(c)
    BY <2>1, <2>2 DEF ClientMoves, SessActivate
  <2>4. BufferOf(c) = BufferOf(client) /\ Len(c.pending) <= AttachBuffer
    BY <1>1, <2>2, SessAssumption DEF BufferOf
  <2>5. ClientInv'
    <3>1. log' = log /\ past' = past
      BY <2>3 DEF ClientMoves
    <3> QED BY <1>1, <2>1, <2>2, <3>1 DEF ClientInv, SessReplayExact
  <2>6. ASSUME NEW a \in past, a[1] = c.gen, a[2] > c.seq PROVE Accounted(<<a[1], a[2]>>)'
    <3>1. Accounted(<<a[1], a[2]>>)
      BY <1>1, <1>3, <2>2, <2>6 DEF BufferInv
    <3>2. BufferOf(client)' = BufferOf(client) /\ missed' = missed
      BY <2>1, <2>3, <2>4 DEF ClientMoves, BufferOf
    <3>3. \A p \in SessPublisher : AtClient(p) => AtClient(p)' /\ Cursor(p)' = Cursor(p)
      BY <2>3, ClientFrame
    <3> HIDE DEF AtClient, Cursor
    <3> QED BY <3>1, <3>2, <3>3 DEF Accounted
  <2> QED BY <1>3, <2>2, <2>3, <2>4, <2>5, <2>6, BufferKept
<1> QED BY <1>2, <1>3

LEMMA ResetKeeps ==
  ASSUME SessInv, SessClear \/ SessReset \/ SessDelete
  PROVE  SessInv'
<1>1. /\ TypeInv /\ LogInv /\ LaneInv /\ ClientInv /\ BufferInv
      /\ log.gen \in Nat /\ log.seq \in Nat /\ client.gen \in Nat /\ client.seq \in Nat
      /\ past \subseteq Nat \X Nat \X SessEvents
  BY DEF SessInv, TypeInv, SessLogs, LogOver, Client
<1>2. /\ publisher' = publisher /\ client' = client /\ past' = past /\ missed' = missed
      /\ replicaOf' = replicaOf
  BY DEF SessClear, SessReset, SessDelete
<1>3. LaneInv' /\ BufferInv'
  BY <1>1, <1>2, BufferQuiet DEF LaneInv, Busy, Swapping, Notifying, Cursor
<1>4. EmptyLog(1) \in SessLogs
  BY EmptyIsGood DEF SessLogs
<1>5. CASE log' = log
  <2>1. TypeInv'
    <3>1. clearing' \in [pc : {"idle", "swap", "delete"}, prev : SessLogs]
      <4>1. CASE SessClear
        BY <1>1, <4>1 DEF SessClear, TypeInv
      <4>2. CASE SessReset
        <5>1. clearing' = [clearing EXCEPT !.pc = "delete"] \/ clearing' = [clearing EXCEPT !.prev = log]
          BY <4>2 DEF SessReset
        <5> QED BY <1>1, <5>1 DEF TypeInv
      <4>3. CASE SessDelete
        BY <1>4, <4>3 DEF SessDelete
      <4> QED BY <4>1, <4>2, <4>3
    <3>2. transcript' \in SUBSET SessPublisher
      BY <1>1 DEF SessClear, SessReset, SessDelete, TypeInv
    <3> QED BY <1>1, <1>2, <1>5, <3>1, <3>2 DEF TypeInv
  <2>2. LogInv' /\ ClientInv'
    BY <1>1, <1>2, <1>5, LogQuiet
  <2> QED BY <1>3, <2>1, <2>2 DEF SessInv
<1>6. CASE log' # log
  <2> DEFINE l == EmptyLog(log.gen + 1)
  <2>1. log' = l /\ clearing' = [clearing EXCEPT !.pc = "delete"] /\ transcript' = transcript
    BY <1>6 DEF SessClear, SessReset, SessDelete
  <2>2. /\ l \in SessLogs /\ GoodLog(l) /\ l.gen = log.gen + 1 /\ l.seq = 0 /\ Len(l.events) = 0
    <3>1. l.gen = log.gen + 1 /\ l.seq = 0 /\ Len(l.events) = 0
      BY DEF EmptyLog
    <3>2. log.gen + 1 \in Nat
      BY <1>1
    <3>3. l \in LogOver(SessPublisher) /\ GoodLog(l)
      BY <3>2, EmptyIsGood
    <3> QED BY <3>1, <3>3 DEF SessLogs
  <2> HIDE DEF l
  <2>3. TypeInv'
    BY <1>1, <1>2, <2>1, <2>2 DEF TypeInv
  <2>4. LogInv'
    <3>1. \A a \in past : a[1] \in Nat /\ a[1] < log.gen + 1
      BY <1>1 DEF LogInv
    <3>2. GoodLog(log')
      BY <2>1, <2>2
    <3> QED BY <1>1, <1>2, <2>1, <2>2, <3>1, <3>2 DEF LogInv
  <2>5. ClientInv'
    <3>1. client.gen < log'.gen
      BY <1>1, <2>1, <2>2 DEF ClientInv
    <3> QED BY <1>1, <1>2, <3>1 DEF ClientInv, SessReplayExact
  <2> QED BY <1>3, <2>3, <2>4, <2>5 DEF SessInv
<1> QED BY <1>5, <1>6

LEMMA SessionStep == SessInv /\ [SessNext]_sessVars => SessInv'
<1> SUFFICES ASSUME SessInv, [SessNext]_sessVars PROVE SessInv'
  OBVIOUS
<1>1. ASSUME NEW p \in SessPublisher,
             SessBegin(p) \/ SessRead(p) \/ SessSwap(p) \/ SessFault(p) \/ SessNotify(p) \/ SessSave(p)
      PROVE  SessInv'
  BY <1>1, BeginKeeps, ReadKeeps, SwapKeeps, FaultKeeps, NotifyKeeps, SaveKeeps
<1>2. CASE SessSubscribe \/ SessLoad \/ SessCapture \/ SessActivate
  BY <1>2, SubscribeKeeps, LoadKeeps, CaptureKeeps, ActivateKeeps
<1>3. CASE SessClear \/ SessReset \/ SessDelete
  BY <1>3, ResetKeeps
<1>4. CASE UNCHANGED sessVars
  <2>1. /\ log' = log /\ transcript' = transcript /\ publisher' = publisher /\ client' = client
        /\ clearing' = clearing /\ past' = past /\ missed' = missed /\ replicaOf' = replicaOf
    BY <1>4 DEF sessVars
  <2>2. LogInv' /\ ClientInv'
    BY <2>1, LogQuiet DEF SessInv
  <2>3. BufferInv'
    BY <2>1, BufferQuiet DEF SessInv, Notifying, Cursor
  <2>4. TypeInv' /\ LaneInv'
    BY <2>1 DEF SessInv, TypeInv, LaneInv, Busy, Swapping, Notifying
  <2> QED BY <2>2, <2>3, <2>4 DEF SessInv
<1> QED BY <1>1, <1>2, <1>3, <1>4 DEF SessNext

LEMMA SessionInvariant == SessSpec => []SessInv
BY InitialSession, SessionStep, PTL DEF SessSpec

\* The log, its cursors and what is attached to it stay well formed.
THEOREM SessionTyped == SessSpec => []SessTypeOK
<1>1. SessInv => SessTypeOK
  BY DEF SessInv, TypeInv, LogInv, BufferInv, GoodLog, SessTypeOK, Client
<1> QED BY <1>1, SessionInvariant, PTL

\* Whatever replicas append through the shared blob, clear it or lose the
\* answer of a commit (CASEventLog.commit): a cursor names one event, the
\* cursors of a generation have no holes, and the log ends with its last.
THEOREM CursorsNameEvents == SessSpec => []SessCursorsUnique
<1>1. SessInv => SessCursorsUnique
  <2> SUFFICES ASSUME SessInv PROVE SessCursorsUnique
    OBVIOUS
  <2>1. TypeInv /\ LogInv /\ GoodLog(log)
    BY DEF SessInv, LogInv
  <2>2. /\ past \subseteq Nat \X Nat \X SessEvents /\ DOMAIN log.events = 1 .. Len(log.events)
    BY <2>1 DEF TypeInv, SessLogs, LogOver
  <2>3. ASSUME NEW a \in past, a[2] > 1 PROVE \E b \in past : b[1] = a[1] /\ b[2] = a[2] - 1
    <3>1. a[2] \in Nat
      BY <2>2
    <3>2. a[2] - 1 \in 1 .. a[2]
      BY <2>3, <3>1
    <3> QED BY <2>1, <3>2 DEF LogInv
  <2>4. \A i \in DOMAIN log.events :
           /\ log.events[i][1] = log.seq - Len(log.events) + i
           /\ <<log.gen, log.events[i][1], log.events[i][2]>> \in past
    BY <2>1, <2>2 DEF LogInv, GoodLog
  <2>5. \A a, b \in past : a[1] = b[1] /\ a[2] = b[2] => a = b
    BY <2>1 DEF LogInv
  <2> QED BY <2>3, <2>4, <2>5 DEF SessCursorsUnique
<1> QED BY <1>1, SessionInvariant, PTL

\* Cursors are ordered as pairs.
LEMMA EarlierIsStrict ==
  ASSUME NEW a \in Nat \X Nat, NEW b \in Nat \X Nat, NEW c \in Nat \X Nat
  PROVE  /\ ~Earlier(a, a)
         /\ Earlier(a, b) /\ Earlier(b, c) => Earlier(a, c)
<1>1. a[1] \in Nat /\ a[2] \in Nat /\ b[1] \in Nat /\ b[2] \in Nat /\ c[1] \in Nat /\ c[2] \in Nat
  OBVIOUS
<1> QED BY <1>1 DEF Earlier

\* A position skipped between a send and the one before it, or the snapshot,
\* lies between the two sends.
LEMMA SkippedLiesBetween ==
  ASSUME NEW g \in Nat, NEW s \in Nat, NEW w \in Nat \X Nat, NEW c \in Nat \X Nat,
         NEW k \in Int,
         c[1] = g, Earlier(w, c), k < c[2],
         k > (IF Earlier(<<g, s>>, w) THEN w ELSE <<g, s>>)[2]
  PROVE  k \in Nat /\ k > s /\ Earlier(w, <<g, k>>) /\ Earlier(<<g, k>>, c)
<1>1. w[1] \in Nat /\ w[2] \in Nat /\ c[1] \in Nat /\ c[2] \in Nat
  OBVIOUS
<1>2. <<g, s>>[1] = g /\ <<g, s>>[2] = s /\ <<g, k>>[1] = g /\ <<g, k>>[2] = k
  OBVIOUS
<1>3. CASE Earlier(<<g, s>>, w)
  <2>1. k > w[2] /\ k < c[2]
    BY <1>3
  <2>2. w[1] = g /\ w[2] > s
    BY <1>1, <1>2, <1>3 DEF Earlier
  <2> QED BY <1>1, <1>2, <2>1, <2>2 DEF Earlier
<1>4. CASE ~Earlier(<<g, s>>, w)
  <2>1. k > s /\ k < c[2]
    BY <1>2, <1>4
  <2>2. w[1] < g \/ (w[1] = g /\ w[2] <= s)
    BY <1>1, <1>2, <1>4 DEF Earlier
  <2> QED BY <1>1, <1>2, <2>1, <2>2 DEF Earlier
<1> QED BY <1>3, <1>4

\* What an attached client is sent after its snapshot is in order, and skips
\* only what other processes published (addSessionSubscriber,
\* PublishSessionEvent, activateSessionSubscriber).
THEOREM SendsHaveNoHoles == SessSpec => []SessSendsGapless
<1>1. SessInv => SessSendsGapless
  <2> SUFFICES ASSUME SessInv, client.pc = "live" PROVE SessSendsGapless
    BY DEF SessSendsGapless
  <2> DEFINE B == client.sent
             g == client.gen
             s == client.seq
  <2>1. /\ TypeInv /\ LogInv /\ BufferInv /\ BufferOf(client) = B /\ ~client.overflow
        /\ B \in Seq(Nat \X Nat) /\ Len(B) \in Nat /\ DOMAIN B = 1 .. Len(B)
        /\ g \in Nat /\ s \in Nat
        /\ past \subseteq Nat \X Nat \X SessEvents
    <3>1. TypeInv /\ LogInv /\ BufferInv
      BY DEF SessInv
    <3>2. BufferOf(client) = B /\ ~client.overflow
      BY <3>1 DEF BufferOf, BufferInv
    <3>3. client \in Client /\ past \subseteq Nat \X Nat \X SessEvents
      BY <3>1 DEF TypeInv
    <3> QED BY <3>1, <3>2, <3>3 DEF Client
  <2>f. \A c \in Nat \X Nat : (c[1] = client.gen /\ c[2] > client.seq /\ Given(c)) => Accounted(c)
    <3> SUFFICES ASSUME NEW c \in Nat \X Nat, c[1] = client.gen, c[2] > client.seq, Given(c)
                 PROVE  Accounted(c)
      OBVIOUS
    <3>1. PICK a \in past : a[1] = c[1] /\ a[2] = c[2]
      BY DEF Given
    <3>2. <<a[1], a[2]>> = c /\ a[1] = client.gen /\ a[2] > client.seq
      BY <3>1
    <3> QED BY <2>1, <3>2 DEF BufferInv
  <2>b. \A i \in 1 .. Len(B) :
           /\ Given(B[i])
           /\ \A j \in 1 .. Len(B) : i < j => Earlier(B[i], B[j])
           /\ \A p \in SessPublisher : AtClient(p) => Earlier(B[i], Cursor(p))
    BY <2>1 DEF BufferInv
  <2>g. client.sent = B /\ client.gen = g /\ client.seq = s
    OBVIOUS
  <2> HIDE DEF B, g, s
  <2>t. \A i \in 1 .. Len(B) : B[i] \in Nat \X Nat
    BY <2>1
  <2>3. \A i \in 2 .. Len(B) : i - 1 \in 1 .. Len(B) /\ Earlier(B[i - 1], B[i])
    <3> SUFFICES ASSUME NEW i \in 2 .. Len(B)
                 PROVE  i - 1 \in 1 .. Len(B) /\ Earlier(B[i - 1], B[i])
      OBVIOUS
    <3>1. i - 1 \in 1 .. Len(B) /\ i \in 1 .. Len(B) /\ i - 1 < i
      BY <2>1
    <3> QED BY <2>b, <3>1
  <2>4. ASSUME NEW i \in 1 .. Len(B), B[i][1] = g,
               NEW k \in (IF i > 1 /\ Earlier(<<g, s>>, B[i - 1]) THEN B[i - 1] ELSE <<g, s>>)[2] + 1
                         .. B[i][2] - 1
        PROVE  <<g, k>> \in missed
    <3> DEFINE at == <<g, k>>
    <3>0. B[i] \in Nat \X Nat /\ B[i][1] \in Nat /\ B[i][2] \in Nat
      BY <2>t
    <3>1. /\ k \in Nat /\ k > s /\ Earlier(at, B[i])
          /\ i > 1 => Earlier(B[i - 1], at)
      <4>1. CASE i > 1
        <5>1. i \in 2 .. Len(B)
          BY <2>1, <4>1
        <5>2. B[i - 1] \in Nat \X Nat /\ Earlier(B[i - 1], B[i])
          BY <2>3, <2>t, <5>1
        <5>3. k \in (IF Earlier(<<g, s>>, B[i - 1]) THEN B[i - 1] ELSE <<g, s>>)[2] + 1 .. B[i][2] - 1
          BY <4>1
        <5> DEFINE w == B[i - 1]
                   c == B[i]
        <5>4. /\ w \in Nat \X Nat /\ c \in Nat \X Nat /\ c[1] = g /\ Earlier(w, c)
              /\ k \in Int /\ k > (IF Earlier(<<g, s>>, w) THEN w ELSE <<g, s>>)[2] /\ k < c[2]
          <6>1. /\ w \in Nat \X Nat /\ c \in Nat \X Nat /\ c[1] = g /\ Earlier(w, c)
                /\ k \in (IF Earlier(<<g, s>>, w) THEN w ELSE <<g, s>>)[2] + 1 .. c[2] - 1
            BY <2>4, <3>0, <5>2, <5>3
          <6> HIDE DEF w, c
          <6>2. w[2] \in Nat /\ c[2] \in Nat /\ <<g, s>>[2] = s
            BY <6>1
          <6>3. (IF Earlier(<<g, s>>, w) THEN w ELSE <<g, s>>)[2] \in Nat
            BY <2>1, <6>2
          <6> QED BY <6>1, <6>2, <6>3
        <5> HIDE DEF w, c
        <5>5. k \in Nat /\ k > s /\ Earlier(w, <<g, k>>) /\ Earlier(<<g, k>>, c)
          BY <2>1, <5>4, SkippedLiesBetween
        <5> QED BY <5>5 DEF w, c
      <4>2. CASE ~(i > 1)
        <5>1. k \in s + 1 .. B[i][2] - 1
          BY <4>2
        <5> QED BY <2>1, <2>4, <3>0, <4>2, <5>1 DEF Earlier
      <4> QED BY <4>1, <4>2
    <3>2. at \in Nat \X Nat /\ at[1] = g /\ at[2] = k
      BY <2>1, <3>1
    <3> HIDE DEF at
    <3>3. Given(at)
      <4>1. PICK a \in past : a[1] = B[i][1] /\ a[2] = B[i][2]
        BY <2>b DEF Given
      <4>2. k \in 1 .. a[2]
        BY <2>1, <3>0, <3>1, <4>1
      <4>3. PICK b \in past : b[1] = a[1] /\ b[2] = k
        BY <2>1, <4>2 DEF LogInv
      <4> QED BY <2>4, <3>2, <4>1, <4>3 DEF Given
    <3>4. Accounted(at)
      BY <2>f, <2>g, <3>1, <3>2, <3>3
    <3>5. ASSUME NEW j \in 1 .. Len(B) PROVE B[j] # at
      <4>1. B[j] \in Nat \X Nat
        BY <2>t
      <4>2. CASE j = i
        BY <3>0, <3>1, <3>2, <4>2, EarlierIsStrict
      <4>3. CASE i < j
        <5>1. Earlier(B[i], B[j])
          BY <2>b, <4>3
        <5>2. Earlier(at, B[j])
          BY <3>0, <3>1, <3>2, <4>1, <5>1, EarlierIsStrict
        <5> QED BY <3>2, <5>2, EarlierIsStrict
      <4>4. CASE j < i
        <5>1. i \in 2 .. Len(B) /\ i - 1 \in 1 .. Len(B) /\ (j = i - 1 \/ j < i - 1)
          BY <2>1, <4>4, SMTT(30)
        <5>2. B[i - 1] \in Nat \X Nat /\ Earlier(B[i - 1], at)
          BY <2>t, <3>1, <5>1
        <5>3. j < i - 1 => Earlier(B[j], B[i - 1])
          BY <2>b, <5>1
        <5>4. Earlier(B[j], at)
          BY <3>2, <4>1, <5>1, <5>2, <5>3, EarlierIsStrict
        <5> QED BY <3>2, <5>4, EarlierIsStrict
      <4> QED BY <2>1, <4>2, <4>3, <4>4
    <3>6. ASSUME NEW p \in SessPublisher, AtClient(p) PROVE Cursor(p) # at
      <4>1. Earlier(B[i], Cursor(p))
        BY <2>b, <3>6
      <4> SUFFICES ASSUME Cursor(p) = at PROVE FALSE
        OBVIOUS
      <4>2. Earlier(at, at)
        <5>1. Earlier(B[i], at)
          BY <4>1
        <5> QED BY <3>0, <3>1, <3>2, <5>1, EarlierIsStrict
      <4> QED BY <3>2, <4>2, EarlierIsStrict
    <3>7. at \in missed
      BY <2>1, <2>g, <3>4, <3>5, <3>6 DEF Accounted
    <3> QED BY <3>7 DEF at
  <2>5. /\ \A i \in 2 .. Len(B) : Earlier(B[i - 1], B[i])
        /\ \A i \in DOMAIN B :
              B[i][1] = g =>
                 \A k \in (IF i > 1 /\ Earlier(<<g, s>>, B[i - 1]) THEN B[i - 1] ELSE <<g, s>>)[2] + 1
                          .. B[i][2] - 1 : <<g, k>> \in missed
    BY <2>1, <2>3, <2>4
  <2> QED BY <2>5 DEF SessSendsGapless, B, g, s
<1> QED BY <1>1, SessionInvariant, PTL

\* A replay that is said to be complete has the events after the client's
\* cursor up to its snapshot, and no other (replayLocked).
THEOREM ReplaysAreExact == SessSpec => []SessReplayExact
<1>1. SessInv => SessReplayExact
  BY DEF SessInv, ClientInv
<1> QED BY <1>1, SessionInvariant, PTL

-----------------------------------------------------------------------------
(* Snapshots: as long as the projection has room for the messages of the   *)
(* session, the log itself has all finals of its generation.               *)

SnapInv ==
    /\ \A a \in past : a[1] = log.gen /\ a[3][1] = "final" => a[3][2] \in log.final
    /\ SessSnapshotComplete

LEMMA SnapAppend ==
  ASSUME Fits(SessPublisher), SessInv, SnapInv, NEW p \in SessPublisher,
         log = publisher[p].prev, Applied(p), client' = client
  PROVE  SnapInv'
<1> DEFINE e == EventOf(p)
           new == <<log.gen, log.seq + 1, e>>
<1>1. /\ log'.gen = log.gen /\ past' = past \cup {new} /\ TypeInv /\ LogInv /\ ClientInv
  BY AppendKeeps DEF SessInv
<1>2. /\ log \in LogOver(SessPublisher) /\ GoodLog(log) /\ e \in EventOver(SessPublisher)
      /\ client.seq \in Nat /\ client.gen \in Nat /\ log.seq \in Nat /\ log.gen \in Nat
  BY <1>1, EventOfTyped DEF TypeInv, LogInv, SessLogs, SessEvents, Client, LogOver
<1>3. log'.final = log.final \cup (IF e[1] = "final" THEN {e[2]} ELSE {})
  <2>1. log' = Extended(log, e)
    BY DEF Applied
  <2> HIDE DEF e
  <2> QED BY <1>2, <2>1, FinalsStay
<1> HIDE DEF e
<1>4. new[1] = log.gen /\ new[2] = log.seq + 1 /\ new[3] = e
  OBVIOUS
<1>5. ~(new[1] = client.gen /\ new[2] <= client.seq)
  BY <1>1, <1>2, <1>4 DEF ClientInv
<1>6. ASSUME NEW a \in past', a[1] = log.gen, a[3][1] = "final" PROVE a[3][2] \in log'.final
  BY <1>1, <1>3, <1>4, <1>6 DEF SnapInv
<1>7. SessSnapshotComplete'
  BY <1>1, <1>5 DEF SnapInv, SessSnapshotComplete
<1> QED BY <1>1, <1>6, <1>7 DEF SnapInv

\* A step that appends nothing, and after which a snapshot has what it had.
LEMMA SnapStays ==
  ASSUME SnapInv, log' = log, past' = past,
         client'.pc \in {"captured", "live"} =>
            /\ client.pc \in {"captured", "live"}
            /\ client'.gen = client.gen /\ client'.seq = client.seq /\ client'.view = client.view
  PROVE  SnapInv'
BY DEF SnapInv, SessSnapshotComplete

LEMMA SnapStep ==
  ASSUME Fits(SessPublisher), SessInv, SnapInv, [SessNext]_sessVars PROVE SnapInv'
<1>0. TypeInv /\ LogInv /\ client \in Client /\ publisher \in [SessPublisher -> Publisher]
  BY DEF SessInv, TypeInv
<1>1. ASSUME NEW p \in SessPublisher, SessBegin(p) \/ SessRead(p) \/ SessSave(p) PROVE SnapInv'
  BY <1>1, SnapStays DEF SessBegin, SessRead, SessSave
<1>2. ASSUME NEW p \in SessPublisher, SessSwap(p) \/ SessFault(p) PROVE SnapInv'
  <2>1. client' = client
    BY <1>2 DEF SessSwap, SessFault
  <2>2. (log = publisher[p].prev /\ Applied(p)) \/ (log' = log /\ past' = past)
    <3> HIDE DEF Applied
    <3>1. CASE SessSwap(p)
      <4>1. CASE log = publisher[p].prev
        BY <3>1, <4>1 DEF SessSwap
      <4>2. CASE log # publisher[p].prev
        BY <3>1, <4>2 DEF SessSwap
      <4> QED BY <4>1, <4>2
    <3>2. CASE SessFault(p)
      BY <3>2 DEF SessFault
    <3> QED BY <1>2, <3>1, <3>2
  <2> QED BY <2>1, <2>2, SnapAppend, SnapStays
<1>3. ASSUME NEW p \in SessPublisher, SessNotify(p) PROVE SnapInv'
  <2>1. log' = log /\ past' = past
    BY <1>3 DEF SessNotify
  <2>2. client' = client \/ client' = Published(client, Cursor(p))
    BY <1>3 DEF SessNotify, Cursor
  <2>3. Cursor(p) \in Nat \X Nat /\ Len(client.pending) <= AttachBuffer
    <3>1. publisher[p].prev \in SessLogs
      BY <1>0 DEF Publisher
    <3> QED BY <3>1 DEF Cursor, SessLogs, LogOver, SessInv, BufferInv
  <2>4. client'.pc = client.pc /\ client'.gen = client.gen /\ client'.seq = client.seq
        /\ client'.view = client.view
    <3> HIDE DEF Cursor
    <3> QED BY <1>0, <2>2, <2>3, PublishedFacts
  <2> QED BY <2>1, <2>4, SnapStays
<1>4. CASE SessSubscribe \/ SessLoad
  <2>1. log' = log /\ past' = past
    BY <1>4 DEF SessSubscribe, SessLoad
  <2>2. client'.pc \in {"subscribed", "loaded"}
    <3>1. CASE SessSubscribe
      BY <3>1 DEF SessSubscribe, NoClient
    <3>2. CASE SessLoad
      BY <1>0, <3>2 DEF SessLoad, Client
    <3> QED BY <1>4, <3>1, <3>2
  <2> QED BY <2>1, <2>2, SnapStays
<1>5. CASE SessCapture
  <2>1. log' = log /\ past' = past
    BY <1>5 DEF SessCapture
  <2>2. client'.gen = log.gen /\ client'.seq = log.seq /\ log.final \subseteq client'.view
    BY <1>0, <1>5 DEF SessCapture, Client
  <2> QED BY <2>1, <2>2 DEF SnapInv, SessSnapshotComplete
<1>6. CASE SessActivate
  <2>1. log' = log /\ past' = past /\ client.pc = "captured"
    BY <1>6 DEF SessActivate
  <2>2. client'.gen = client.gen /\ client'.seq = client.seq /\ client'.view = client.view
    BY <1>0, <1>6 DEF SessActivate, Client
  <2> QED BY <2>1, <2>2, SnapStays
<1>7. CASE SessClear \/ SessReset \/ SessDelete
  <2>1. past' = past /\ client' = client
    BY <1>7 DEF SessClear, SessReset, SessDelete
  <2>2. CASE log' = log
    BY <2>1, <2>2, SnapStays
  <2>3. CASE log' # log
    <3>1. log' = EmptyLog(log.gen + 1)
      BY <1>7, <2>3 DEF SessClear, SessReset, SessDelete
    <3>2. log'.gen = log.gen + 1
      BY <3>1 DEF EmptyLog
    <3>3. log.gen \in Nat /\ past \subseteq Nat \X Nat \X SessEvents
      BY <1>0 DEF TypeInv, SessLogs, LogOver
    <3>4. \A a \in past : a[1] # log'.gen
      BY <1>0, <3>2, <3>3 DEF LogInv
    <3> QED BY <2>1, <3>4 DEF SnapInv, SessSnapshotComplete
  <2> QED BY <2>2, <2>3
<1>8. CASE UNCHANGED sessVars
  BY <1>8, SnapStays DEF sessVars
<1> QED BY <1>1, <1>2, <1>3, <1>4, <1>5, <1>6, <1>7, <1>8 DEF SessNext

\* An attached client misses nothing: its snapshot is whole though transcript
\* and log are read one after the other (Coordinator.Attach), as long as the
\* projection has room for the messages of the session (MaxEvents); what
\* follows is in order, and a cursor it resumes from names one event for good.
THEOREM AttachedClientsMissNothing == Fits(SessPublisher) => (SessSpec => []SessSound)
<1> SUFFICES ASSUME Fits(SessPublisher) PROVE SessSpec => []SessSound
  OBVIOUS
<1>1. SessInit => SnapInv
  <2> SUFFICES ASSUME SessInit PROVE SnapInv
    OBVIOUS
  <2>1. past = {} /\ client.pc = "off"
    BY DEF SessInit, NoClient
  <2> QED BY <2>1 DEF SnapInv, SessSnapshotComplete
<1>2. SessInv /\ SnapInv /\ [SessNext]_sessVars => SnapInv'
  BY SnapStep
<1>3. SnapInv => SessSnapshotComplete
  BY DEF SnapInv
<1>4. SessSnapshotComplete /\ SessSendsGapless /\ SessCursorsUnique /\ SessReplayExact => SessSound
  BY DEF SessSound
<1>5. SessSpec => []SessSnapshotComplete
  BY <1>1, <1>2, <1>3, SessionInvariant, PTL DEF SessSpec
<1> QED BY <1>4, <1>5, SendsHaveNoHoles, CursorsNameEvents, ReplaysAreExact, PTL
=============================================================================
