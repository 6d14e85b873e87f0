---------------------------- MODULE WorkspaceFiles ----------------------------
(***************************************************************************)
(* The local tools that change files of a workspace, run by turns of       *)
(* several threads at once, and the bounded output of the commands they    *)
(* run.  A patch is staged in memory over all its files and then committed *)
(* file by file, with a rollback; patches exclude each other, other writes *)
(* exclude nothing.                                                        *)
(*                                                                         *)
(* A file is a sequence of lines; a line is a text and the blanks around   *)
(* it, which matching may ignore.  The bytes of an output are numbered.    *)
(***************************************************************************)
LOCAL INSTANCE Integers
LOCAL INSTANCE Sequences
LOCAL INSTANCE SequencesExt
LOCAL INSTANCE FiniteSets

CONSTANTS
    WfPath,            \* files, as a sequence in the order of their names
    WfAtFirst,         \* path -> its lines, or NoFileYet
    WfCall,
    WfPlans,           \* what the calls do, and how many faults there are
    WfLimit, WfArchiveLimit, WfBytes,   \* bounds of an output
    NoFileYet, NotRead, NobodyYet

VARIABLES
    wfPlan, wfFiles,
    wfBy,              \* path -> who wrote it last
    wfLock,            \* patchMu
    wfCalls, wfOver,   \* the calls, and what patches have replaced
    wfFaults,
    wfOut              \* the output of a running command

wfVars == <<wfPlan, wfFiles, wfBy, wfLock, wfCalls, wfOver, wfFaults, wfOut>>

Paths == {WfPath[i] : i \in DOMAIN WfPath}
Half == IF WfArchiveLimit \div 2 < 1 THEN 1 ELSE WfArchiveLimit \div 2

WfInit ==
    /\ wfPlan \in WfPlans
    /\ wfFiles = WfAtFirst
    /\ wfBy = [p \in Paths |-> NobodyYet]
    /\ wfLock = NobodyYet
    /\ wfCalls = [c \in WfCall |->
          [pc |-> "ready", at |-> 1, states |-> [p \in Paths |-> NotRead],
           original |-> [p \in Paths |-> NotRead], saw |-> [p \in Paths |-> NobodyYet],
           changed |-> {}, touched |-> {}, chunked |-> {}, text |-> <<>>]]
    /\ wfOver = {}
    /\ wfFaults = wfPlan.faults
    /\ wfOut = [n |-> 0, buf |-> 0, truncated |-> FALSE, head |-> <<>>, tail |-> <<>>,
                start |-> 1, full |-> FALSE]

WfJob(c) == wfPlan.jobs[c]
WfAt(c, pc) == [wfCalls EXCEPT ![c].pc = pc]
Writes(c, p, content) ==
    /\ wfFiles' = [wfFiles EXCEPT ![p] = content]
    /\ wfBy' = [wfBy EXCEPT ![p] = c]

-----------------------------------------------------------------------------
\* WriteFile empties the file before it fills it; EditFile reads it first, and
\* replaces the one line it looks for.
WfTruncate(c) ==
    /\ \/ wfCalls[c].pc = "ready" /\ WfJob(c).kind = "write"
       \/ wfCalls[c].pc = "edited"
    /\ Writes(c, WfJob(c).path, <<>>)
    /\ wfCalls' = [wfCalls EXCEPT ![c].pc = "emptied",
                        ![c].text = IF wfCalls[c].pc = "ready" THEN WfJob(c).content ELSE @]
    /\ UNCHANGED <<wfPlan, wfLock, wfOver, wfFaults, wfOut>>

WfFill(c) ==
    /\ wfCalls[c].pc = "emptied"
    /\ Writes(c, WfJob(c).path, wfCalls[c].text)
    /\ wfCalls' = WfAt(c, "ok")
    /\ UNCHANGED <<wfPlan, wfLock, wfOver, wfFaults, wfOut>>

WfRead(c) ==
    LET file == wfFiles[WfJob(c).path]
        found == IF file = NoFileYet THEN {} ELSE {i \in DOMAIN file : file[i] = WfJob(c).old}
    IN  /\ wfCalls[c].pc = "ready" /\ WfJob(c).kind = "edit"
        /\ wfCalls' = IF Cardinality(found) = 1
                      THEN [wfCalls EXCEPT ![c].pc = "edited",
                               ![c].text = [i \in DOMAIN file |->
                                               IF i \in found THEN WfJob(c).new ELSE file[i]]]
                      ELSE WfAt(c, "failed")
        /\ UNCHANGED <<wfPlan, wfFiles, wfBy, wfLock, wfOver, wfFaults, wfOut>>

-----------------------------------------------------------------------------
\* Chunks: old lines are looked for from a cursor on, as they are and then with
\* their blanks ignored, at the end only if the chunk says so.
MatchesAt(lines, old, i, blanks) ==
    /\ i + Len(old) - 1 <= Len(lines)
    /\ \A j \in DOMAIN old : IF blanks THEN lines[i + j - 1].text = old[j].text
                             ELSE lines[i + j - 1] = old[j]

WfFirst(s) == CHOOSE i \in s : \A j \in s : i <= j

findPatchSequence(lines, old, cursor, eof) ==
    LET last == Len(lines) - Len(old) + 1
        begin == IF eof THEN last ELSE cursor
        Places(blanks) == {i \in begin..last : i > 0 /\ MatchesAt(lines, old, i, blanks)}
    IN  IF cursor > last THEN 0
        ELSE IF Places(FALSE) # {} THEN WfFirst(Places(FALSE))
        ELSE IF Places(TRUE) # {} THEN WfFirst(Places(TRUE)) ELSE 0

\* A chunk without old lines adds at the end of the file; NotRead: not found.
Chunk(p, chunk) ==
    LET context == IF chunk.context = <<>> THEN 0
                   ELSE findPatchSequence(p.lines, chunk.context, p.cursor, FALSE)
        cursor == IF chunk.context = <<>> THEN p.cursor ELSE context + 1
        at == findPatchSequence(p.lines, chunk.old, cursor, chunk.eof)
        Put(i) == [lines |-> SubSeq(p.lines, 1, i - 1) \o chunk.new
                             \o SubSeq(p.lines, i + Len(chunk.old), Len(p.lines)),
                   cursor |-> i + Len(chunk.new)]
    IN  IF chunk.context # <<>> /\ context = 0 THEN NotRead
        ELSE IF chunk.old = <<>> THEN Put(Len(p.lines) + 1)
        ELSE IF at = 0 THEN NotRead ELSE Put(at)

applyPatchChunks(lines, chunks) ==
    LET end == FoldLeft(LAMBDA p, k : IF p = NotRead THEN NotRead ELSE Chunk(p, k),
                        [lines |-> lines, cursor |-> 1], chunks)
    IN  IF end = NotRead THEN NotRead ELSE end.lines

-----------------------------------------------------------------------------
\* ApplyPatch: every file is read when its first operation comes up; an
\* operation that does not fit fails the patch before anything is written.
Seen(c, p) == IF wfCalls[c].states[p] = NotRead THEN wfFiles[p] ELSE wfCalls[c].states[p]

WfBegin(c) ==
    /\ wfCalls[c].pc = "ready" /\ WfJob(c).kind = "patch" /\ wfLock = NobodyYet
    /\ wfLock' = c /\ wfCalls' = WfAt(c, "staging")
    /\ UNCHANGED <<wfPlan, wfFiles, wfBy, wfOver, wfFaults, wfOut>>

\* What an operation makes of the files it names: <<path, content>> pairs.
Staged(c, op) ==
    LET here == Seen(c, op.path)
        text == IF op.kind = "update" /\ here # NoFileYet
                THEN applyPatchChunks(here, op.chunks) ELSE NotRead
    IN  CASE op.kind = "create" -> IF here = NoFileYet THEN {<<op.path, op.content>>} ELSE {}
          [] op.kind = "delete" -> IF here # NoFileYet THEN {<<op.path, NoFileYet>>} ELSE {}
          [] op.kind = "update" -> IF text = NotRead THEN {} ELSE {<<op.path, text>>}
          [] op.kind = "move" -> IF here # NoFileYet /\ Seen(c, op.to) = NoFileYet
                                 THEN {<<op.path, NoFileYet>>, <<op.to, here>>} ELSE {}

WfStage(c) ==
    LET call == wfCalls[c]
        op == WfJob(c).ops[call.at]
        named == IF op.kind = "move" THEN {op.path, op.to} ELSE {op.path}
        to == Staged(c, op)
        NewOf(p) == (CHOOSE e \in to : e[1] = p)[2]
    IN  /\ call.pc = "staging" /\ call.at \in DOMAIN WfJob(c).ops
        /\ IF to = {} THEN wfLock' = NobodyYet /\ wfCalls' = WfAt(c, "failed")
           ELSE /\ UNCHANGED wfLock
                /\ wfCalls' = [wfCalls EXCEPT ![c] = [@ EXCEPT
                      !.at = @ + 1,
                      !.states = [p \in Paths |-> IF p \in named THEN NewOf(p) ELSE @[p]],
                      !.original = [p \in Paths |-> IF p \in named /\ @[p] = NotRead
                                                    THEN Seen(c, p) ELSE @[p]],
                      !.saw = [p \in Paths |-> IF p \in named /\ call.original[p] = NotRead
                                               THEN wfBy[p] ELSE @[p]],
                      !.chunked = IF op.kind = "update"
                                  THEN @ \cup {<<Seen(c, op.path), op.chunks, NewOf(op.path)>>} ELSE @,
                      !.changed = @ \cup named]]
        /\ UNCHANGED <<wfPlan, wfFiles, wfBy, wfOver, wfFaults, wfOut>>

\* commitPatchStates: the files that stay are replaced in the order of their
\* names, then the others removed; the first failure ends it.
InOrder(c, states) ==
    SelectSeq(WfPath, LAMBDA p : p \in wfCalls[c].changed /\ states[p] # NoFileYet)
    \o SelectSeq(WfPath, LAMBDA p : p \in wfCalls[c].changed /\ states[p] = NoFileYet)

WfCommit(c) ==
    /\ wfCalls[c].pc = "staging" /\ wfCalls[c].at > Len(WfJob(c).ops)
    /\ wfCalls' = [wfCalls EXCEPT ![c].pc = "committing", ![c].at = 1]
    /\ UNCHANGED <<wfPlan, wfFiles, wfBy, wfLock, wfOver, wfFaults, wfOut>>

\* Either direction: the next file is written, the last one was, or one fails.
Commits(c, states, done, fallback) ==
    LET order == InOrder(c, states)
        p == order[wfCalls[c].at]
    IN  \/ /\ wfCalls[c].at <= Len(order)
           /\ Writes(c, p, states[p])
           /\ wfOver' = IF wfBy[p] \in {c, NobodyYet} THEN wfOver
                        ELSE wfOver \cup {[by |-> c, over |-> wfBy[p], saw |-> wfCalls[c].saw[p]]}
           /\ wfCalls' = [wfCalls EXCEPT ![c].at = @ + 1, ![c].touched = @ \cup {p}]
           /\ UNCHANGED <<wfLock, wfFaults>>
        \/ /\ wfCalls[c].at > Len(order)
           /\ wfLock' = NobodyYet /\ wfCalls' = WfAt(c, done)
           /\ UNCHANGED <<wfFiles, wfBy, wfOver, wfFaults>>
        \/ /\ wfCalls[c].at <= Len(order) /\ wfFaults > 0 /\ wfFaults' = wfFaults - 1
           /\ wfCalls' = [wfCalls EXCEPT ![c].pc = fallback, ![c].at = 1]
           /\ wfLock' = IF fallback = "broken" THEN NobodyYet ELSE wfLock
           /\ UNCHANGED <<wfFiles, wfBy, wfOver>>

WfCommitNext(c) ==
    /\ wfCalls[c].pc = "committing" /\ Commits(c, wfCalls[c].states, "ok", "restoring")
    /\ UNCHANGED <<wfPlan, wfOut>>

WfRollback(c) ==
    /\ wfCalls[c].pc = "restoring" /\ Commits(c, wfCalls[c].original, "failed", "broken")
    /\ UNCHANGED <<wfPlan, wfOut>>

-----------------------------------------------------------------------------
\* limitedBuffer: what fits is kept for the model; the archive keeps the first
\* half of its limit and, in a ring, the last half of what comes after.
RingByte(o, b) ==
    IF ~o.full
    THEN [o EXCEPT !.tail = Append(@, b), !.full = Len(o.tail) + 1 = Half,
                   !.start = IF Len(o.tail) + 1 = Half THEN 1 ELSE @]
    ELSE [o EXCEPT !.tail[o.start] = b, !.start = (o.start % Half) + 1]

Archived(o, bytes) ==
    LET room == Half - Len(o.head)
        rest == SubSeq(bytes, room + 1, Len(bytes))
        kept == IF Len(rest) > Half THEN SubSeq(rest, Len(rest) - Half + 1, Len(rest)) ELSE rest
    IN  IF Len(bytes) <= room THEN [o EXCEPT !.head = @ \o bytes]
        ELSE FoldLeft(RingByte, [o EXCEPT !.head = @ \o SubSeq(bytes, 1, room)], kept)

Limited(o, n) ==
    IF o.buf + n <= WfLimit THEN [o EXCEPT !.buf = @ + n]
    ELSE [o EXCEPT !.buf = WfLimit, !.truncated = TRUE]

WfOutput(n) ==
    /\ wfPlan.output /\ wfOut.n + n <= WfBytes
    /\ wfOut' = Archived(Limited([wfOut EXCEPT !.n = @ + n], n), [i \in 1..n |-> wfOut.n + i])
    /\ UNCHANGED <<wfPlan, wfFiles, wfBy, wfLock, wfCalls, wfOver, wfFaults>>

\* The archive as it is put away: head and tail, in order.
tailBytes == IF wfOut.full
             THEN SubSeq(wfOut.tail, wfOut.start, Half) \o SubSeq(wfOut.tail, 1, wfOut.start - 1)
             ELSE wfOut.tail

WfNext ==
    \/ \E c \in WfCall :
          \/ WfTruncate(c) \/ WfFill(c) \/ WfRead(c) \/ WfBegin(c) \/ WfStage(c) \/ WfCommit(c)
          \/ WfCommitNext(c) \/ WfRollback(c)
    \/ \E n \in 1..WfBytes : WfOutput(n)

-----------------------------------------------------------------------------
WfTypeOK ==
    /\ wfPlan \in WfPlans /\ wfLock \in WfCall \cup {NobodyYet}
    /\ \A c \in WfCall : wfCalls[c].changed \subseteq Paths /\ wfCalls[c].touched \subseteq Paths
    /\ Len(wfOut.tail) <= Half

\* A patch is all or nothing as far as it is the last writer: one that succeeded
\* has written every file it changes, one that failed and could roll back left
\* each as it had read it.
WfAllOrNothing ==
    \A c \in WfCall :
        WfJob(c).kind = "patch" =>
        /\ wfCalls[c].pc = "ok" =>
              /\ wfCalls[c].touched = wfCalls[c].changed
              /\ \A p \in wfCalls[c].changed : wfBy[p] = c => wfFiles[p] = wfCalls[c].states[p]
        /\ wfCalls[c].pc = "failed" =>
              \A p \in Paths : wfBy[p] = c => wfFiles[p] = wfCalls[c].original[p]

\* No patch is lost under another one: a patch that replaces what another wrote
\* had read that.
WfNoLostPatch ==
    \A o \in wfOver : WfJob(o.over).kind = "patch" => o.saw = o.over

\* A patched text is the text with its chunks put in at places that follow one
\* another, each where its old lines stood.
WfChunked ==
    \A c \in WfCall : \A k \in wfCalls[c].chunked :
        LET lines == k[1]
            chunks == k[2]
            News == FoldLeft(LAMBDA s, x : s \o x.new, <<>>, chunks)
            Olds == FoldLeft(LAMBDA s, x : s \o x.old, <<>>, chunks)
            Stay(s, used) == SelectSeq([i \in DOMAIN s |-> [i |-> i, x |-> s[i]]],
                                       LAMBDA e : e.i \notin used)
            Texts(s) == [i \in DOMAIN s |-> s[i].x]
        IN  \E gone \in SUBSET (1..Len(lines)), new \in SUBSET (1..Len(k[3])) :
               /\ Cardinality(gone) = Len(Olds) /\ Cardinality(new) = Len(News)
               /\ Texts(Stay(lines, gone)) = Texts(Stay(k[3], new))
               /\ LET g == Texts(Stay(lines, 1..Len(lines) \ gone))
                      n == Texts(Stay(k[3], 1..Len(k[3]) \ new))
                  IN  /\ \A i \in DOMAIN g : g[i].text = Olds[i].text
                      /\ n = News

\* However the output is cut into writes, the archive of a long one is its first
\* and its last bytes, in order.
WfArchive ==
    wfOut.head \o tailBytes =
        LET all == [i \in 1..wfOut.n |-> i]
            rest == SubSeq(all, Half + 1, wfOut.n)
        IN  SubSeq(all, 1, IF wfOut.n < Half THEN wfOut.n ELSE Half)
            \o SubSeq(rest, IF Len(rest) > Half THEN Len(rest) - Half + 1 ELSE 1, Len(rest))

FilesSound == WfAllOrNothing /\ WfNoLostPatch /\ WfChunked /\ WfArchive
===============================================================================
