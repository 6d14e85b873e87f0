---------------------------- MODULE JournalRecord ----------------------------
(***************************************************************************)
(* The checkpoint of one parent turn and the rules every store applies to  *)
(* it (pkg/turnjournal/journal.go): which records are valid, and which     *)
(* record may replace which.  A record is                                  *)
(*                                                                         *)
(*   [rev, phase, iter, reason, batch]                                     *)
(*                                                                         *)
(* reason says whether a failure reason is present; batch is None or the   *)
(* calls checkpointed for one assistant message,                           *)
(*                                                                         *)
(*   [assistant, calls : Seq([id, outcome, external, result])].            *)
(*                                                                         *)
(* Identities, digests and timestamps are left out: the store stamps them, *)
(* and a message reference stands for the identity and digest it holds.    *)
(***************************************************************************)
EXTENDS Naturals, Sequences, FiniteSets

CONSTANT None           \* the nil pointer: no batch, no external child, no result

TerminalPhase == {"completed", "failed", "interrupted"}
PendingPhase  == {"completing", "failing", "interrupting"}
WorkPhase     == {"prepared", "provider_pending", "tool_pending",
                  "waiting_external_child", "child_resolved"}
Phase         == WorkPhase \cup PendingPhase \cup TerminalPhase
ToolOutcome   == {"requested", "admitted", "confirmed", "uncertain"}

Terminal(r)        == r.phase \in TerminalPhase
PendingTerminal(r) == r.phase \in PendingPhase

AcknowledgedPhase(p) == CASE p = "completing"   -> "completed"
                          [] p = "failing"      -> "failed"
                          [] p = "interrupting" -> "interrupted"

(* The positions of b's calls with outcome o. *)
CallsWith(b, o)    == {k \in DOMAIN b.calls : b.calls[k].outcome = o}
toolBatchAll(b, o) == b.calls # <<>> /\ CallsWith(b, o) = DOMAIN b.calls

-----------------------------------------------------------------------------
(* Validate: the shape a record must have in its phase. *)

validCheckpoint(c) ==
  CASE c.outcome \in {"requested", "uncertain"} -> c.external = None /\ c.result = None
    [] c.outcome = "admitted"                   -> c.external # None /\ c.result = None
    [] c.outcome = "confirmed"                  -> c.result # None

(* Completed may carry a reason; every other phase has one exactly when it *)
(* is a failure or an interruption.                                        *)
validateTerminal(r) ==
  \/ r.phase = "completed"
  \/ r.reason <=> r.phase \in {"failing", "interrupting", "failed", "interrupted"}

batchFitsPhase(b, phase) ==
  LET n(o) == Cardinality(CallsWith(b, o)) IN
  CASE phase = "tool_pending" ->
         n("requested") > 0 /\ n("admitted") = 0 /\ n("uncertain") = 0
    [] phase = "waiting_external_child" -> Len(b.calls) = 1 /\ n("admitted") = 1
    [] phase = "child_resolved" ->
         Len(b.calls) = 1 /\ n("confirmed") = 1 /\ b.calls[1].external # None
    [] phase = "prepared" -> FALSE
    [] phase \in {"provider_pending", "completing", "completed"} ->
         n("confirmed") = Len(b.calls)
    [] phase \in {"failing", "failed"} -> n("requested") = 0 /\ n("uncertain") = 0
    [] phase \in {"interrupting", "interrupted"} -> n("requested") = 0

validateToolBatchForPhase(r) ==
  IF r.batch = None
  THEN r.phase \notin {"tool_pending", "waiting_external_child", "child_resolved"}
  ELSE /\ r.batch.calls # <<>>
       /\ \A j, k \in DOMAIN r.batch.calls :
            j # k => r.batch.calls[j].id # r.batch.calls[k].id
       /\ \A k \in DOMAIN r.batch.calls : validCheckpoint(r.batch.calls[k])
       /\ batchFitsPhase(r.batch, r.phase)

Validate(r) == r.rev # 0 /\ validateTerminal(r) /\ validateToolBatchForPhase(r)

-----------------------------------------------------------------------------
(* validateTransition: what a valid record may be replaced by. *)

allowedPhaseTransition(from, to) ==
  \/ from = to
  \/ from = "completing"   /\ to \in {"completed", "interrupted"}
  \/ from = "failing"      /\ to \in {"failed", "interrupted"}
  \/ from = "interrupting" /\ to = "interrupted"
  \/ from \in WorkPhase    /\ to \in {"failed", "interrupted"} \cup PendingPhase
  \/ <<from, to>> \in
       {<<"prepared", "provider_pending">>,
        <<"provider_pending", "tool_pending">>,
        <<"provider_pending", "completed">>,
        <<"tool_pending", "waiting_external_child">>,
        <<"tool_pending", "provider_pending">>,
        <<"waiting_external_child", "child_resolved">>,
        <<"child_resolved", "provider_pending">>,
        <<"child_resolved", "completed">>}

allowedToolOutcomeTransition(from, to) ==
  \/ from = to
  \/ from = "requested" /\ to # "requested"
  \/ from = "admitted"  /\ to = "confirmed"

sameToolBatchIdentity(b, c) ==
  /\ b.assistant = c.assistant
  /\ Len(b.calls) = Len(c.calls)
  /\ \A k \in DOMAIN b.calls : b.calls[k].id = c.calls[k].id

(* A fully confirmed batch gives way to the next fully requested one. *)
replacingConfirmed(r, s) ==
  /\ r.phase \in {"provider_pending", "child_resolved"}
  /\ s.phase = "tool_pending"
  /\ toolBatchAll(r.batch, "confirmed")
  /\ toolBatchAll(s.batch, "requested")

(* The calls of a batch advance, and keep the child and the result they have. *)
callsAdvance(b, c) ==
  \A k \in DOMAIN b.calls :
    /\ allowedToolOutcomeTransition(b.calls[k].outcome, c.calls[k].outcome)
    /\ b.calls[k].external # None => c.calls[k].external = b.calls[k].external
    /\ b.calls[k].result # None   => c.calls[k].result = b.calls[k].result

(* Mutant of batchMayBecome: a batch may be dropped in any state. *)
batchMayVanish(r, s) ==
  IF None \in {r.batch, s.batch}
  THEN TRUE
  ELSE \/ replacingConfirmed(r, s)
       \/ sameToolBatchIdentity(r.batch, s.batch) /\ callsAdvance(r.batch, s.batch)

batchMayBecome(r, s) ==
  CASE r.batch = None -> TRUE
    [] r.batch # None /\ s.batch = None ->
         /\ toolBatchAll(r.batch, "confirmed")
         /\ r.phase \in {"child_resolved", "provider_pending"}
    [] OTHER -> \/ replacingConfirmed(r, s)
                \/ sameToolBatchIdentity(r.batch, s.batch) /\ callsAdvance(r.batch, s.batch)

validateTransition(r, s) ==
  /\ ~ Terminal(r)
  /\ s.iter >= r.iter
  /\ allowedPhaseTransition(r.phase, s.phase)
  /\ batchMayBecome(r, s)

-----------------------------------------------------------------------------
(* What Update writes for a record handed in at revision r.rev, and whether *)
(* it may replace cur.                                                      *)
Stamped(r) ==
  [r EXCEPT !.rev = r.rev + 1,
            !.reason = r.reason /\ r.phase \notin WorkPhase \cup {"completing"}]

Replaces(cur, r) == LET s == Stamped(r) IN validateTransition(cur, s) /\ Validate(s)

(* The record Create writes. *)
PreparedRecord == [rev |-> 1, phase |-> "prepared", iter |-> 0, reason |-> FALSE, batch |-> None]
=============================================================================
