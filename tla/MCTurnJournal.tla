---------------------------- MODULE MCTurnJournal ----------------------------
(* Instances of TurnJournal for TLC. *)
EXTENDS TurnJournal, TLC

CONSTANTS a1, a2, c1, c2, child, res

Symmetry == Permutations(Writer)

Call(id, o, e, r) == [id |-> id, outcome |-> o, external |-> e, result |-> r]

(* The states of a call that some record may show, and two that none may:  *)
(* a confirmed call without a result, an admitted one without a child.     *)
CallStates(id) ==
  {Call(id, "requested", None, None), Call(id, "uncertain", None, None),
   Call(id, "admitted", child, None), Call(id, "confirmed", child, res),
   Call(id, "confirmed", None, None), Call(id, "admitted", None, None)}

OneCallBatches ==
  {[assistant |-> a1, calls |-> <<s>>] : s \in CallStates(c1)}

(* The next message's call, and the same one with a sibling. *)
OtherBatches ==
  LET asked == Call(c2, "requested", None, None)
      done  == Call(c2, "confirmed", None, res) IN
  {[assistant |-> a2, calls |-> cs] : cs \in {<<asked>>, <<done>>}}
  \cup {[assistant |-> a1, calls |-> cs] : cs \in
         {<<Call(c1, "requested", None, None), asked>>,
          <<Call(c1, "confirmed", None, res), asked>>}}

NoBatches  == {}
AllBatches == OneCallBatches \cup OtherBatches

(***************************************************************************)
(* Two questions in one run.  "updates": two writers take one record       *)
(* through every phase and batch, and no scan runs.  "index": two tasks of *)
(* two owners are created, rewritten once without a batch, and scanned.    *)
(***************************************************************************)
VARIABLE scenario

Considered ==
  CASE scenario = "updates" ->
         /\ index \subseteq [task : {1}, owner : {CHOOSE o \in Owner : TRUE}]
         /\ \A w \in Writer :
              /\ pc[w] \notin {"scan", "listed"}
              /\ pc[w] = "index" => arg[w] = [task |-> 1, owner |-> CHOOSE o \in Owner : TRUE]
    [] scenario = "index" ->
         \A w \in Writer : next[w] # None => next[w].batch = None /\ next[w].rev <= 2

MCInit == JournalInit /\ scenario \in {"updates", "index"}
MCNext == Next /\ UNCHANGED scenario /\ Considered'
MCSpec == MCInit /\ [][MCNext]_<<vars, scenario>>
=============================================================================
