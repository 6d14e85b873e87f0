----------------------------- MODULE MCTurnModes -----------------------------
(***************************************************************************)
(* The concurrent and the serial loop in one run, over the same messages:  *)
(* s1 is sent to the serial loop only, p2 and p3 to the concurrent one.    *)
(***************************************************************************)
EXTENDS MCTurnRuntime

VARIABLE mode

SerialLoop == INSTANCE TurnRuntime WITH Concurrency <- 1, MaxTurns <- 2, MaxFetchErrors <- 1

ModesInit == Init /\ mode \in {"concurrent", "serial"}

ModesNext ==
    /\ \/ mode = "concurrent" /\ Next /\ s1 \in unfetched'
       \/ mode = "serial" /\ SerialLoop!Next /\ {p2, p3} \subseteq unfetched'
    /\ UNCHANGED mode

ModesSpec == ModesInit /\ [][ModesNext]_<<vars, mode>>

\* Neither loop returns before its turns have ended, see TurnRuntime.
LoopsReturnQuiescent ==
    IF mode = "serial" THEN SerialLoop!ReturnIsQuiescent ELSE ReturnIsQuiescent

\* The serial loop never has a turn to steer when it fetches, see TurnRuntime.
SerialLoopNeverParks == mode = "serial" => SerialLoop!SerialNeverParks

\* What the loops leave behind, at their return and between two fetches.
LoopsLeaveNothing == LoopsReturnQuiescent /\ SerialLoopNeverParks
=============================================================================
