--------------------------- MODULE MCTurnRecovery ---------------------------
(* Instances of TurnRecovery for TLC. *)
EXTENDS TurnRecovery

(* Messages whose calls form one checkpointed batch. *)
OneBatch == {<<>>, <<"tool">>, <<"spawn">>, <<"safe", "safe">>}

(* A child and a tool called by one message. *)
Siblings == {<<>>, <<"spawn", "tool">>}
=============================================================================
