---------------------------- MODULE MCTopicFiles ----------------------------
(* An instance of TopicFiles for TLC. *)
EXTENDS TopicFiles

CONSTANTS short, long

MCSize == [v \in Value |-> IF v = short THEN 1 ELSE 3]

\* "game.1" and "game_1", say.
OneFile == [t \in Topic |-> "game_1"]
=============================================================================
