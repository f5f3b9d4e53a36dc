---------------------------- MODULE MCPlayerData ----------------------------
(* Model-checking instance of PlayerData: two uids, exp gains of 60 (no    *)
(* level-up from level 1) and 150 (a level-up, so two Kafka messages), and *)
(* three AddExp requests, enough for a level-up to straddle a sync.        *)
EXTENDS PlayerData

MCGains == {60, 150}
=============================================================================
