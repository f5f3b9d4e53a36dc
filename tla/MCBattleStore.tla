---------------------------- MODULE MCBattleStore ----------------------------
(* Model-checking instance of BattleStore: u1 has a Player row, u2 only a  *)
(* User row (registration makes no Player row); one AddExp of 60; two      *)
(* clients and one two-player room; hp 20 from the store or the default.   *)
EXTENDS BattleStore

MCGains == {60}
MCHpValues == {20, 100}
=============================================================================
