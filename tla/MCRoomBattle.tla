---------------------------- MODULE MCRoomBattle ----------------------------
(* Model-checking instance of RoomBattle: two clients, three uids (so a    *)
(* two-player room can be refused as full), one room, a battle hp of 20    *)
(* from the store or the default 100, and the handler's 10 damage.         *)
EXTENDS RoomBattle

MCHpValues == {20, 100}
=============================================================================
