------------------------------- MODULE MCClient -------------------------------
(* Model-checking instance of Client.  The pass run has two room ids (one  *)
(* entered, one possibly never created), five requests, one battle action  *)
(* and two pushes: enough for a login, an entered room, a battle start and *)
(* pushes to interleave with a later request.  The violation run needs     *)
(* only one room.                                                          *)
EXTENDS Client
=============================================================================
