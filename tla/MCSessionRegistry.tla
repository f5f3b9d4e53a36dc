------------------------- MODULE MCSessionRegistry -------------------------
(* Model-checking instance of SessionRegistry: two sessions, two uids, two *)
(* login requests, one chat request and two close() calls per session.   *)
EXTENDS SessionRegistry
=============================================================================
