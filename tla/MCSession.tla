------------------------------ MODULE MCSession ------------------------------
(* Model-checking instance of Session.  The peer sends one of:             *)
(*  - a login frame (msgid 5, empty body) then a ready frame (msgid 13,    *)
(*    one byte of body): 13 bytes, split into reads in every way;          *)
(*  - a header of length 1 (below the minimum 2), then a login frame;      *)
(*  - a header of length 10 MiB + 1 (above the maximum) and a msgid;       *)
(*  - a header of exactly 10 MiB and a msgid: legal, so the session waits  *)
(*    for the rest.                                                        *)
(* Handlers send two frames to the session.                                *)
EXTENDS Session

Login == [id |-> 5, body |-> <<>>]
Ready == [id |-> 13, body |-> <<1>>]

MCStreams ==
  { [bytes |-> EncodeAll(<<Login, Ready>>), frames |-> <<Login, Ready>>],
    [bytes |-> BE32(1) \o BE16(5) \o Encode(Login), frames |-> <<>>],
    [bytes |-> BE32(MaxMsgLen + 1) \o BE16(5), frames |-> <<>>],
    [bytes |-> BE32(MaxMsgLen) \o BE16(5), frames |-> <<>>] }
=============================================================================
