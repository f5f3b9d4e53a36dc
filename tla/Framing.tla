------------------------------- MODULE Framing -------------------------------
(***************************************************************************)
(* The wire format: u32 big-endian length L (msgid + payload), u16         *)
(* big-endian msgid, L - 2 payload bytes.  Bytes are naturals below 256.   *)
(*                                                                         *)
(* Encode is SessionManager::buildMsg (htonl/htons and memcpy).            *)
(* GetMessage is the loop of Session::get_message run over the             *)
(* accumulator: it returns the frames it hands to handle_message, in       *)
(* order, the bytes it leaves in buffer_, and whether it stopped on an     *)
(* abnormal length (it then returns without consuming anything).           *)
(***************************************************************************)
EXTENDS Naturals, Sequences

\* The bound of get_message: 1024 * 1024 * 10.
MaxMsgLen == 1024 * 1024 * 10

Frame == [id : 0 .. 65535, body : Seq(0 .. 255)]

\* htonl / htons followed by memcpy into the buffer.
BE32(n) == << (n \div 16777216) % 256, (n \div 65536) % 256,
              (n \div 256) % 256, n % 256 >>
BE16(n) == << (n \div 256) % 256, n % 256 >>

\* memcpy out of the buffer followed by ntohl / ntohs.
ValueBE32(b) == ((b[1] * 256 + b[2]) * 256 + b[3]) * 256 + b[4]
ValueBE16(b) == b[1] * 256 + b[2]

\* SessionManager::buildMsg(msgid, data)
Encode(f) == BE32(Len(f.body) + 2) \o BE16(f.id) \o f.body

RECURSIVE EncodeAll(_)
EncodeAll(fs) == IF fs = <<>> THEN <<>> ELSE Encode(Head(fs)) \o EncodeAll(Tail(fs))

\* The length test of get_message: total_len > 10 MiB or total_len < 2.
AbnormalLength(len) == len > MaxMsgLen \/ len < 2

\* Mutant of GetMessage: only total_len bytes are erased, not the header.
RECURSIVE GetMessageKeepHeader(_)
GetMessageKeepHeader(buf) ==
  IF Len(buf) < 6 THEN [frames |-> <<>>, rest |-> buf, error |-> FALSE]
  ELSE
    LET len == ValueBE32(SubSeq(buf, 1, 4)) IN
    IF AbnormalLength(len) THEN [frames |-> <<>>, rest |-> buf, error |-> TRUE]
    ELSE IF Len(buf) < 4 + len THEN [frames |-> <<>>, rest |-> buf, error |-> FALSE]
    ELSE
      LET f    == [id |-> ValueBE16(SubSeq(buf, 5, 6)), body |-> SubSeq(buf, 7, 4 + len)]
          more == GetMessageKeepHeader(SubSeq(buf, 1 + len, Len(buf)))
      IN  [more EXCEPT !.frames = <<f>> \o @]

\* Session::get_message over buf: while at least 6 bytes are buffered,
\* read total_len; stop with the buffer untouched on an abnormal length or
\* when fewer than 4 + total_len bytes are there; otherwise hand
\* (msgid, body) on and erase 4 + total_len bytes.
RECURSIVE GetMessage(_)
GetMessage(buf) ==
  IF Len(buf) < 6 THEN [frames |-> <<>>, rest |-> buf, error |-> FALSE]
  ELSE
    LET len == ValueBE32(SubSeq(buf, 1, 4)) IN
    IF AbnormalLength(len) THEN [frames |-> <<>>, rest |-> buf, error |-> TRUE]
    ELSE IF Len(buf) < 4 + len THEN [frames |-> <<>>, rest |-> buf, error |-> FALSE]
    ELSE
      LET f    == [id |-> ValueBE16(SubSeq(buf, 5, 6)), body |-> SubSeq(buf, 7, 4 + len)]
          more == GetMessage(SubSeq(buf, 5 + len, Len(buf)))
      IN  [more EXCEPT !.frames = <<f>> \o @]
=============================================================================
