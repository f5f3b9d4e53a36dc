---------------------------- MODULE FrameChannel ----------------------------
(***************************************************************************)
(* What a connection promises the rest of the server (spec 4.2, the       *)
(* Connection): the frames the peer encoded are handed on in order, none   *)
(* twice or skipped, possibly several at a time; the frames handlers send  *)
(* go out one at a time in the order they were sent; once the connection  *)
(* has closed nothing is written, and nothing is handed on but what the    *)
(* read already completed at the close carried; a frame that was sent is  *)
(* eventually written unless the connection closes first; and an idle      *)
(* connection is eventually closed.                                        *)
(*                                                                         *)
(* The abstract specification of src/server/Session.cc, which the Session  *)
(* module is shown to implement.                                           *)
(***************************************************************************)
EXTENDS Naturals, Sequences

CONSTANTS
  InMsgs,     \* frames a peer may send
  OutMsgs     \* frames handlers may send

VARIABLES
  expected,   \* the frames the peer's bytes encode
  received,   \* the frames handed on to the dispatcher
  queued,     \* the frames handlers have sent, in order
  written,    \* the frames written to the socket
  open,       \* the connection is open
  pending     \* a read is outstanding that may still hand frames on

vars == <<expected, received, queued, written, open, pending>>

Init ==
  /\ expected \in Seq(InMsgs)
  /\ received = <<>> /\ queued = <<>> /\ written = <<>>
  /\ open = TRUE /\ pending = TRUE

\* One read hands on the next n frames, possibly none; the next read is
\* one that can hand frames on only while the connection is open.
Receive ==
  /\ pending
  /\ \E n \in Len(received) .. Len(expected) :
       received' = SubSeq(expected, 1, n)
  /\ pending' = open
  /\ UNCHANGED <<expected, queued, written, open>>

\* The outstanding read of a closed connection ends without data.
ReadEnd ==
  /\ ~open /\ pending
  /\ pending' = FALSE
  /\ UNCHANGED <<expected, received, queued, written, open>>

\* A handler sends f; this may happen after the close too.
Queue(f) ==
  /\ queued' = Append(queued, f)
  /\ UNCHANGED <<expected, received, written, open, pending>>

Write ==
  /\ open
  /\ Len(written) < Len(queued)
  /\ written' = Append(written, queued[Len(written) + 1])
  /\ UNCHANGED <<expected, received, queued, open, pending>>

\* The close may be the outstanding read's own failure, which ends it.
Close ==
  /\ open
  /\ open' = FALSE
  /\ pending' \in {pending, FALSE}
  /\ UNCHANGED <<expected, received, queued, written>>

Next == Receive \/ ReadEnd \/ (\E f \in OutMsgs : Queue(f)) \/ Write \/ Close

Spec == Init /\ [][Next]_vars /\ WF_vars(Write) /\ WF_vars(Close)
=============================================================================
