------------------------------- MODULE Session -------------------------------
(***************************************************************************)
(* One connection, src/server/Session.cc, from Session::start on.          *)
(*                                                                         *)
(* Every completion handler of the session is bound to its strand, so the  *)
(* read callback, the write callback, the heartbeat timer callback and the *)
(* lambdas send() posts each run alone: one action each.  send() itself is *)
(* called from worker threads and only posts.  The peer's byte stream is   *)
(* fixed up front and arrives in reads of any size; the peer may also      *)
(* reset the connection at any time, and a write may fail.  The cleanup    *)
(* task close() enqueues is the SessionRegistry module's business; here    *)
(* close() calls are counted.  Timers fire in any order relative to reads: *)
(* the model has no clock.                                                 *)
(***************************************************************************)
EXTENDS Naturals, Sequences, SequencesExt, Framing

CONSTANTS
  Streams,    \* possible peer streams: [bytes |-> ..., frames |-> frames a
              \* correct decoder hands on]
  OutFrames,  \* frames handlers send to this session
  MaxSends    \* bound on send() calls

VARIABLES
  stream,     \* the bytes the peer sends
  expected,   \* the frames they encode, up to the first malformed header
  pos,        \* how many of them the session has read
  buffer,     \* buffer_, the accumulator
  dispatched, \* frames handed to MessageDispatcher::Dispatch, in order
  open,       \* socket_ is open
  reading,    \* an async_read_some is outstanding
  readLive,   \* it was started on an open socket, so it may complete with data
  armed,      \* the heartbeat timer_ has a wait outstanding
  heartnum,   \* heartnum_
  posted,     \* send() lambdas posted to the strand, not yet run
  wq,         \* write_queue_
  writes,     \* buffers of outstanding async_write operations
  delivered,  \* frames written to the socket, in order
  sent,       \* history: frames passed to send(), in order
  closes      \* close() calls

vars == <<stream, expected, pos, buffer, dispatched, open, reading, readLive, armed,
          heartnum, posted, wq, writes, delivered, sent, closes>>

\* After Session::start: do_read() and heart_beat() have armed a read and
\* the timer.
Init ==
  /\ \E s \in Streams : stream = s.bytes /\ expected = s.frames
  /\ pos = 0 /\ buffer = <<>> /\ dispatched = <<>>
  /\ open = TRUE /\ reading = TRUE /\ readLive = TRUE /\ armed = TRUE /\ heartnum = 0
  /\ posted = <<>> /\ wq = <<>> /\ writes = <<>> /\ delivered = <<>>
  /\ sent = <<>> /\ closes = 0

\* Session::close: socket_.close() and enqueue the cleanup task; nothing
\* guards against a second call.
DoClose ==
  /\ open'   = FALSE
  /\ closes' = closes + 1

\* do_read's callback without error: heartnum_ = 0, append the bytes,
\* get_message (each frame goes to Dispatch, which resets heartnum_ again),
\* then do_read again.  The callback checks no open flag: a read that had
\* completed when close() ran still runs this branch, and the read it
\* re-arms on the closed socket can only fail.
ReadSome(k) ==
  LET got == GetMessage(buffer \o SubSeq(stream, pos + 1, pos + k)) IN
  /\ reading /\ readLive
  /\ pos + k <= Len(stream)
  /\ pos'        = pos + k
  /\ buffer'     = got.rest
  /\ dispatched' = dispatched \o got.frames
  /\ heartnum'   = 0
  /\ readLive'   = open
  /\ UNCHANGED <<stream, expected, open, reading, armed, posted, wq, writes,
                 delivered, sent, closes>>

\* do_read's callback with an error: the peer closed or reset the
\* connection, or close() already closed the socket (operation_aborted).
ReadFail ==
  /\ reading
  /\ reading' = FALSE
  /\ DoClose
  /\ UNCHANGED <<stream, expected, pos, buffer, dispatched, armed, heartnum,
                 posted, wq, writes, delivered, sent, readLive>>

\* Mutant of TimerFire: the limit is off by one.
TimerFireLate ==
  /\ armed
  /\ heartnum' = heartnum + 1
  /\ IF heartnum + 1 > 3
       THEN DoClose /\ armed' = FALSE
       ELSE UNCHANGED <<open, closes, armed>>
  /\ UNCHANGED <<stream, expected, pos, buffer, dispatched, reading, readLive,
                 posted, wq, writes, delivered, sent>>

\* Mutant of TimerFire: heart_beat() is not called again.
TimerFireOnce ==
  /\ armed
  /\ heartnum' = heartnum + 1
  /\ armed'    = FALSE
  /\ IF heartnum + 1 > 2 THEN DoClose ELSE UNCHANGED <<open, closes>>
  /\ UNCHANGED <<stream, expected, pos, buffer, dispatched, reading, readLive,
                 posted, wq, writes, delivered, sent>>

\* heart_beat's callback: the timer was never cancelled, so it always
\* expires without error; heartnum_++, close() past 2, else arm again.
TimerFire ==
  /\ armed
  /\ heartnum' = heartnum + 1
  /\ IF heartnum + 1 > 2
       THEN DoClose /\ armed' = FALSE
       ELSE UNCHANGED <<open, closes, armed>>
  /\ UNCHANGED <<stream, expected, pos, buffer, dispatched, reading, readLive,
                 posted, wq, writes, delivered, sent>>

\* Session::send from a worker: post the frame to the strand.
Send(f) ==
  /\ Len(sent) < MaxSends
  /\ posted' = Append(posted, f)
  /\ sent'   = Append(sent, f)
  /\ UNCHANGED <<stream, expected, pos, buffer, dispatched, open, reading,
                 readLive, armed, heartnum, wq, writes, delivered, closes>>

\* Mutant of RunSend: do_write is started whether or not one is running.
RunSendAlwaysWrite ==
  LET f == Head(posted) IN
  /\ posted /= <<>>
  /\ posted' = Tail(posted)
  /\ wq'     = Append(wq, f)
  /\ writes' = Append(writes, IF wq = <<>> THEN f ELSE Head(wq))
  /\ UNCHANGED <<stream, expected, pos, buffer, dispatched, open, reading,
                 readLive, armed, heartnum, delivered, sent, closes>>

\* The posted lambda: push to write_queue_, and start do_write on the
\* front only if the queue was empty before.
RunSend ==
  LET f == Head(posted) IN
  /\ posted /= <<>>
  /\ posted' = Tail(posted)
  /\ wq'     = Append(wq, f)
  /\ writes' = IF wq = <<>> THEN Append(writes, f) ELSE writes
  /\ UNCHANGED <<stream, expected, pos, buffer, dispatched, open, reading,
                 readLive, armed, heartnum, delivered, sent, closes>>

\* Mutant of WriteDone: a successful write does not pop write_queue_.
WriteDoneKeepFront ==
  /\ writes /= <<>>
  /\ open
  /\ delivered' = Append(delivered, Head(writes))
  /\ writes'    = Append(Tail(writes), Head(wq))
  /\ UNCHANGED <<stream, expected, pos, buffer, dispatched, reading, readLive, armed,
                 heartnum, posted, wq, sent, open, closes>>

\* do_write's callback.  Success (only on an open socket): pop the front
\* and write the next one if any.  Failure: close(); the failed frame stays
\* at the front of write_queue_.
WriteDone ==
  /\ writes /= <<>>
  /\ \/ /\ open
        /\ delivered' = Append(delivered, Head(writes))
        /\ wq'        = Tail(wq)
        /\ writes'    = IF Tail(wq) = <<>> THEN Tail(writes)
                        ELSE Append(Tail(writes), Head(Tail(wq)))
        /\ UNCHANGED <<open, closes>>
     \/ /\ writes' = Tail(writes)
        /\ DoClose
        /\ UNCHANGED <<delivered, wq>>
  /\ UNCHANGED <<stream, expected, pos, buffer, dispatched, reading, readLive, armed,
                 heartnum, posted, sent>>

Next ==
  \/ \E k \in 1 .. Len(stream) : ReadSome(k)
  \/ ReadFail \/ TimerFire \/ RunSend \/ WriteDone
  \/ \E f \in OutFrames : Send(f)

\* The io_context runs every completion that is ready: an armed timer
\* expires, a posted lambda runs, a write completes, and a read on a closed
\* socket completes with operation_aborted.
Fairness ==
  /\ WF_vars(TimerFire) /\ WF_vars(RunSend) /\ WF_vars(WriteDone)
  /\ WF_vars(~open /\ ReadFail)

Spec == Init /\ [][Next]_vars /\ Fairness
-----------------------------------------------------------------------------
TypeOK ==
  /\ pos \in 0 .. Len(stream)
  /\ buffer \in Seq(0 .. 255)
  /\ dispatched \in Seq(Frame)
  /\ open \in BOOLEAN /\ reading \in BOOLEAN /\ readLive \in BOOLEAN /\ armed \in BOOLEAN
  /\ heartnum \in 0 .. 3
  /\ posted \in Seq(OutFrames) /\ wq \in Seq(OutFrames)
  /\ writes \in Seq(OutFrames) /\ delivered \in Seq(OutFrames)
  /\ sent \in Seq(OutFrames)
  /\ closes \in Nat

\* Framing under any split of the stream into reads (sticky and partial
\* packets): the frames dispatched are, in order, the frames the peer
\* encoded, and once all its bytes are read all of them up to the first
\* malformed header have been dispatched.
FramingCorrect ==
  /\ IsPrefix(dispatched, expected)
  /\ pos = Len(stream) => dispatched = expected

\* Single writer: at most one async_write is outstanding, and the frames
\* reach the socket in the order send() was called, none twice or skipped.
WriteOrder ==
  /\ Len(writes) <= 1
  /\ IsPrefix(delivered, sent)

\* Heartbeat: once the peer has nothing more to send, the session is
\* eventually closed.
IdleSessionCloses ==
  (pos = Len(stream)) ~> ~open

\* The session implements the connection contract of FrameChannel: the
\* frames dispatched, the frames sent and the frames written to the socket
\* behave as a channel that hands on the peer's frames in order, writes the
\* sent frames in order one at a time, hands on nothing once closed but
\* what the read already completed at the close carried, writes nothing
\* once closed, writes
\* every sent frame unless it closes first, and eventually closes.
FC == INSTANCE FrameChannel WITH
        InMsgs <- Frame, OutMsgs <- OutFrames,
        expected <- expected, received <- dispatched, queued <- sent,
        written <- delivered, open <- open, pending <- reading /\ readLive

FrameChannelSpec == FC!Spec
=============================================================================
