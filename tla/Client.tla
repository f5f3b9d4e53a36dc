------------------------------- MODULE Client -------------------------------
(***************************************************************************)
(* The console client, src/client/client.cc, against one server session.   *)
(*                                                                         *)
(* The main thread runs the menu loop; each request goes through           *)
(* send_request, which registers a ResponseWaiter expecting msgid + 1 in   *)
(* g_response_waiters, writes the frame and blocks on the waiter's future. *)
(* An io thread runs the read loop start_async_read (header callback, body *)
(* callback, handle_message, re-arm), which hands a frame to the waiter    *)
(* whose expected msgid it carries, or else treats it as a server push.    *)
(*                                                                         *)
(* The server side is what MessageDispatcher's handlers send back to this  *)
(* session: one handler at a time, in request order (the session's tasks   *)
(* share a worker), and pushes from other players' activity.  Frames are   *)
(* whole: every frame the server builds has a valid length.  A payload is  *)
(* abstracted to its msgid and, for an ack, to its ok flag; a request's    *)
(* to the room id, the registered password, or the login uid and password. *)
(* Registration and login go through Usermodel (src/server/Usermodel.cc)   *)
(* to the MySQL table User.  Registration creates no Player row, so of a    *)
(* registered player's Redis hash only whether AddExp has created it, with *)
(* exp and level alone, matters to the replies.                            *)
(***************************************************************************)
EXTENDS Naturals, Sequences

CONSTANTS
  Rooms,        \* room ids the user may type
  Passwords,    \* passwords the user may type
  LoginUids,    \* uids the user may type at login
  MaxRequests,  \* bound on g_request_counter
  MaxActions,   \* bound on fire-and-forget battle actions
  MaxPushes,    \* bound on pushes from other players' activity
  None          \* model value: no room, or a future not yet ready

\* Message ids of include/public.h.
MSG_CHAT == 1
MSG_ZHUCE == 3
MSG_DENGLU == 5
MSG_DENGLUACK == 6
MSG_BACKPACK == 7
MSG_ADDEXP == 9
MSG_ENTER_ROOM == 11
MSG_READY == 13
MSG_READY_ACK == 14
MSG_BATTLE_ACTION == 15
MSG_BATTLE_SYNC == 16

\* The requests send_request carries, and the acks the server answers with.
Requests == {MSG_ZHUCE, MSG_DENGLU, MSG_BACKPACK, MSG_ADDEXP, MSG_ENTER_ROOM, MSG_READY}
Acks == {m + 1 : m \in Requests}

VARIABLES
  pc,         \* main thread: "menu", "waiting" (in future.get) or "exited"
  req,        \* [msg, arg] of the request the main thread is in, or None
  counter,    \* g_request_counter
  waiters,    \* g_response_waiters, as a set of [id, expect]
  promise,    \* the frame set on the current request's promise, or None
  currentId,  \* Currentid_: the uid of the last successful login, None for -1
  rd,         \* the read loop: "header", "body" or "stopped"
  toServer,   \* request frames written and not yet handled by the server
  toClient,   \* frames the server sent and the client has not yet read
  conn,       \* the server session: "open" or "closed"
  rooms,      \* RoomManager::rooms_ (room ids that exist)
  member,     \* rooms whose players_ hold the client's uid
  battles,    \* RoomManager::battles_ (room ids)
  online,     \* online_users_ holds the client's uid
  users,      \* table User: users[uid] is the password of uid (AUTO_INCREMENT)
  partial,    \* uids whose player:<uid> hash AddExp created with exp and level only
  actions,    \* battle actions written so far
  pushes,     \* pushes from other players' activity so far
  dropped     \* history: the server ended a request's handler without a reply

vars == <<pc, req, counter, waiters, promise, currentId, rd, toServer, toClient,
          conn, rooms, member, battles, online, users, partial, actions, pushes, dropped>>

Frame(m, ok) == [id |-> m, ok |-> ok]

Init ==
  /\ pc = "menu" /\ req = None /\ counter = 0 /\ waiters = {}
  /\ promise = None /\ currentId = None /\ rd = "header"
  /\ toServer = <<>> /\ toClient = <<>> /\ conn = "open"
  /\ rooms = {} /\ member = {} /\ battles = {} /\ online = FALSE
  /\ users = <<>> /\ partial = {}
  /\ actions = 0 /\ pushes = 0 /\ dropped = FALSE

server == <<rooms, member, battles, online, users, partial>>

loggedIn == currentId /= None

-----------------------------------------------------------------------------
(* The main thread.                                                        *)

\* send_request(socket, m, data), data carrying a: a waiter expecting m + 1 is stored, then
\* the frame is written under g_write_mutex.  A write on a connection the
\* server has closed either fails (the waiter is erased, the empty vector
\* returned) or is taken by the kernel and lost.
SendRequest(m, a) ==
  /\ pc = "menu"
  /\ counter < MaxRequests
  /\ LET w == [id |-> counter + 1, expect |-> m + 1] IN
     /\ counter' = counter + 1
     /\ promise' = None
     /\ \/ /\ conn = "open"
           /\ toServer' = Append(toServer, [msg |-> m, arg |-> a])
           /\ waiters' = waiters \cup {w}
           /\ pc' = "waiting" /\ req' = [msg |-> m, arg |-> a]
        \/ /\ conn = "closed"
           /\ UNCHANGED <<toServer, waiters, pc, req>>
        \/ /\ conn = "closed"
           /\ waiters' = waiters \cup {w}
           /\ pc' = "waiting" /\ req' = [msg |-> m, arg |-> a]
           /\ UNCHANGED toServer
  /\ UNCHANGED <<currentId, rd, toClient, conn, server, actions, pushes, dropped>>

\* The menu: 1 register (a name, unused by the model, and a password) and
\* 2 login (a uid and a password) always; 3 view data, 4 add exp, 5 enter
\* room and 6 ready only once logged in (otherwise "please log in" and
\* continue, a step that changes nothing).  View data and add exp carry
\* Currentid_.
Choose ==
  \/ \E p \in Passwords : SendRequest(MSG_ZHUCE, p)
  \/ \E u \in LoginUids, p \in Passwords : SendRequest(MSG_DENGLU, [uid |-> u, pwd |-> p])
  \/ loggedIn /\ SendRequest(MSG_BACKPACK, currentId)
  \/ loggedIn /\ SendRequest(MSG_ADDEXP, currentId)
  \/ loggedIn /\ \E r \in Rooms : SendRequest(MSG_ENTER_ROOM, r)
  \/ loggedIn /\ \E r \in Rooms : SendRequest(MSG_READY, r)

\* future.get() returns the frame handle_message set; the do_* function
\* checks its msgid and, for a login ack with ok, sets Currentid_ to the
\* uid typed.
Return ==
  /\ pc = "waiting"
  /\ promise /= None
  /\ currentId' = IF req.msg = MSG_DENGLU /\ promise.id = MSG_DENGLUACK /\ promise.ok
                    THEN req.arg.uid ELSE currentId
  /\ pc' = "menu" /\ req' = None /\ promise' = None
  /\ UNCHANGED <<counter, waiters, rd, toServer, toClient, conn, server, actions, pushes, dropped>>

\* battleAction: the frame is written under g_write_mutex and nothing is
\* awaited; a failed write is only logged.
BattleAct(r) ==
  /\ pc = "menu" /\ loggedIn
  /\ actions < MaxActions
  /\ actions' = actions + 1
  /\ toServer' = IF conn = "open" THEN Append(toServer, [msg |-> MSG_BATTLE_ACTION, arg |-> r])
                                  ELSE toServer
  /\ UNCHANGED <<pc, req, counter, waiters, promise, currentId, rd, toClient, conn, server, pushes, dropped>>

\* Choice 0 (or unreadable input): socket.close(), io.stop(), join.
Exit ==
  /\ pc = "menu"
  /\ pc' = "exited"
  /\ UNCHANGED <<req, counter, waiters, promise, currentId, rd, toServer, toClient, conn, server, actions, pushes, dropped>>

-----------------------------------------------------------------------------
(* The io thread's read loop.                                              *)

\* The header callback: with a frame's header read, the body read is
\* armed (the length check passes for every frame the server builds); on
\* EOF from the server or operation_aborted after Exit, the callback
\* returns and the loop ends.
ReadHeader ==
  /\ rd = "header"
  /\ \/ toClient /= <<>> /\ pc /= "exited" /\ rd' = "body"
     \/ toClient = <<>> /\ (conn = "closed" \/ pc = "exited") /\ rd' = "stopped"
  /\ UNCHANGED <<pc, req, counter, waiters, promise, currentId, toServer, toClient, conn, server, actions, pushes, dropped>>

\* handle_message: the first waiter expecting the frame's msgid gets the
\* frame on its promise and is erased; with none, the frame is a push.
HandleMessage(f) ==
  LET ws == {w \in waiters : w.expect = f.id} IN
  IF ws = {}
  THEN UNCHANGED <<waiters, promise>>
  ELSE LET w == CHOOSE v \in ws : \A x \in ws : v.id <= x.id IN
       /\ waiters' = waiters \ {w}
       /\ promise' = f

\* Mutant: the body callback does not call start_async_read again.
ReadBodyNoRearm ==
  /\ rd = "body"
  /\ pc /= "exited"
  /\ HandleMessage(Head(toClient))
  /\ toClient' = Tail(toClient)
  /\ rd' = "stopped"
  /\ UNCHANGED <<pc, req, counter, currentId, toServer, conn, server, actions, pushes, dropped>>


\* The body callback: handle_message, then start_async_read again; after
\* Exit the read ends with operation_aborted.
ReadBody ==
  /\ rd = "body"
  /\ \/ /\ pc /= "exited"
        /\ HandleMessage(Head(toClient))
        /\ toClient' = Tail(toClient)
        /\ rd' = "header"
     \/ /\ pc = "exited"
        /\ rd' = "stopped"
        /\ UNCHANGED <<waiters, promise, toClient>>
  /\ UNCHANGED <<pc, req, counter, currentId, toServer, conn, server, actions, pushes, dropped>>

-----------------------------------------------------------------------------
(* The server session.                                                     *)

\* A handler taking the next request of the session, and what it sends.
Handling(m) == conn = "open" /\ toServer /= <<>> /\ Head(toServer).msg = m

Reply(frames) == toClient' = toClient \o frames

\* Usermodel::zhuce: INSERT INTO User, the new uid the AUTO_INCREMENT one;
\* false when MySQL cannot be reached or the insert fails.
Zhuce(p) ==
  \/ users' = Append(users, p)
  \/ UNCHANGED users

\* Usermodel::Login: SELECT the User row of uid and compare its password;
\* false without a row, on a wrong password, or when MySQL cannot be
\* reached.
Login(c) ==
  IF c.uid \in DOMAIN users /\ users[c.uid] = c.pwd THEN BOOLEAN ELSE {FALSE}

\* Zhuce_handle: the ack, with ok and the new uid, is sent whether or not
\* zhuce inserted the user.
ServeRegister ==
  /\ Handling(MSG_ZHUCE)
  /\ Zhuce(Head(toServer).arg)
  /\ Reply(<<Frame(MSG_ZHUCE + 1, users' /= users)>>)
  /\ UNCHANGED <<rooms, member, battles, online, partial>>

\* Backpack_handle -> getPlayer(uid).  A hash is parsed with stoi on every
\* field: on one AddExp created, stoi throws on the missing hp, the worker
\* catches the exception and nothing is sent.  With no hash, no Player
\* row either: "Player data not found" as MSG_BACKPACKACK.
ServeBackpack ==
  /\ Handling(MSG_BACKPACK)
  /\ \/ /\ Head(toServer).arg \in partial
        /\ dropped' = TRUE
        /\ UNCHANGED toClient
     \/ /\ Head(toServer).arg \notin partial
        /\ Reply(<<Frame(MSG_BACKPACK + 1, FALSE)>>)
        /\ UNCHANGED dropped
  /\ UNCHANGED server

\* AddExp_handle: updateExepAndLevel, whose Redis miss finds no Player
\* row and whose hset then creates the hash with exp and level only; then
\* the ack (a well-formed AddExpReq always parses).
ServeAddExp ==
  /\ Handling(MSG_ADDEXP)
  /\ partial' = partial \cup {Head(toServer).arg}
  /\ Reply(<<Frame(MSG_ADDEXP + 1, TRUE)>>)
  /\ UNCHANGED <<rooms, member, battles, online, users>>

\* Denglu_handle: when Login succeeds AddUser binds the uid.
ServeLogin ==
  /\ Handling(MSG_DENGLU)
  /\ \E ok \in Login(Head(toServer).arg) :
       /\ online' = (online \/ ok)
       /\ Reply(<<Frame(MSG_DENGLUACK, ok)>>)
  /\ UNCHANGED <<rooms, member, battles, users, partial>>

\* Mutant: EnterRoom_handle looks the room up with getRoom and adds the
\* player to a room it does not create.
ServeEnterNoCreate ==
  /\ Handling(MSG_ENTER_ROOM)
  /\ LET r == Head(toServer).arg IN
     \E ok \in IF r \in member THEN {FALSE} ELSE BOOLEAN :
       member' = IF ok THEN member \cup {r} ELSE member
  /\ Reply(<<Frame(MSG_ENTER_ROOM + 1, TRUE)>>)
  /\ UNCHANGED <<rooms, battles, online, users, partial>>


\* EnterRoom_handle: getOrCreateRoom, then addPlayer, which fails for a
\* member or a room other players have filled; the ack is sent either way.
ServeEnter ==
  /\ Handling(MSG_ENTER_ROOM)
  /\ LET r == Head(toServer).arg IN
     /\ rooms' = rooms \cup {r}
     /\ \E ok \in IF r \in member THEN {FALSE} ELSE BOOLEAN :
          member' = IF ok THEN member \cup {r} ELSE member
  /\ Reply(<<Frame(MSG_ENTER_ROOM + 1, TRUE)>>)
  /\ UNCHANGED <<battles, online, users, partial>>

\* Ready_handle: a room getRoom does not find ends the handler with no
\* reply.  Otherwise setReady, MSG_READY_ACK, and when isAllReady (which
\* depends on the other players) startBattle, whose BattleRoom::start
\* sends the battle start to the room's members.
ServeReady ==
  /\ Handling(MSG_READY)
  /\ LET r == Head(toServer).arg IN
     \/ /\ r \notin rooms
        /\ dropped' = TRUE
        /\ UNCHANGED <<toClient, server>>
     \/ /\ r \in rooms
        /\ \E start \in BOOLEAN :
             LET new == start /\ r \notin battles IN
             /\ battles' = IF new THEN battles \cup {r} ELSE battles
             /\ Reply(<<Frame(MSG_READY_ACK, TRUE)>> \o
                      (IF new /\ r \in member THEN <<Frame(MSG_BATTLE_ACTION, TRUE)>> ELSE <<>>))
        /\ UNCHANGED <<rooms, member, online, users, partial, dropped>>

\* BattleAction_handle: without a battle nothing is sent; with one the
\* BattleSync is broadcast to the room, the client included if a member.
ServeBattleAction ==
  /\ Handling(MSG_BATTLE_ACTION)
  /\ LET r == Head(toServer).arg IN
     IF r \in battles /\ r \in member
     THEN Reply(<<Frame(MSG_BATTLE_SYNC, TRUE)>>)
     ELSE UNCHANGED toClient
  /\ UNCHANGED <<server, dropped>>

Serve ==
  /\ \/ (ServeRegister \/ ServeAddExp) /\ UNCHANGED dropped
     \/ ServeBackpack
     \/ ServeLogin /\ UNCHANGED dropped
     \/ ServeEnter /\ UNCHANGED dropped
     \/ ServeReady
     \/ ServeBattleAction
  /\ toServer' = Tail(toServer)
  /\ UNCHANGED <<pc, req, counter, waiters, promise, currentId, rd, conn, actions, pushes>>

\* Another player's EnterRoom_handle creates the room.
OtherCreates(r) ==
  /\ r \notin rooms
  /\ rooms' = rooms \cup {r}
  /\ UNCHANGED <<pc, req, counter, waiters, promise, currentId, rd, toServer, toClient,
                 conn, member, battles, online, users, partial, actions, pushes, dropped>>

\* Pushes from other players' activity: a world chat through guangbo to
\* an online uid, a BattleSync from the battle timer or another player's
\* action to a member of a running battle.  Session::send on a closed
\* session sends nothing.
Push ==
  /\ conn = "open"
  /\ pushes < MaxPushes
  /\ \/ online /\ Reply(<<Frame(MSG_CHAT, TRUE)>>)
     \/ battles \cap member /= {} /\ Reply(<<Frame(MSG_BATTLE_SYNC, TRUE)>>)
  /\ pushes' = pushes + 1
  /\ UNCHANGED <<pc, req, counter, waiters, promise, currentId, rd, toServer, conn, server, actions, dropped>>

\* The session closes: the heartbeat timer finds no data for three periods
\* (the client sends no heartbeat), or a transport error.  Requests not
\* yet read are never handled; frames already written still arrive.
ServerClose ==
  /\ conn = "open"
  /\ conn' = "closed"
  /\ toServer' = <<>>
  /\ UNCHANGED <<pc, req, counter, waiters, promise, currentId, rd, toClient, server, actions, pushes, dropped>>

-----------------------------------------------------------------------------
Next ==
  \/ Choose \/ Return \/ (\E r \in Rooms : BattleAct(r)) \/ Exit
  \/ ReadHeader \/ ReadBody
  \/ Serve
  \/ (\E r \in Rooms : OtherCreates(r)) \/ Push \/ ServerClose

\* The io threads run every completion whose data has arrived, the pool
\* runs every queued handler, and future.get() returns once the promise is
\* set.  The user, the other players and the server's close are not fair.
Fairness ==
  /\ WF_vars(ReadHeader) /\ WF_vars(ReadBody)
  /\ WF_vars(Serve)
  /\ WF_vars(Return)

Spec == Init /\ [][Next]_vars /\ Fairness

-----------------------------------------------------------------------------
\* What a request of msgid m carries.
ArgOf(m) ==
  CASE m = MSG_ZHUCE                   -> Passwords
    [] m = MSG_DENGLU                  -> [uid : LoginUids, pwd : Passwords]
    [] m \in {MSG_BACKPACK, MSG_ADDEXP} -> LoginUids
    [] OTHER                           -> Rooms

RequestRec(ms) == UNION {[msg : {m}, arg : ArgOf(m)] : m \in ms}

FrameRec == [id : {MSG_CHAT, MSG_BATTLE_ACTION, MSG_BATTLE_SYNC} \cup Acks, ok : BOOLEAN]

TypeOK ==
  /\ pc \in {"menu", "waiting", "exited"}
  /\ req \in RequestRec(Requests) \cup {None}
  /\ counter \in 0 .. MaxRequests
  /\ waiters \subseteq [id : 1 .. MaxRequests, expect : Acks]
  /\ promise \in FrameRec \cup {None}
  /\ currentId \in LoginUids \cup {None} /\ online \in BOOLEAN
  /\ rd \in {"header", "body", "stopped"}
  /\ toServer \in Seq(RequestRec(Requests \cup {MSG_BATTLE_ACTION}))
  /\ users \in Seq(Passwords) /\ partial \subseteq LoginUids
  /\ toClient \in Seq(FrameRec)
  /\ conn \in {"open", "closed"}
  /\ rooms \subseteq Rooms /\ member \subseteq rooms /\ battles \subseteq rooms
  /\ actions \in 0 .. MaxActions /\ pushes \in 0 .. MaxPushes
  /\ dropped \in BOOLEAN

\* send_request returns for every request, except when the server's
\* handler ended without a reply (Ready for a missing room, view data
\* after AddExp created a partial hash) or the session closed: the read
\* loop keeps reading while the connection is open and hands the ack to
\* the waiting thread, whatever pushes come in between.
RequestAnsweredUnlessDropped ==
  pc = "waiting" ~> (pc /= "waiting" \/ dropped \/ conn = "closed")

\* Every request the main thread sends eventually returns from
\* send_request, with the ack or with the empty vector of a failure.
RequestAnswered ==
  pc = "waiting" ~> pc /= "waiting"
=============================================================================
