--------------------------- MODULE SessionRegistry ---------------------------
(***************************************************************************)
(* The session registry (src/server/SessionManager.cc) as the session      *)
(* life cycle (src/server/Session.cc) and the login handler                *)
(* (MessageDispatcher::Denglu_handle) use it.                              *)
(*                                                                         *)
(* Session::start registers id -> session in sessions_.  Each decoded      *)
(* frame is dispatched as a task keyed by the session id, so a session's   *)
(* handlers run in order, on some worker, possibly after the socket has    *)
(* closed.  Denglu_handle, on a good password, calls                       *)
(* AddUser(uid, getSession(sessionid)): online_users_[uid] = whatever      *)
(* getSession returns, nullptr once the session is gone.  Session::close   *)
(* closes the socket and enqueues a cleanup task with enqueue(), round-    *)
(* robin and not keyed, that calls RemoveUser(uid_) and del(id_).  Nothing *)
(* ever assigns Session::uid_ after the constructor sets it to -1.         *)
(*                                                                         *)
(* Chat_handle on a WORLD message calls guangbo, which iterates           *)
(* online_users_ holding mtx_ (the sessions_ mutex), while AddUser and     *)
(* RemoveUser change online_users_ holding Users_mtx_: the iteration is    *)
(* split into one step per entry so that they can interleave with it.      *)
(*                                                                         *)
(* The password check (Usermodel::Login against MySQL) is a                *)
(* nondeterministic verdict; the replies and chat frames are not modelled. *)
(***************************************************************************)
EXTENDS Naturals, Sequences

CONSTANTS
  Clients,    \* session ids, in accept order
  Uids,       \* uids a login request may carry
  MaxLogins,  \* bound on the login requests a session sends
  MaxChats,   \* bound on the chat requests a session sends
  MaxCloses,  \* bound on the close() calls of a session
  Null,       \* model value: a nullptr in online_users_
  Absent,     \* model value: no entry in online_users_
  NoUid       \* model value: Session::uid_ == -1

ASSUME MaxLogins \in Nat /\ MaxChats \in Nat /\ MaxCloses \in Nat

VARIABLES
  sstate,     \* "new" (not accepted), "open", "closed" (socket closed)
  sessions,   \* SessionManager::sessions_: the registered ids
  online,     \* SessionManager::online_users_: uid -> session, Null or Absent
  uidOf,      \* Session::uid_
  inbox,      \* requests dispatched to the pool, not yet handled
  nLogins,    \* login requests a session has sent
  nChats,     \* chat requests a session has sent
  cleanups,   \* cleanup tasks enqueued by close() and not yet run
  nCloses,    \* close() calls of a session
  iterating,  \* sessions whose handler is inside guangbo's loop
  visited     \* per session: the uids its guangbo has visited so far

vars == <<sstate, sessions, online, uidOf, inbox, nLogins, nChats, cleanups, nCloses, iterating, visited>>


Init ==
  /\ sstate   = [c \in Clients |-> "new"]
  /\ sessions = {}
  /\ online   = [u \in Uids |-> Absent]
  /\ uidOf    = [c \in Clients |-> NoUid]
  /\ inbox    = [c \in Clients |-> <<>>]
  /\ nLogins  = [c \in Clients |-> 0]
  /\ nChats   = [c \in Clients |-> 0]
  /\ cleanups = [c \in Clients |-> 0]
  /\ nCloses  = [c \in Clients |-> 0]
  /\ iterating = {}
  /\ visited  = [c \in Clients |-> {}]

\* SessionManager::getSession
GetSession(c) == IF c \in sessions THEN c ELSE Null

\* GameServer's accept handler calls Session::start: add(id_, this), then
\* the first read and the first heartbeat are armed.
Accept(c) ==
  /\ sstate[c] = "new"
  /\ sstate'   = [sstate EXCEPT ![c] = "open"]
  /\ sessions' = sessions \cup {c}
  /\ UNCHANGED <<online, uidOf, inbox, nLogins, nChats, cleanups, nCloses, iterating, visited>>

\* The read path decodes a login frame and MessageDispatcher::Dispatch
\* enqueues Denglu_handle with the session id as key.
DispatchLogin(c, u) ==
  /\ sstate[c] = "open"
  /\ nLogins[c] < MaxLogins
  /\ inbox'   = [inbox EXCEPT ![c] = Append(@, [msg |-> "login", uid |-> u])]
  /\ nLogins' = [nLogins EXCEPT ![c] = @ + 1]
  /\ UNCHANGED <<sstate, sessions, online, uidOf, nChats, cleanups, nCloses, iterating, visited>>

\* Chat requests: WORLD (its "to" is not read) or PRIVATE to a uid.
ChatMsgs ==
  {[msg |-> "world", uid |-> CHOOSE u \in Uids : TRUE]}
    \cup {[msg |-> "private", uid |-> u] : u \in Uids}

\* The read path decodes a chat frame and Dispatch enqueues Chat_handle
\* with the session id as key.
DispatchChat(c, m) ==
  /\ sstate[c] = "open"
  /\ nChats[c] < MaxChats
  /\ inbox'  = [inbox EXCEPT ![c] = Append(@, m)]
  /\ nChats' = [nChats EXCEPT ![c] = @ + 1]
  /\ UNCHANGED <<sstate, sessions, online, uidOf, nLogins, cleanups, nCloses, iterating, visited>>

\* Denglu_handle on a worker: on a good password,
\* AddUser(uid, getSession(sessionid)); a bad one changes nothing.
HandleLogin(c) ==
  /\ inbox[c] /= <<>>
  /\ Head(inbox[c]).msg = "login"
  /\ \E ok \in BOOLEAN :
       online' = IF ok THEN [online EXCEPT ![Head(inbox[c]).uid] = GetSession(c)]
                 ELSE online
  /\ inbox' = [inbox EXCEPT ![c] = Tail(@)]
  /\ UNCHANGED <<sstate, sessions, uidOf, nLogins, nChats, cleanups, nCloses, iterating, visited>>

\* Chat_handle, PRIVATE: getOnlineUser(to) under Users_mtx_, and send to
\* the session found, if any.
HandlePrivate(c) ==
  /\ inbox[c] /= <<>>
  /\ Head(inbox[c]).msg = "private"
  /\ inbox' = [inbox EXCEPT ![c] = Tail(@)]
  /\ UNCHANGED <<sstate, sessions, online, uidOf, nLogins, nChats, cleanups, nCloses, iterating, visited>>

\* Chat_handle, WORLD: guangbo takes mtx_ and starts iterating
\* online_users_.
GuangboBegin(c) ==
  /\ c \notin iterating
  /\ inbox[c] /= <<>>
  /\ Head(inbox[c]).msg = "world"
  /\ iterating' = iterating \cup {c}
  /\ visited' = [visited EXCEPT ![c] = {}]
  /\ UNCHANGED <<sstate, sessions, online, uidOf, inbox, nLogins, nChats, cleanups, nCloses>>

\* guangbo's loop body on the next entry u: send the frame to it (a
\* nullptr entry is dereferenced).
GuangboStep(c, u) ==
  /\ c \in iterating
  /\ online[u] /= Absent
  /\ u \notin visited[c]
  /\ visited' = [visited EXCEPT ![c] = @ \cup {u}]
  /\ UNCHANGED <<sstate, sessions, online, uidOf, inbox, nLogins, nChats, cleanups, nCloses, iterating>>

\* guangbo's loop ends after the last entry; mtx_ is released and the
\* handler returns.
GuangboEnd(c) ==
  /\ c \in iterating
  /\ \A u \in Uids : online[u] /= Absent => u \in visited[c]
  /\ iterating' = iterating \ {c}
  /\ inbox'   = [inbox EXCEPT ![c] = Tail(@)]
  /\ UNCHANGED <<sstate, sessions, online, uidOf, nLogins, nChats, cleanups, nCloses, visited>>

\* Session::close on a read error, a write error or a heartbeat timeout:
\* close the socket, enqueue the cleanup task.  Nothing guards a second
\* call (a read failing after the heartbeat closed the socket): each one
\* enqueues another cleanup.
Close(c) ==
  /\ sstate[c] /= "new"
  /\ nCloses[c] < MaxCloses
  /\ sstate'   = [sstate EXCEPT ![c] = "closed"]
  /\ cleanups' = [cleanups EXCEPT ![c] = @ + 1]
  /\ nCloses'  = [nCloses EXCEPT ![c] = @ + 1]
  /\ UNCHANGED <<sessions, online, uidOf, inbox, nLogins, nChats, iterating, visited>>

\* The cleanup task: RemoveUser(uid_copy), then del(id_copy).
Cleanup(c) ==
  /\ cleanups[c] > 0
  /\ online'   = IF uidOf[c] \in Uids THEN [online EXCEPT ![uidOf[c]] = Absent]
                 ELSE online
  /\ sessions' = sessions \ {c}
  /\ cleanups' = [cleanups EXCEPT ![c] = @ - 1]
  /\ UNCHANGED <<sstate, uidOf, inbox, nLogins, nChats, nCloses, iterating, visited>>

Next ==
  \/ \E c \in Clients :
       \/ Accept(c) \/ HandleLogin(c) \/ Close(c) \/ Cleanup(c)
       \/ HandlePrivate(c) \/ GuangboBegin(c) \/ GuangboEnd(c)
       \/ \E u \in Uids : DispatchLogin(c, u) \/ GuangboStep(c, u)
       \/ \E m \in ChatMsgs : DispatchChat(c, m)

\* Workers run every queued task.
Fairness ==
  \A c \in Clients :
    /\ WF_vars(HandleLogin(c)) /\ WF_vars(Cleanup(c)) /\ WF_vars(HandlePrivate(c))
    /\ WF_vars(GuangboBegin(c)) /\ WF_vars(GuangboEnd(c))
    /\ \A u \in Uids : WF_vars(GuangboStep(c, u))

Spec == Init /\ [][Next]_vars /\ Fairness
-----------------------------------------------------------------------------
TypeOK ==
  /\ sstate   \in [Clients -> {"new", "open", "closed"}]
  /\ sessions \subseteq Clients
  /\ online   \in [Uids -> Clients \cup {Null, Absent}]
  /\ uidOf    \in [Clients -> Uids \cup {NoUid}]
  /\ inbox    \in [Clients -> Seq([msg : {"login", "world", "private"}, uid : Uids])]
  /\ nLogins  \in [Clients -> 0 .. MaxLogins]
  /\ nChats   \in [Clients -> 0 .. MaxChats]
  /\ iterating \subseteq Clients
  /\ visited  \in [Clients -> SUBSET Uids]
  /\ cleanups \in [Clients -> Nat]
  /\ nCloses  \in [Clients -> 0 .. MaxCloses]

-----------------------------------------------------------------------------
(* What the spec says and the code does not do; checked in violation runs. *)

\* Spec 3: online_users_ maps a uid to its connection only while that
\* connection is live, and close()'s cleanup removes the binding when it
\* deregisters the session.  Two code paths break it: Denglu_handle run
\* after the cleanup stores getSession()'s nullptr (which guangbo then
\* dereferences), and the cleanup's RemoveUser(uid_) removes nothing
\* because uid_ is never assigned, so the entry keeps naming the closed
\* session.
OnlineUsersLive ==
  \A u \in Uids : online[u] /= Absent => online[u] \in sessions

\* SessionManager.h pairs online_users_ with Users_mtx_, which AddUser,
\* RemoveUser and getOnlineUser hold: no entry is added or erased while a
\* guangbo is iterating online_users_ (guangbo holds mtx_ instead).
GuangboExclusive ==
  [][iterating /= {} => online' = online]_online
=============================================================================
