------------------------------ MODULE Control -------------------------------
(***************************************************************************)
(* The control socket: main's side (main-ctl-unix.c) and the occtl          *)
(* processes that use it (occtl/occtl.c, occtl/unix.c).  A command is one   *)
(* connection: occtl connects and sends a request, main accepts, reads,     *)
(* answers and closes.  "show events" is the exception: its connection      *)
(* stays, and one of them, s->top_fd, is told of every user that connects   *)
(* or leaves.  "terminate session" takes two connections, to find the       *)
(* session and to end it.                                                   *)
(***************************************************************************)
EXTENDS Integers, Sequences, FiniteSets, SequencesExt

CONSTANTS
  CtClients,  \* occtl processes
  CtWorkers,  \* worker processes, by their PID
  CtUser,     \* a worker's user
  CtSid,      \* a worker's session ID (the full safe_id)
  CtShort,    \* a session ID's first six characters
  CtOnline,   \* workers whose users are connected when the model starts
  CtIps,      \* addresses with a ban
  CtFds,      \* main's descriptors for control connections: 1..n
  CtRuns,     \* the commands, with their arguments, that the processes are started with
  CtRoom,     \* bound: messages a socket holds
  NoClient

VARIABLES
  ctServer,   \* main: running, the signals it sent itself, top_fd, the update it is blocked on
  ctProcs,    \* proc_list: a worker's phase, and whether it is to end
  ctSessions, \* the sessions sec-mod knows
  ctBans,
  ctConns,    \* connections, with both ends' descriptors and what is under way
  ctClient    \* the occtl processes

ctvars == <<ctServer, ctProcs, ctSessions, ctBans, ctConns, ctClient>>

NoTop == 0
Backlog == 0    \* not accepted yet
Hungup == -1    \* closed by main

CtSlots == 1..(Cardinality(CtFds) + 1)
NoConn == [client |-> NoClient, fd |-> Hungup, up |-> <<>>, down |-> <<>>, req |-> "none"]
NoLine == <<"none", "">>   \* the process is not started
NewClient ==
  [line |-> NoLine, phase |-> "new", slot |-> 0, view |-> {}, seen |-> {}, sid |-> "none", shown |-> {},
   targets |-> {}, exit |-> -1]

-------------------------- (* occtl: the commands *) ------------------------
\* commands[]; a name that begins another one comes after it
commands ==
  <<"disconnect user", "disconnect id", "terminate user", "terminate id", "terminate session", "unban ip", "reload",
    "show status", "show users", "show ip bans", "show iroutes", "show sessions all", "show sessions valid",
    "show session", "show user", "show id", "show events", "stop">>

Begins == {<<"show user", "show users">>, <<"show session", "show sessions all">>, <<"show session", "show sessions valid">>}

\* Does the typed name begin with the command's?
check_cmd(cmd, typed) == cmd = typed \/ <<cmd, typed>> \in Begins

\* the first command that fits
handle_cmd(typed) ==
  LET fits == {i \in DOMAIN commands : check_cmd(commands[i], typed)}
  IN commands[CHOOSE i \in fits : \A j \in fits : i <= j]

\* the request a handler sends first
Request(cmd) ==
  CASE cmd = "disconnect user" -> "DISCONNECT_NAME" [] cmd = "disconnect id" -> "DISCONNECT_ID"
    [] cmd = "terminate user" -> "TERMINATE_USER" [] cmd = "terminate id" -> "TERMINATE_ID"
    [] cmd = "unban ip" -> "UNBAN_IP" [] cmd = "reload" -> "RELOAD" [] cmd = "stop" -> "STOP"
    [] cmd = "show status" -> "STATUS" [] cmd \in {"show users", "show iroutes"} -> "LIST"
    [] cmd = "show ip bans" -> "LIST_BANNED" [] cmd = "show user" -> "USER_INFO" [] cmd = "show id" -> "ID_INFO"
    [] cmd = "show events" -> "TOP"
    [] cmd \in {"terminate session", "show session", "show sessions all", "show sessions valid"} -> "LIST_COOKIES"

\* the reply a request is answered with
msg_map(req) == IF req \in {"USER_INFO", "ID_INFO", "TOP"} THEN "LIST" ELSE req

---------------------------- (* main: methods *) ----------------------------
ListedWorkers == {p \in CtWorkers : ctProcs[p].phase \in {"auth", "announced", "accepted"}}

\* what append_user_info tells of a worker; the rest of it is text
append_user_info(p) == <<p, ctProcs[p].phase>>

Msg(rep, data) == [rep |-> rep, data |-> data]

\* main's end of a connection is closed; it is gone when the other one is too
ConnClosed(conn) == IF conn.client = NoClient THEN NoConn ELSE [conn EXCEPT !.fd = Hungup]

Sent(conn, m) == IF conn.client = NoClient THEN conn ELSE [conn EXCEPT !.down = Append(@, m)]

TopWithout(fd) == IF ctServer.top = fd THEN NoTop ELSE ctServer.top

\* the method answers, the connection is closed
Answer1(k, m) ==
  /\ ctConns' = [ctConns EXCEPT ![k] = ConnClosed(Sent([@ EXCEPT !.up = <<>>], m))]
  /\ UNCHANGED ctClient

TopClosed(k) == [ctServer EXCEPT !.top = TopWithout(ctConns[k].fd)]

\* disconnect_proc: invalidated, and SIGTERM to the worker
Disconnected(ps) == [p \in CtWorkers |-> IF p \in ps THEN [ctProcs[p] EXCEPT !.killed = TRUE] ELSE ctProcs[p]]

\* a worker has its user's name, and its session's, once the user has logged in
LoggedIn == {p \in CtWorkers : ctProcs[p].phase \in {"announced", "accepted"}}
ByName(u) == {p \in LoggedIn : CtUser[p] = u}
ById(i) == {p \in ListedWorkers : p = i}

Named(u) == ByName(u)

method_disconnect_user_name(k, u) ==
  /\ ctProcs' = Disconnected(Named(u))
  /\ Answer1(k, Msg("DISCONNECT_NAME", ByName(u) # {}))
  /\ ctServer' = TopClosed(k)
  /\ UNCHANGED <<ctSessions, ctBans>>

method_disconnect_user_id(k, i) ==
  /\ ctProcs' = Disconnected(ById(i))
  /\ Answer1(k, Msg("DISCONNECT_ID", ById(i) # {}))
  /\ ctServer' = TopClosed(k)
  /\ UNCHANGED <<ctSessions, ctBans>>

\* the user's workers, then the user's sessions (of one sec-mod)
method_terminate_user(k, u) ==
  LET ended == {s \in ctSessions : \E p \in CtWorkers : CtSid[p] = s /\ CtUser[p] = u}
  IN /\ ctProcs' = Disconnected(Named(u))
     /\ ctSessions' = ctSessions \ ended
     /\ Answer1(k, Msg("TERMINATE_USER", ByName(u) # {} \/ ended # {}))
     /\ ctServer' = TopClosed(k)
     /\ UNCHANGED ctBans

method_terminate_id(k, i) ==
  /\ ctProcs' = Disconnected(ById(i))
  /\ ctSessions' = ctSessions \ {CtSid[p] : p \in ById(i) \cap LoggedIn}
  /\ Answer1(k, Msg("TERMINATE_ID", ById(i) # {}))
  /\ ctServer' = TopClosed(k)
  /\ UNCHANGED ctBans

method_terminate_session(k, s) ==
  /\ ctSessions' = ctSessions \ {s}
  /\ Answer1(k, Msg("TERMINATE_SESSION", s \in ctSessions))
  /\ ctServer' = TopClosed(k)
  /\ UNCHANGED <<ctProcs, ctBans>>

method_unban_ip(k, a) ==
  /\ ctBans' = ctBans \ {a}
  /\ Answer1(k, Msg("UNBAN_IP", a \in ctBans))
  /\ ctServer' = TopClosed(k)
  /\ UNCHANGED <<ctProcs, ctSessions>>

\* reload and stop are signals main sends itself
method_signal(k, req, sig) ==
  /\ ctServer' = [TopClosed(k) EXCEPT !.signals = @ \cup {sig}]
  /\ Answer1(k, Msg(req, TRUE))
  /\ UNCHANGED <<ctProcs, ctSessions, ctBans>>

\* the methods that only read
Told(k, m) ==
  /\ Answer1(k, m)
  /\ ctServer' = TopClosed(k)
  /\ UNCHANGED <<ctProcs, ctSessions, ctBans>>

ListUsers == ListedWorkers

method_list_users(k) == Told(k, Msg("LIST", {append_user_info(p) : p \in ListUsers}))
method_list_banned(k) == Told(k, Msg("LIST_BANNED", ctBans))
method_list_cookies(k) == Told(k, Msg("LIST_COOKIES", ctSessions))
method_status(k) == Told(k, Msg("STATUS", TRUE))
single_info_common(k, ps) == Told(k, Msg("LIST", {append_user_info(p) : p \in ps}))

\* "we can only have a single top listener"
TopSlot(fd) == IF ctServer.top = NoTop THEN fd ELSE ctServer.top

\* the list is the first message; the connection stays
method_top(k) ==
  /\ ctServer' = [ctServer EXCEPT !.top = TopSlot(ctConns[k].fd)]
  /\ ctConns' = [ctConns EXCEPT ![k] = Sent([@ EXCEPT !.up = <<>>], Msg("LIST", {append_user_info(p) : p \in ListUsers}))]
  /\ UNCHANGED <<ctProcs, ctSessions, ctBans, ctClient>>

-------------------------- (* main: the connections *) ----------------------
MainRuns == ctServer.up /\ ctServer.blocked = <<>>

LowestFd == LET free == {f \in CtFds : \A k \in CtSlots : ctConns[k].fd # f} IN CHOOSE f \in free : \A g \in free : f <= g

\* accept; a peer that is not root is hung up on
ctl_handle_commands(k, root) ==
  /\ MainRuns /\ ctConns[k].fd = Backlog /\ \E f \in CtFds : \A j \in CtSlots : ctConns[j].fd # f
  /\ ctConns' = [ctConns EXCEPT ![k] = IF root THEN [@ EXCEPT !.fd = LowestFd] ELSE ConnClosed(@)]
  /\ UNCHANGED <<ctServer, ctProcs, ctSessions, ctBans, ctClient>>

Method(k, req, arg) ==
  \/ req = "TOP" /\ method_top(k)
  \/ req = "STATUS" /\ method_status(k)
  \/ req = "RELOAD" /\ method_signal(k, req, "hup")
  \/ req = "STOP" /\ method_signal(k, req, "term")
  \/ req = "LIST" /\ method_list_users(k)
  \/ req = "LIST_BANNED" /\ method_list_banned(k)
  \/ req = "LIST_COOKIES" /\ method_list_cookies(k)
  \/ req = "USER_INFO" /\ single_info_common(k, ByName(arg))
  \/ req = "ID_INFO" /\ single_info_common(k, ById(arg))
  \/ req = "UNBAN_IP" /\ method_unban_ip(k, arg)
  \/ req = "DISCONNECT_NAME" /\ method_disconnect_user_name(k, arg)
  \/ req = "DISCONNECT_ID" /\ method_disconnect_user_id(k, arg)
  \/ req = "TERMINATE_USER" /\ method_terminate_user(k, arg)
  \/ req = "TERMINATE_ID" /\ method_terminate_id(k, arg)
  \/ req = "TERMINATE_SESSION" /\ method_terminate_session(k, arg)

\* a request can be read
ctl_request(k) ==
  /\ MainRuns /\ ctConns[k].fd \in CtFds /\ ctConns[k].up # <<>>
  /\ Method(k, ctConns[k].up[1], ctConns[k].up[2])

\* Mutant: a listener's connection is not read any more.
EofUnread(k) ==
  /\ MainRuns /\ ctConns[k].fd \in CtFds /\ ctConns[k].up = <<>> /\ ctConns[k].client = NoClient /\ ctConns[k].req # "TOP"
  /\ ctServer' = TopClosed(k)
  /\ ctConns' = [ctConns EXCEPT ![k] = NoConn]
  /\ UNCHANGED <<ctProcs, ctSessions, ctBans, ctClient>>

\* the peer is gone: the descriptor is closed
ctl_eof(k) ==
  /\ MainRuns /\ ctConns[k].fd \in CtFds /\ ctConns[k].up = <<>> /\ ctConns[k].client = NoClient
  /\ ctServer' = TopClosed(k)
  /\ ctConns' = [ctConns EXCEPT ![k] = NoConn]
  /\ UNCHANGED <<ctProcs, ctSessions, ctBans, ctClient>>

\* the listener's connection
TopConn == {k \in CtSlots : ctServer.top # NoTop /\ ctConns[k].fd = ctServer.top}

\* the write to the listener ends; a listener that is gone loses the slot
Update(u) ==
  /\ ctServer' = [ctServer EXCEPT !.blocked = <<>>, !.top = IF \A k \in TopConn : ctConns[k].client = NoClient THEN NoTop ELSE @]
  /\ ctConns' = [k \in CtSlots |-> IF k \in TopConn THEN Sent(ctConns[k], Msg("TOP_UPDATE", u)) ELSE ctConns[k]]

HasRoom == \A k \in TopConn : ctConns[k].client = NoClient \/ Len(ctConns[k].down) < CtRoom

\* main waits in the write while the listener's socket is full
ctl_handler_notify(p, connect) ==
  IF HasRoom THEN Update(<<p, connect>>)
  ELSE ctServer' = [ctServer EXCEPT !.blocked = <<p, connect>>] /\ UNCHANGED ctConns

Unblocked ==
  /\ ctServer.up /\ ctServer.blocked # <<>> /\ HasRoom
  /\ Update(ctServer.blocked)
  /\ UNCHANGED <<ctProcs, ctSessions, ctBans, ctClient>>

----------------------------- (* main: the users *) -------------------------
\* A worker starts and its user begins to log in
WorkerStarts(p) ==
  /\ MainRuns /\ ctProcs[p].phase = "none"
  /\ ctProcs' = [ctProcs EXCEPT ![p].phase = "auth"]
  /\ ctSessions' = ctSessions \cup {CtSid[p]}
  /\ UNCHANGED <<ctServer, ctBans, ctConns, ctClient>>

UserConnected(p) ==
  /\ MainRuns /\ ctProcs[p].phase = "auth"
  /\ ctl_handler_notify(p, TRUE)
  /\ ctProcs' = [ctProcs EXCEPT ![p].phase = "announced"]
  /\ UNCHANGED <<ctSessions, ctBans, ctClient>>

\* the connect script has ended: PS_AUTH_COMPLETED
UserAccepted(p) ==
  /\ MainRuns /\ ctProcs[p].phase = "announced"
  /\ ctProcs' = [ctProcs EXCEPT ![p].phase = "accepted"]
  /\ UNCHANGED <<ctServer, ctSessions, ctBans, ctConns, ctClient>>

\* the worker is gone: user_disconnected, unless its user never connected
WorkerEnds1(p) ==
  /\ MainRuns /\ p \in ListedWorkers
  /\ IF ctProcs[p].phase = "auth" THEN UNCHANGED <<ctServer, ctConns>> ELSE ctl_handler_notify(p, FALSE)
  /\ ctProcs' = [ctProcs EXCEPT ![p] = [phase |-> IF @.phase = "auth" THEN "gone" ELSE "left", killed |-> FALSE]]
  /\ UNCHANGED <<ctSessions, ctBans, ctClient>>

\* sec-mod forgets a session that is not in use
SessionExpires(s) ==
  /\ s \in ctSessions /\ \A p \in LoggedIn : CtSid[p] # s
  /\ ctSessions' = ctSessions \ {s}
  /\ UNCHANGED <<ctServer, ctProcs, ctBans, ctConns, ctClient>>

ReloadSignal ==
  /\ MainRuns /\ "hup" \in ctServer.signals
  /\ ctServer' = [ctServer EXCEPT !.signals = @ \ {"hup"}]
  /\ UNCHANGED <<ctProcs, ctSessions, ctBans, ctConns, ctClient>>

\* main exits: every connection is closed
StopSignal ==
  /\ MainRuns /\ "term" \in ctServer.signals
  /\ ctServer' = [up |-> FALSE, signals |-> {}, top |-> NoTop, blocked |-> <<>>]
  /\ ctConns' = [k \in CtSlots |-> IF ctConns[k] = NoConn THEN NoConn ELSE ConnClosed(ctConns[k])]
  /\ ctProcs' = [p \in CtWorkers |-> [phase |-> "gone", killed |-> FALSE]]
  /\ ctSessions' = {}
  /\ UNCHANGED <<ctBans, ctClient>>

------------------------------- (* occtl *) ---------------------------------
\* occtl's end of a connection is closed
Left(conn) == IF conn.fd = Hungup THEN NoConn ELSE [conn EXCEPT !.client = NoClient, !.down = <<>>]

\* Does the session's ID begin with the argument?
SidFits(arg, s) == arg = s \/ arg = CtShort[s]

BoolExit(m) == IF m.data THEN 0 ELSE 1

handle_status_cmd(m) == BoolExit(m)
handle_reload_cmd(m) == BoolExit(m)
handle_stop_cmd(m) == BoolExit(m)
handle_unban_ip_cmd(m) == BoolExit(m)
handle_disconnect_user_cmd(m) == BoolExit(m)
handle_disconnect_id_cmd(m) == BoolExit(m)
handle_terminate_user_cmd(m) == BoolExit(m)
handle_terminate_id_cmd(m) == BoolExit(m)
terminate_session_reply(m) == BoolExit(m)

\* a list, printed whatever it holds
handle_list_users_cmd(m) == 0
handle_list_sessions_cmd(m) == 0
handle_show_session_cmd(m) == 0
handle_list_iroutes_cmd(m) == 0
handle_list_banned_cmd(m) == 0

\* "user or ID not found"
common_info_cmd(m) == IF m.data = {} THEN 2 ELSE 0
handle_show_user_cmd(m) == common_info_cmd(m)
handle_show_id_cmd(m) == common_info_cmd(m)

\* the sessions "show session" prints: it compares the argument with the six characters shorten() leaves
session_info_cmd(arg, m) == {s \in m.data : arg = CtShort[s]}

ExitStatus(cmd, m) ==
  CASE cmd = "show status" -> handle_status_cmd(m) [] cmd = "reload" -> handle_reload_cmd(m)
    [] cmd = "stop" -> handle_stop_cmd(m) [] cmd = "unban ip" -> handle_unban_ip_cmd(m)
    [] cmd = "disconnect user" -> handle_disconnect_user_cmd(m) [] cmd = "disconnect id" -> handle_disconnect_id_cmd(m)
    [] cmd = "terminate user" -> handle_terminate_user_cmd(m) [] cmd = "terminate id" -> handle_terminate_id_cmd(m)
    [] cmd = "terminate session" -> terminate_session_reply(m)
    [] cmd = "show users" -> handle_list_users_cmd(m) [] cmd = "show iroutes" -> handle_list_iroutes_cmd(m)
    [] cmd = "show ip bans" -> handle_list_banned_cmd(m)
    [] cmd \in {"show sessions all", "show sessions valid"} -> handle_list_sessions_cmd(m)
    [] cmd = "show session" -> handle_show_session_cmd(m)
    [] cmd = "show user" -> handle_show_user_cmd(m) [] cmd = "show id" -> handle_show_id_cmd(m)

NewConn(c, req, arg) == [client |-> c, fd |-> Backlog, up |-> <<req, arg>>, down |-> <<>>, req |-> req]

Exits(c, status) == ctClient' = [ctClient EXCEPT ![c] = [NewClient EXCEPT !.line = ctClient[c].line, !.phase = "done", !.exit = status]]

\* The process starts with its command: connect_to_ocserv, send_cmd's first half
connect_to_ocserv(c) ==
  LET line == ctClient[c].line
  IN /\ ctClient[c].phase = "new" /\ line # NoLine
     /\ IF ~ctServer.up
        THEN Exits(c, 1) /\ UNCHANGED ctConns
        ELSE \E k \in {i \in CtSlots : ctConns[i] = NoConn /\ \A j \in 1..(i - 1) : ctConns[j] # NoConn} :
               /\ ctConns' = [ctConns EXCEPT ![k] = NewConn(c, Request(handle_cmd(line[1])), line[2])]
               /\ ctClient' = [ctClient EXCEPT ![c].phase = "waits", ![c].slot = k,
                    ![c].targets = IF line[1] \in {"disconnect user", "terminate user"} THEN ByName(line[2]) ELSE {}]
     /\ UNCHANGED <<ctServer, ctProcs, ctSessions, ctBans>>

Waiting(c) == ctClient[c].phase = "waits"
Conn(c) == ctConns[ctClient[c].slot]

\* send_cmd's second half, and what the handler makes of the reply
send_cmd(c) ==
  LET cmd == handle_cmd(ctClient[c].line[1])
      m == Head(Conn(c).down)
  IN /\ Waiting(c) /\ Conn(c).down # <<>> /\ m.rep = msg_map(Conn(c).req)
     /\ Conn(c).req # "TOP"
     /\ (cmd = "terminate session" => Conn(c).req = "TERMINATE_SESSION")
     /\ ctClient' = [ctClient EXCEPT
          ![c] = [@ EXCEPT !.phase = "done", !.slot = 0, !.exit = ExitStatus(cmd, m),
                           !.shown = IF cmd = "show session" THEN session_info_cmd(ctClient[c].line[2], m) ELSE {}]]
     /\ ctConns' = [ctConns EXCEPT ![ctClient[c].slot] = Left(@)]
     /\ UNCHANGED <<ctServer, ctProcs, ctSessions, ctBans>>

\* Mutant: of several sessions that fit, one is ended.
AnyMatch(found) == found # {}

OneMatch(found) == Cardinality(found) = 1

\* the sessions are listed; exactly one fits: a second connection ends it, by its full ID
handle_terminate_session_cmd(c) ==
  LET m == Head(Conn(c).down)
      found == {s \in m.data : SidFits(ctClient[c].line[2], s)}
      k == ctClient[c].slot
  IN /\ Waiting(c) /\ Conn(c).down # <<>> /\ m.rep = msg_map(Conn(c).req)
     /\ handle_cmd(ctClient[c].line[1]) = "terminate session" /\ Conn(c).req = "LIST_COOKIES"
     /\ IF OneMatch(found) /\ ctServer.up
        THEN \E s \in found :
               /\ ctClient' = [ctClient EXCEPT ![c].seen = m.data, ![c].sid = s]
               /\ ctConns' = [ctConns EXCEPT ![k] = NewConn(c, "TERMINATE_SESSION", s)]
        ELSE /\ Exits(c, 1)
             /\ ctConns' = [ctConns EXCEPT ![k] = Left(@)]
     /\ UNCHANGED <<ctServer, ctProcs, ctSessions, ctBans>>

\* the connection ended without a reply: ERR_SERVER_UNREACHABLE
CtNoReply(c) ==
  /\ Waiting(c) /\ Conn(c).down = <<>> /\ Conn(c).fd = Hungup
  /\ Exits(c, 1)
  /\ ctConns' = [ctConns EXCEPT ![ctClient[c].slot] = Left(@)]
  /\ UNCHANGED <<ctServer, ctProcs, ctSessions, ctBans>>

\* "show events": the list is printed, then every update
handle_events_cmd(c) ==
  /\ Waiting(c) /\ Conn(c).req = "TOP" /\ Conn(c).down # <<>> /\ Head(Conn(c).down).rep = msg_map("TOP")
  /\ ctClient' = [ctClient EXCEPT ![c].phase = "listens", ![c].view = {e[1] : e \in Head(Conn(c).down).data}]
  /\ ctConns' = [ctConns EXCEPT ![ctClient[c].slot].down = Tail(@)]
  /\ UNCHANGED <<ctServer, ctProcs, ctSessions, ctBans>>

\* what is on the screen after a message
Seen(view, m) ==
  IF m.rep = "LIST" THEN {e[1] : e \in m.data}
  ELSE IF m.data[2] THEN view \cup {m.data[1]} ELSE view \ {m.data[1]}

ReadUpdate(c) ==
  /\ ctClient[c].phase = "listens" /\ Conn(c).down # <<>>
  /\ ctClient' = [ctClient EXCEPT ![c].view = Seen(@, Head(Conn(c).down))]
  /\ ctConns' = [ctConns EXCEPT ![ctClient[c].slot].down = Tail(@)]
  /\ UNCHANGED <<ctServer, ctProcs, ctSessions, ctBans>>

\* "q", or main is gone (status), or occtl is killed
EventsEnd(c, status) ==
  /\ ctClient[c].phase = "listens"
  /\ (status = 255 => Conn(c).down = <<>> /\ Conn(c).fd = Hungup)
  /\ Exits(c, status)
  /\ ctConns' = [ctConns EXCEPT ![ctClient[c].slot] = Left(@)]
  /\ UNCHANGED <<ctServer, ctProcs, ctSessions, ctBans>>

OcctlKilled(c) ==
  /\ Waiting(c)
  /\ Exits(c, 130)
  /\ ctConns' = [ctConns EXCEPT ![ctClient[c].slot] = Left(@)]
  /\ UNCHANGED <<ctServer, ctProcs, ctSessions, ctBans>>

-----------------------------------------------------------------------------
Started(run) == [c \in CtClients |-> [NewClient EXCEPT !.line = run[c]]]

CtInit ==
  /\ ctServer = [up |-> TRUE, signals |-> {}, top |-> NoTop, blocked |-> <<>>]
  /\ ctProcs = [p \in CtWorkers |-> [phase |-> IF p \in CtOnline THEN "accepted" ELSE "none", killed |-> FALSE]]
  /\ ctSessions = {CtSid[p] : p \in CtOnline}
  /\ ctBans = CtIps
  /\ ctConns = [k \in CtSlots |-> NoConn]
  /\ \E run \in CtRuns : ctClient = Started(run)

OcctlStep(c) ==
  \/ send_cmd(c) \/ handle_terminate_session_cmd(c) \/ CtNoReply(c) \/ handle_events_cmd(c) \/ ReadUpdate(c)
  \/ EventsEnd(c, 255)

\* main serves a connection: it accepts it, answers its request or sees it closed
ctl_serve(k) == (\E root \in BOOLEAN : ctl_handle_commands(k, root)) \/ ctl_request(k) \/ ctl_eof(k)

CtNext ==
  \/ \E k \in CtSlots : ctl_serve(k)
  \/ Unblocked \/ ReloadSignal \/ StopSignal
  \/ \E p \in CtWorkers : WorkerStarts(p) \/ UserConnected(p) \/ UserAccepted(p) \/ WorkerEnds1(p)
  \/ \E s \in ctSessions : SessionExpires(s)
  \/ \E c \in CtClients : \/ connect_to_ocserv(c) \/ OcctlStep(c) \/ EventsEnd(c, 0) \/ OcctlKilled(c)

\* main serves its descriptors, occtl reads what it is sent
CtFair ==
  /\ \A k \in CtSlots : WF_ctvars(ctl_serve(k))
  /\ WF_ctvars(Unblocked) /\ WF_ctvars(StopSignal)
  /\ \A c \in CtClients : WF_ctvars(OcctlStep(c))

CtSpec == CtInit /\ [][CtNext]_ctvars /\ CtFair

------------------------------- (* properties *) ----------------------------
\* top_fd is the descriptor of an open connection that asked for the
\* events: it is given back before the descriptor is closed, so an update
\* is never written into the connection of another command that got the
\* same descriptor (ctl_cmd_wacher_cb, ctl_handler_notify).
TopIsListener == ctServer.top # NoTop => \E k \in CtSlots : ctConns[k].fd = ctServer.top /\ ctConns[k].req = "TOP"

Screen(view, msgs) == FoldLeft(Seen, view, msgs)

\* What the listener has on its screen, once it has read what is under way,
\* holds every user that is connected, and none that has left: the list and
\* the updates fit together, whenever the listener joined
\* (method_top, UserConnected, user_disconnected).
EventsComplete ==
  \A k \in TopConn : ctConns[k].client # NoClient /\ ctConns[k].up = <<>> =>
    LET pending == IF ctServer.blocked = <<>> THEN <<>> ELSE <<Msg("TOP_UPDATE", ctServer.blocked)>>
        screen == Screen(ctClient[ctConns[k].client].view, ctConns[k].down \o pending)
    IN LoggedIn \subseteq screen /\ \A p \in screen : ctProcs[p].phase # "left"

\* When "disconnect user" or "terminate user" reports success, every worker
\* the user had when the command was typed has been told to end, or has
\* ended (method_disconnect_user_name's loop over proc_list).
DisconnectedAll ==
  \A c \in CtClients : ctClient[c].line[1] \in {"disconnect user", "terminate user"} /\ ctClient[c].exit = 0 =>
    \A p \in ctClient[c].targets : ctProcs[p].killed \/ ctProcs[p].phase \in {"gone", "left"}

\* "terminate session" ends the one session that fitted its argument when it
\* looked, although sessions come and go between its two connections
\* (handle_terminate_session_cmd, method_terminate_session).
TerminatedFitted ==
  \A c \in CtClients : ctClient[c].line[1] = "terminate session" /\ ctClient[c].exit = 0 =>
    {s \in ctClient[c].seen : SidFits(ctClient[c].line[2], s)} = {ctClient[c].sid} /\ ctClient[c].sid \notin ctSessions

\* "show session" finds the session whose ID, as shown, it is given
\* (doc/occtl.8.md:109-111).
ShowSessionFinds ==
  \A c \in CtClients : ctClient[c].line[1] = "show session" /\ ctClient[c].exit = 0 /\ ctClient[c].line[2] \in ctSessions =>
    ctClient[c].shown # {}

ListenerGone == \E k \in TopConn : ctConns[k].client = NoClient
Waits(c) == ctClient[c].phase = "waits"

\* The slot of a listener that is gone is given back, so that the next
\* "show events" is told of the users (ctl_cmd_wacher_cb's read of EOF).
SlotIsFreed == ListenerGone ~> ~ListenerGone

\* Every command comes to an end, whatever main and the other occtl
\* processes do meanwhile, and whether main stops or not (send_cmd).
CommandsEnd == \A c \in CtClients : Waits(c) ~> ~Waits(c)

\* A command acts on all it names and on nothing else, and a listener of events sees every
\* user that is there, while users come and go (method_*, ctl_handler_notify).
CommandsExact == TopIsListener /\ EventsComplete /\ DisconnectedAll /\ TerminatedFitted

\* Every occtl command ends, and a listener that left does not keep the slot of the events.
ClientsServed == SlotIsFreed /\ CommandsEnd
=============================================================================
