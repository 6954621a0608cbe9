----------------------------- MODULE SecModLink -----------------------------
(***************************************************************************)
(* main and its sec-mod instances over their two socket pairs: the          *)
(* synchronous one, where main asks and waits (main-sec-mod-cmd.c,          *)
(* main-ctl-unix.c, recv_socket_msg), and the asynchronous one, where an    *)
(* instance reports addresses and statistics and may find the socket full.  *)
(* A cookie is reduced to its user and the instance whose index it carries. *)
(***************************************************************************)
EXTENDS Integers, Sequences, FiniteSets

CONSTANTS
  LkSids,       \* cookies that may be given out
  LkUser, LkHome,  \* the user of a cookie, and the instance that made it
  LkCount,      \* sec_mod_instance_count
  AsyncRoom,    \* messages the asynchronous socket holds
  Reporters,    \* instances that use it (a bound: LkReport of the others is left out)
  MaxAsks       \* bound on main's requests

Insts == 0..LkCount - 1

ASSUME LinkAssumption == LkCount \in Nat \ {0} /\ LkHome \in [LkSids -> Insts]

LkUsers == {LkUser[s] : s \in LkSids}

VARIABLES
  lkDb,       \* per instance: the cookies of its client database
  lkMade,     \* cookies given out so far
  lkConfig,   \* per instance: reloads applied
  lkReqs, lkReps,  \* per instance: unread messages on the synchronous socket
  lkCut,      \* per instance: main lost the message boundary of that socket
  lkAsync,    \* per instance: messages main has not read from the asynchronous socket
  lkSending,  \* per instance: blocked in a send on it
  lkMain,     \* what main does: the request it waits for, or Idle
  lkStopping, \* main fed itself SIGTERM
  lkAsks,     \* requests so far
  lkLast,     \* how the last request of main ended (history)
  lkOrderly   \* no request of main has failed so far (history)

lkvars == <<lkDb, lkMade, lkConfig, lkReqs, lkReps, lkCut, lkAsync, lkSending, lkMain, lkStopping, lkAsks, lkLast, lkOrderly>>
sockets == <<lkReqs, lkReps, lkCut>>

NoAsk == [op |-> "idle", sid |-> "none", user |-> "none", at |-> 0, found |-> FALSE, failed |-> FALSE,
          answers |-> {}, before |-> {}]

\* The requests a command of main may be: about one cookie, one user, or all.
Asks ==
  {[NoAsk EXCEPT !.op = "open", !.sid = s, !.at = LkHome[s]] : s \in lkMade}
    \cup {[NoAsk EXCEPT !.op = "close", !.sid = s, !.at = LkHome[s]] : s \in lkMade}
    \cup {[NoAsk EXCEPT !.op = "terminate-session", !.sid = s] : s \in lkMade}
    \cup {[NoAsk EXCEPT !.op = "terminate-user", !.user = u] : u \in LkUsers}
    \cup {[NoAsk EXCEPT !.op = o] : o \in {"list", "reload"}}

------------------------------- (* sec-mod *) -------------------------------
\* A worker's login at its instance: a new cookie (handle_sec_auth_init, _cont).
LkLogin(s) ==
  /\ s \notin lkMade /\ ~lkSending[LkHome[s]]
  /\ lkMade' = lkMade \cup {s}
  /\ lkDb' = [lkDb EXCEPT ![LkHome[s]] = @ \cup {s}]
  /\ UNCHANGED <<lkConfig, sockets, lkAsync, lkSending, lkMain, lkStopping, lkAsks, lkLast, lkOrderly>>

\* send_msg on cmd_fd by a failed login or the maintenance alarm: it blocks while there is no room.
LkReport(i) ==
  /\ i \in Reporters /\ ~lkSending[i]
  /\ IF lkAsync[i] < AsyncRoom THEN lkAsync' = [lkAsync EXCEPT ![i] = @ + 1] /\ UNCHANGED lkSending
     ELSE lkSending' = [lkSending EXCEPT ![i] = TRUE] /\ UNCHANGED lkAsync
  /\ UNCHANGED <<lkDb, lkMade, lkConfig, sockets, lkMain, lkStopping, lkAsks, lkLast, lkOrderly>>

LkSent(i) ==
  /\ lkSending[i] /\ lkAsync[i] < AsyncRoom
  /\ lkAsync' = [lkAsync EXCEPT ![i] = @ + 1] /\ lkSending' = [lkSending EXCEPT ![i] = FALSE]
  /\ UNCHANGED <<lkDb, lkMade, lkConfig, sockets, lkMain, lkStopping, lkAsks, lkLast, lkOrderly>>

\* The entries a request deletes (terminate_user_sessions, terminate_session_by_sid)
Deleted(i, r) ==
  {s \in lkDb[i] : \/ r.op = "terminate-user" /\ LkUser[s] = r.user
                   \/ r.op = "terminate-session" /\ s = r.sid}

\* expire_client_entry: a closed session may be kept for its cookie, or deleted.
MayDelete(i, r) == IF r.op = "close" THEN {{}, lkDb[i] \cap {r.sid}} ELSE {Deleted(i, r)}

\* What the reply says: the cookies concerned.  A cookie of another instance is not opened.
Answer(i, r) ==
  CASE r.op = "open" -> lkDb[i] \cap {r.sid}
    [] r.op = "list" -> lkDb[i]
    [] OTHER -> Deleted(i, r)

\* serve_request_main and process_packet_from_main on the synchronous socket
LkServe(i) ==
  /\ ~lkSending[i] /\ lkReqs[i] # <<>>
  /\ LET r == Head(lkReqs[i])
     IN /\ lkReps' = [lkReps EXCEPT ![i] = Append(@, [op |-> r.op, sids |-> Answer(i, r)])]
        /\ \E gone \in MayDelete(i, r) : lkDb' = [lkDb EXCEPT ![i] = @ \ gone]
        /\ lkConfig' = IF r.op = "reload" THEN [lkConfig EXCEPT ![i] = @ + 1] ELSE lkConfig
  /\ lkReqs' = [lkReqs EXCEPT ![i] = Tail(@)]
  /\ UNCHANGED <<lkMade, lkCut, lkAsync, lkSending, lkMain, lkStopping, lkAsks, lkLast, lkOrderly>>

--------------------------------- (* main *) --------------------------------
\* send_msg of a request to instance i
SendTo(i, ask) == lkReqs' = [lkReqs EXCEPT ![i] = Append(@, [op |-> ask.op, sid |-> ask.sid, user |-> ask.user])]

LkAsk ==
  /\ lkMain = NoAsk /\ ~lkStopping /\ lkAsks < MaxAsks
  /\ \E a \in Asks : /\ lkMain' = [a EXCEPT !.before = UNION {lkDb[i] : i \in Insts}]
                     /\ SendTo(a.at, a)
  /\ lkAsks' = lkAsks + 1
  /\ UNCHANGED <<lkDb, lkMade, lkConfig, lkReps, lkCut, lkAsync, lkSending, lkStopping, lkLast, lkOrderly>>

\* Mutant: the cookies of the first instance that has any are listed.
FirstFound(ask) == ask.op \in {"open", "close"} \/ ask.at + 1 = LkCount \/ ask.found

\* The loop over the instances is over (terminate_*_in_secmod breaks at the first that found
\* something; session_open and session_close ask one instance only).
LoopEnds(ask) ==
  \/ ask.op \in {"open", "close"} \/ ask.at + 1 = LkCount
  \/ ask.op \in {"terminate-user", "terminate-session"} /\ ask.found

\* reload_sig_watcher_cb: an instance that does not confirm ends the server.
StopsServer(ask) == ask.op = "reload" /\ ask.failed

\* main has its answer, or an error, from instance at: the next instance, or the end.
Proceed(ask) ==
  /\ IF LoopEnds(ask) THEN /\ lkMain' = NoAsk /\ lkLast' = [ask EXCEPT !.at = 0, !.found = FALSE] /\ UNCHANGED lkReqs
     ELSE /\ lkMain' = [ask EXCEPT !.at = @ + 1] /\ SendTo(ask.at + 1, ask) /\ UNCHANGED lkLast
  /\ lkStopping' = (lkStopping \/ StopsServer(ask))
  /\ lkOrderly' = (lkOrderly /\ ~ask.failed)

\* recv_socket_msg: a reply of the expected type is taken.  Of another one only the header is
\* read, so its body is what main reads next.
LkReceive ==
  LET i == lkMain.at
  IN /\ lkMain # NoAsk /\ (lkReps[i] # <<>> \/ lkCut[i])
     /\ IF lkCut[i] THEN Proceed([lkMain EXCEPT !.failed = TRUE]) /\ UNCHANGED <<lkReps, lkCut>>
        ELSE LET m == Head(lkReps[i])
             IN /\ lkReps' = [lkReps EXCEPT ![i] = Tail(@)]
                /\ IF m.op = lkMain.op
                   THEN /\ Proceed([lkMain EXCEPT !.answers = @ \cup m.sids, !.found = @ \/ m.sids # {}])
                        /\ UNCHANGED lkCut
                   ELSE /\ Proceed([lkMain EXCEPT !.failed = TRUE])
                        /\ lkCut' = [lkCut EXCEPT ![i] = (m.op # "reload")]
     /\ UNCHANGED <<lkDb, lkMade, lkConfig, lkAsync, lkSending, lkAsks>>

\* Mutant: main waits without a limit.
WaitsForever == FALSE

\* poll() in recvmsg_timeout may end after MAIN_SEC_MOD_TIMEOUT.
WaitIsLimited == TRUE

LkTimeout ==
  /\ lkMain # NoAsk /\ WaitIsLimited
  /\ Proceed([lkMain EXCEPT !.failed = TRUE])
  /\ UNCHANGED <<lkDb, lkMade, lkConfig, lkReps, lkCut, lkAsync, lkSending, lkAsks>>

\* handle_sec_mod_commands, from the event loop: never while main waits.
LkRead(i) ==
  /\ lkMain = NoAsk /\ lkAsync[i] > 0
  /\ lkAsync' = [lkAsync EXCEPT ![i] = @ - 1]
  /\ UNCHANGED <<lkDb, lkMade, lkConfig, sockets, lkSending, lkMain, lkStopping, lkAsks, lkLast, lkOrderly>>

LkInit ==
  /\ lkDb = [i \in Insts |-> {}] /\ lkMade = {} /\ lkConfig = [i \in Insts |-> 0]
  /\ lkReqs = [i \in Insts |-> <<>>] /\ lkReps = [i \in Insts |-> <<>>]
  /\ lkCut = [i \in Insts |-> FALSE] /\ lkAsync = [i \in Insts |-> 0]
  /\ lkSending = [i \in Insts |-> FALSE] /\ lkMain = NoAsk /\ lkStopping = FALSE
  /\ lkAsks = 0 /\ lkLast = NoAsk /\ lkOrderly = TRUE

LkNext ==
  \/ \E s \in LkSids : LkLogin(s)
  \/ \E i \in Insts : LkReport(i) \/ LkSent(i) \/ LkServe(i) \/ LkRead(i)
  \/ LkAsk \/ LkReceive \/ LkTimeout

LkSpec == LkInit /\ [][LkNext]_lkvars

\* The event loop and the instances go on; a wait ends.
LkFair ==
  /\ \A i \in Reporters : WF_lkvars(LkSent(i)) /\ WF_lkvars(LkRead(i))
  /\ WF_lkvars(LkReceive \/ LkTimeout)

------------------------------ (* properties *) -----------------------------
\* While every request was answered in time, a session that main was told is terminated is in no
\* instance's database, whichever instance made it (terminate_session_in_secmod,
\* terminate_session_by_sid): its cookie opens nothing any more.
TerminatedIsGone ==
  lkLast.op = "terminate-session" /\ lkOrderly => \A i \in Insts : lkLast.sid \notin lkDb[i]

\* While every request was answered in time, the cookies shown to the administrator include all
\* those the instances held when asked (method_list_cookies, handle_list_cookies_reply).
ListIsComplete == lkLast.op = "list" /\ lkOrderly => lkLast.before \subseteq lkLast.answers

\* After a reload either every instance has the configuration main goes on with, or main is
\* stopping (reload_sig_watcher_cb, secmod_reload).
ReloadIsForAll ==
  lkLast.op = "reload" => lkStopping \/ (\A i \in Insts : lkConfig[i] > 0)

\* An instance blocked on the asynchronous socket while main waits for its answer on the other
\* one does not stay so: main's wait ends, and main reads (recvmsg_timeout, MAIN_SEC_MOD_TIMEOUT).
BlockedSendEnds == \A i \in Reporters : lkSending[i] ~> ~lkSending[i]

\* doc/occtl.8.md:85, "terminate user": "permanently invalidate all of their session cookies".
AllSessionsTerminated ==
  lkLast.op = "terminate-user" /\ lkOrderly =>
    \A i \in Insts : \A s \in lkDb[i] \cap lkLast.before : LkUser[s] # lkLast.user

\* sec-mod.c:1189: the synchronous socket is "for ping-pong communication where each request is
\* answered immediately": the session opened is the one of the cookie.
OwnAnswer == lkLast.op = "open" => lkLast.answers \subseteq {lkLast.sid}

\* A command that concerns several instances is carried out at all of them, or main knows
\* that it was not (main-ctl-unix.c:895, main-sec-mod-cmd.c:790).
InstancesAgree == TerminatedIsGone /\ ListIsComplete /\ ReloadIsForAll
=============================================================================
