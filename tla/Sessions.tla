------------------------------ MODULE Sessions ------------------------------
(***************************************************************************)
(* The main process, the workers and sec-mod together: from the fork of a  *)
(* worker, through authentication and the cookie request, to the session,  *)
(* its replacement by a roaming client, and its removal.                   *)
(*                                                                         *)
(* Main is one event loop: a handler is one step, except that a handler    *)
(* that opens a session and must then remove the proc makes two requests   *)
(* to sec-mod; between them (st = "DROP") workers and sec-mod go on while  *)
(* main takes no other event.  A worker is a process of its own; its pid   *)
(* is its slot, and a slot is forked again once proc and process are gone. *)
(* All sessions belong to one user; failing allocations are left out.      *)
(***************************************************************************)
EXTENDS SecModDb, FiniteSets

CONSTANTS
  NoSid,         \* no session identifier
  IP,            \* addresses of the client pool
  NoIP,          \* no lease
  MaxSame,       \* max_same_clients, 0 for no limit
  Scripts,       \* a connect script is configured
  DenyRoaming,   \* deny_roaming: a cookie may be refused by its address
  Faults,        \* opening the tun device, applying routes, starting a script
                 \* may fail, and workers may die without reporting
  Admin,         \* occtl disconnects and terminates sessions
  MaxForks       \* bound: workers forked in a behaviour

ASSUME SessionsAssumption ==
  /\ NoSid \notin SID /\ NoIP \notin IP /\ IsFiniteSet(PID)
  /\ MaxSame \in Nat /\ MaxForks \in Nat
  /\ {Scripts, DenyRoaming, Faults, Admin} \subseteq BOOLEAN

VARIABLES
  proc,    \* s->proc_list, by the worker's pid
  wk,      \* the worker processes
  mail,    \* CLI_STATS of a running session on their way to sec-mod
  forks    \* workers forked so far

sessVars == <<proc, wk, mail, forks>>
vars == <<db, banOut, banIn, starts, stops, up, proc, wk, mail, forks>>

\* proc_st.  DROP is PS_AUTH_FAILED with the removal of the proc under way.
\* script: the proc is in the script list; named: username is set;
\* owned: the lease is in the lease table (lease->db).
Proc == [st: {"NONE", "INACTIVE", "FAILED", "COMPLETED", "DROP"},
         sid: SID \cup {NoSid}, active: BOOLEAN, named: BOOLEAN,
         inval: BOOLEAN, killed: BOOLEAN, script: BOOLEAN,
         ip: IP \cup {NoIP}, owned: BOOLEAN]

NewProc(st) ==
  [st |-> st, sid |-> NoSid, active |-> FALSE, named |-> FALSE,
   inval |-> FALSE, killed |-> FALSE, script |-> FALSE,
   ip |-> NoIP, owned |-> FALSE]

\* worker_st: run is the process (term: SIGTERM is pending), phase the
\* auth_state with the wait for main's reply and the end of the worker.
Worker == [run: {"dead", "run", "term"},
           phase: {"new", "auth", "cookie", "wait", "complete", "done"},
           sid: SID \cup {NoSid}]

Exists(w) == proc[w].st # "NONE"
Alive(w) == wk[w].run # "dead"
MainIdle == up /\ \A w \in PID : proc[w].st # "DROP"

\* Mutant: pid_killed is set but no signal is sent.
NoSignal(x) == x

\* kill(pid, SIGTERM)
Signal(x) == IF x.run = "run" THEN [x EXCEPT !.run = "term"] ELSE x

-----------------------------------------------------------------------------
(* Workers and the clients behind them. *)

\* listen_watcher_cb: accept, fork, new_proc.
Fork(w) ==
  /\ MainIdle /\ ~Exists(w) /\ ~Alive(w) /\ forks < MaxForks
  /\ proc' = [proc EXCEPT ![w] = NewProc("INACTIVE")]
  /\ wk' = [wk EXCEPT ![w] = [run |-> "run", phase |-> "new", sid |-> NoSid]]
  /\ forks' = forks + 1
  /\ UNCHANGED <<dbVars, mail>>

\* What the worker makes of sec-mod's answer: go on, take the cookie, or be back
\* at the start, where a GSSAPI failure falls back to the next method and any
\* other ends the worker.
AfterReply(s) ==
  CASE db'[s].status \in {"INIT", "CONT"} -> [phase |-> "auth", sid |-> s]
    [] db'[s].status = "COMPLETED" -> [phase |-> "cookie", sid |-> s]
    [] OTHER -> [phase |-> "new", sid |-> NoSid]

\* post_auth_handler in S_AUTH_INACTIVE; a rejected request gets no answer.
WorkerAuthInit(w) ==
  /\ wk[w].run = "run" /\ wk[w].phase = "new"
  /\ \/ \E s \in SID, old \in SUBSET SID :
          /\ AuthInitNew(w, s, old)
          /\ wk' = [wk EXCEPT ![w].phase = AfterReply(s).phase,
                              ![w].sid = AfterReply(s).sid]
     \/ AuthInitReject(w) /\ UNCHANGED wk
  /\ UNCHANGED <<proc, mail, forks>>

\* post_auth_handler in S_AUTH_INIT and S_AUTH_REQ.
WorkerAuthCont(w) ==
  /\ wk[w].run = "run" /\ wk[w].phase = "auth"
  /\ IF Live(wk[w].sid)
     THEN /\ AuthCont(wk[w].sid)
          /\ wk' = [wk EXCEPT ![w].phase = AfterReply(wk[w].sid).phase,
                              ![w].sid = AfterReply(wk[w].sid).sid]
     ELSE UNCHANGED dbVars /\ wk' = [wk EXCEPT ![w].phase = "new", ![w].sid = NoSid]
  /\ UNCHANGED <<proc, mail, forks>>

\* cookie_authenticate_or_exit: the client presents the cookie it obtained,
\* here or on an earlier connection; the worker waits for main's reply.
WorkerCookie(w, s) ==
  /\ wk[w].run = "run" /\ wk[w].phase \in {"new", "auth", "cookie"}
  /\ db[s].status \in {"COMPLETED", "FAILED", "GONE", "ENDED"}
  /\ wk' = [wk EXCEPT ![w].phase = "wait", ![w].sid = s]
  /\ UNCHANGED <<dbVars, proc, mail, forks>>

\* send_stats_to_secmod, periodic: nobody waits for sec-mod to read it.
WorkerStats(w) ==
  /\ wk[w].run = "run" /\ wk[w].phase = "complete"
  /\ mail' = mail \cup {<<w, wk[w].sid>>}
  /\ UNCHANGED <<dbVars, proc, wk, forks>>

StatsArrive(w, s) ==
  /\ up /\ <<w, s>> \in mail
  /\ mail' = mail \ {<<w, s>>}
  /\ IF db[s].status = "COMPLETED" THEN CliStats(w, s, "NONE") ELSE UNCHANGED dbVars
  /\ UNCHANGED <<proc, wk, forks>>

\* exit_worker_reason in S_AUTH_COMPLETE: the reason is reported and the worker
\* waits until sec-mod has read it.  A signal means REASON_SERVER_DISCONNECT.
WorkerReport(w, reason) ==
  /\ Alive(w) /\ wk[w].phase = "complete" /\ reason # "NONE"
  /\ wk[w].run = "term" => reason = "SERVER"
  /\ IF up /\ db[wk[w].sid].status = "COMPLETED"
     THEN CliStats(w, wk[w].sid, reason) ELSE UNCHANGED dbVars
  /\ wk' = [wk EXCEPT ![w].phase = "done"]
  /\ UNCHANGED <<proc, mail, forks>>

\* The process ends, reported or not.
WorkerExit(w) ==
  /\ Alive(w) /\ (wk[w].phase # "complete" \/ Faults)
  /\ wk' = [wk EXCEPT ![w].run = "dead"]
  /\ UNCHANGED <<dbVars, proc, mail, forks>>

-----------------------------------------------------------------------------
(* Main: the cookie request. *)

\* proc_search_sid returns one of the procs hashed under the SID.
OfSid(s) == {o \in PID : proc[o].active /\ proc[o].sid = s}
proc_search_sid(s) == IF OfSid(s) = {} THEN {NoPid} ELSE OfSid(s)
Replaceable(s) == {o \in proc_search_sid(s) : o # NoPid => ~proc[o].inval}

\* ip_lease_exists
Leased == {proc[o].ip : o \in {o \in PID : proc[o].owned}}

\* Mutant: the proc itself is not counted.
CountOthers(w, old) ==
  \/ MaxSame = 0
  \/ Cardinality({v \in PID \ {w, old} :
                    Exists(v) /\ ~proc[v].killed /\ proc[v].named}) <= MaxSame

\* check_multiple_users: procs of the user that were not killed by main (old has
\* just been), even those that were refused and are on their way out.
check_multiple_users(w, old) ==
  \/ MaxSame = 0
  \/ 1 + Cardinality({v \in PID \ {w, old} :
                        Exists(v) /\ ~proc[v].killed /\ proc[v].named}) <= MaxSame

\* steal_ip_leases, the thief: it gets what the old proc has, its entry in the
\* lease table or a mere copy of the address.
Thief(old, p) ==
  IF old = NoPid THEN p
  ELSE [p EXCEPT !.ip = proc[old].ip, !.owned = proc[old].owned]

\* Mutant: the old proc keeps its entry in the lease table too.
RobbedKeepsLease(p) == [p EXCEPT !.killed = TRUE]

\* steal_ip_leases and kill_proc, the old proc: a copy of the address is left.
Robbed(p) == [p EXCEPT !.owned = FALSE, !.killed = TRUE]

\* get_ip_leases, the first thing open_tun does.
get_ip_leases(p) ==
  IF p.ip # NoIP THEN {p}
  ELSE {[p EXCEPT !.ip = a, !.owned = TRUE] : a \in IP \ Leased}

\* handle_script_exit: status of the proc and phase of its worker.  The reply
\* cannot be sent to a dead worker; routes may fail after an OK was sent.
handle_script_exit(w, zero) ==
  IF ~Alive(w) THEN {<<"DROP", wk[w].phase>>}
  ELSE IF ~zero THEN {<<"FAILED", "done">>}
  ELSE {<<"COMPLETED", "complete">>}
         \cup (IF Faults THEN {<<"DROP", "complete">>} ELSE {})

\* accept_user and handle_cookie_auth_res: the procs that may result, with the
\* phase of the worker.
accept_user(w, old, p) ==
  LET refused(q) == {<<[q EXCEPT !.st = r[1]], r[2]>> : r \in handle_script_exit(w, FALSE)}
      granted(q) == {<<[q EXCEPT !.st = r[1]], r[2]>> : r \in handle_script_exit(w, TRUE)}
      waiting(q) == {<<[q EXCEPT !.st = "FAILED", !.script = TRUE], wk[w].phase>>}
      leased == get_ip_leases(p)
  IN IF ~check_multiple_users(w, old) \/ leased = {} THEN refused(p)
     ELSE UNION {(IF Scripts THEN waiting(q) ELSE granted(q))
                   \cup (IF Faults THEN refused(q) ELSE {}) : q \in leased}

\* AUTH_COOKIE_REQ, handle_auth_cookie_req refuses.
CookieRefused(w) ==
  /\ MainIdle /\ proc[w].st = "INACTIVE" /\ wk[w].phase = "wait"
  /\ \E named \in BOOLEAN :
       /\ \/ /\ proc_search_sid(wk[w].sid) # Replaceable(wk[w].sid)
             /\ ~named /\ UNCHANGED dbVars
          \/ /\ Replaceable(wk[w].sid) # {}
             /\ IF named THEN DenyRoaming /\ OpenGranted(wk[w].sid)
                ELSE OpenDenied(wk[w].sid) \/ OpenNoConfig(wk[w].sid)
       /\ \E r \in handle_script_exit(w, FALSE) :
            /\ proc' = [proc EXCEPT ![w].st = r[1], ![w].named = named]
            /\ wk' = [wk EXCEPT ![w].phase = r[2]]
  /\ UNCHANGED <<mail, forks>>

\* AUTH_COOKIE_REQ, the session is opened: it replaces one earlier proc of the
\* SID, which is robbed of its lease and sent SIGTERM.
CookieOpened(w) ==
  /\ MainIdle /\ proc[w].st = "INACTIVE" /\ wk[w].phase = "wait"
  /\ OpenGranted(wk[w].sid)
  /\ \E old \in Replaceable(wk[w].sid) :
       \E r \in accept_user(w, old, Thief(old, [proc[w] EXCEPT
                       !.sid = wk[w].sid, !.active = TRUE, !.named = TRUE])) :
            /\ proc' = [v \in PID |-> IF v = w THEN r[1]
                                      ELSE IF v = old THEN Robbed(proc[v])
                                      ELSE proc[v]]
            /\ wk' = [v \in PID |-> IF v = w THEN [wk[v] EXCEPT !.phase = r[2]]
                                    ELSE IF v = old THEN Signal(wk[v])
                                    ELSE wk[v]]
  /\ UNCHANGED <<mail, forks>>

\* script_child_watcher_cb
ScriptExit(w, zero) ==
  /\ MainIdle /\ proc[w].script
  /\ \E r \in handle_script_exit(w, zero) :
       /\ proc' = [proc EXCEPT ![w].script = FALSE, ![w].st = r[1]]
       /\ wk' = [wk EXCEPT ![w].phase = r[2]]
  /\ UNCHANGED <<dbVars, mail, forks>>

-----------------------------------------------------------------------------
(* Main: the end of a proc, and the administrator. *)

\* Mutant: the session of a killed proc is not closed.
RemoveNoClose(w, kill) ==
  /\ IF proc[w].active /\ ~kill THEN SessionClose(proc[w].sid, proc[w].inval)
                                ELSE UNCHANGED dbVars
  /\ proc' = [proc EXCEPT ![w] = NewProc("NONE")]
  /\ wk' = IF kill THEN [wk EXCEPT ![w] = Signal(@)] ELSE wk

\* remove_proc: the session is closed, the lease and the hashes go, a connect
\* script is killed; the worker may still run.
remove_proc(w, kill) ==
  /\ IF proc[w].active THEN SessionClose(proc[w].sid, proc[w].inval)
                       ELSE UNCHANGED dbVars
  /\ proc' = [proc EXCEPT ![w] = NewProc("NONE")]
  /\ wk' = IF kill THEN [wk EXCEPT ![w] = Signal(@)] ELSE wk

\* cmd_watcher_cb reads end of file, after every message of the worker.
WorkerGone(w) ==
  /\ MainIdle /\ Exists(w) /\ ~Alive(w)
  /\ ~(proc[w].st = "INACTIVE" /\ wk[w].phase = "wait")
  /\ remove_proc(w, FALSE)
  /\ UNCHANGED <<mail, forks>>

\* The second half of a handler that returned ERR_BAD_COMMAND.
Drop(w) ==
  /\ up /\ proc[w].st = "DROP"
  /\ remove_proc(w, TRUE)
  /\ UNCHANGED <<mail, forks>>

\* Mutant: a proc whose connect script runs is left alone.
AuthTimeoutSparesScripts(w) ==
  /\ MainIdle /\ proc[w].st \in {"INACTIVE", "FAILED"} /\ ~proc[w].script
  /\ remove_proc(w, TRUE)
  /\ UNCHANGED <<mail, forks>>

\* kill_children_auth_timeout, one of its procs; a running connect script does
\* not stop it.
AuthTimeout(w) ==
  /\ MainIdle /\ proc[w].st \in {"INACTIVE", "FAILED"}
  /\ remove_proc(w, TRUE)
  /\ UNCHANGED <<mail, forks>>

\* disconnect_proc for a set of procs
disconnect_procs(W) ==
  /\ proc' = [v \in PID |-> IF v \in W THEN [proc[v] EXCEPT !.inval = TRUE] ELSE proc[v]]
  /\ wk' = [v \in PID |-> IF v \in W THEN Signal(wk[v]) ELSE wk[v]]

Named == {v \in PID : Exists(v) /\ proc[v].named}

\* method_disconnect_user_id, method_disconnect_user_name
Disconnect ==
  /\ Admin /\ MainIdle
  /\ \E W \in {{v} : v \in {v \in PID : Exists(v)}} \cup {Named} :
       W # {} /\ disconnect_procs(W)
  /\ UNCHANGED <<dbVars, mail, forks>>

\* terminate_user_sessions_in_secmod, terminate_session_in_secmod
TerminateLive(S) == IF S = {} THEN UNCHANGED dbVars ELSE Terminate(S)

\* method_terminate_user, method_terminate_id, method_terminate_session
TerminateSessions ==
  /\ Admin /\ MainIdle
  /\ \/ /\ disconnect_procs(Named)
        /\ TerminateLive({s \in SID : Live(s)})
     \/ \E v \in {v \in PID : Exists(v)} :
          /\ disconnect_procs({v})
          /\ TerminateLive({s \in SID : Live(s) /\ s = proc[v].sid})
     \/ /\ \E s \in SID : Terminate({s})
        /\ UNCHANGED <<proc, wk>>
  /\ UNCHANGED <<mail, forks>>

\* sec-mod, and main's side of the asynchronous socket
SecModStep ==
  /\ \/ \E s \in SID : BanIpReply(s)
     \/ MainIdle /\ \E s \in SID, banned \in BOOLEAN : MainBanIp(s, banned)
     \/ Cleanup
     \/ Tick
  /\ UNCHANGED sessVars

-----------------------------------------------------------------------------
Init ==
  /\ DbInit
  /\ proc = [w \in PID |-> NewProc("NONE")]
  /\ wk = [w \in PID |-> [run |-> "dead", phase |-> "new", sid |-> NoSid]]
  /\ mail = {} /\ forks = 0

WorkerNext(w) ==
  \/ WorkerAuthInit(w) \/ WorkerAuthCont(w)
  \/ \E s \in SID : WorkerCookie(w, s) \/ StatsArrive(w, s)
  \/ WorkerStats(w)
  \/ \E r \in Reason : WorkerReport(w, r)
  \/ WorkerExit(w)

MainNext(w) ==
  \/ Fork(w) \/ CookieRefused(w) \/ CookieOpened(w)
  \/ \E zero \in BOOLEAN : ScriptExit(w, zero)
  \/ WorkerGone(w) \/ Drop(w) \/ AuthTimeout(w)

Next ==
  \/ \E w \in PID : WorkerNext(w) \/ MainNext(w)
  \/ Disconnect \/ TerminateSessions \/ SecModStep

Spec == Init /\ [][Next]_vars

\* A worker that was signalled, or has nothing more to do, reports and exits
\* (alarm(2) in handle_term forces it); main's loop serves every descriptor and
\* timer.  Clients, scripts and the administrator may do nothing.
Leaving(w) == wk[w].run = "term" \/ wk[w].phase = "done"

Fairness ==
  \A w \in PID :
    /\ WF_vars(Leaving(w) /\ \E r \in Reason : WorkerReport(w, r))
    /\ WF_vars(Leaving(w) /\ WorkerExit(w))
    /\ SF_vars(WorkerGone(w)) /\ WF_vars(Drop(w)) /\ SF_vars(AuthTimeout(w))

FairSpec == Spec /\ Fairness

-----------------------------------------------------------------------------
(* Properties *)

\* Types of the procs, the workers and the messages under way; the database
\* keeps its types under the real main and the real workers.
TypeOK ==
  /\ DbTypeOK
  /\ proc \in [PID -> Proc] /\ wk \in [PID -> Worker]
  /\ mail \subseteq PID \X SID /\ forks \in 0..MaxForks

\* What main holds of a SID: the procs that will send SESSION_CLOSE for it.
Held == [s \in SID |-> Cardinality(OfSid(s))]

SM == INSTANCE SecMod WITH held <- Held, MainMayRefuse <- DenyRoaming

\* Main and the workers use sec-mod as module SecMod assumes: every session main
\* holds is one sec-mod granted, and leaves it through exactly one SESSION_CLOSE
\* (active_sid in main-auth.c:189 against main-proc.c:107), whatever happens to
\* the worker, the connect script, the reply or the replaced session.  The
\* guarantees proved of SecMod then hold of the whole server.
ImplementsSecMod == SM!Spec

\* max-same-clients holds for the sessions that were accepted and that main has
\* not killed, while connect scripts of several of them run, refused procs
\* linger and sessions replace each other (main-auth.c:212).
SameClientsBound ==
  MaxSame > 0 =>
    Cardinality({w \in PID : (proc[w].st = "COMPLETED" \/ proc[w].script)
                             /\ ~proc[w].killed}) <= MaxSame

\* An address is in the lease table for one proc only, through chains of
\* replacements in which thief and victim end in any order (ip-lease.c:105,
\* 577).
LeasesDistinct ==
  \A v, w \in PID :
    proc[v].owned /\ proc[w].owned /\ v # w => proc[v].ip # proc[w].ip

\* A session that was replaced goes away: its worker ends and its proc is
\* removed, also when the worker dies first or a script still runs for it.
KilledGoesAway ==
  \A w \in PID : proc[w].killed ~> proc[w].st = "NONE"

\* No proc stays unauthenticated for ever: it is accepted or removed, with
\* scripts that never end and clients that never answer (main.c:982).
UnauthenticatedGoesAway ==
  \A w \in PID : proc[w].st \in {"INACTIVE", "FAILED", "DROP"}
                   ~> proc[w].st \in {"NONE", "COMPLETED"}

\* src/main-auth.c:209 says that a cookie used before leads to "disconnect the
\* old session (cookies are unique)": two sessions of a SID, one is leaving.
CookiesUnique ==
  \A v, w \in PID :
    v # w /\ proc[v].st = "COMPLETED" /\ proc[w].st = "COMPLETED"
      /\ proc[v].sid = proc[w].sid => proc[v].killed \/ proc[w].killed

\* doc/requirements/internal/authentication.md:1465: after a re-open sec-mod
\* "MUST clear the terminate cause recorded for the previous connection
\* segment", and until "the current worker reports a cause" it is unset.
CauseIsOfThisSegment ==
  \A w \in PID :
    proc[w].st = "COMPLETED" /\ ~proc[w].killed /\ wk[w].phase = "complete"
      /\ db[proc[w].sid].status = "COMPLETED"
      => db[proc[w].sid].reason = "NONE"
=============================================================================
