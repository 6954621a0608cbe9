------------------------------ MODULE SecModDb ------------------------------
(***************************************************************************)
(* The client-entry database of the security module (sec-mod): the entries *)
(* that stand for cookies, the handlers that authenticate, open, close,    *)
(* expire and delete them, and the accounting records these send.          *)
(*                                                                         *)
(* sec-mod is one process with one event loop, so every handler is one     *)
(* atomic step, written here as an action on sec-mod's own variables.      *)
(* Module SecMod adds the most general peers; module Sessions adds the     *)
(* code of the main process and of the workers.                            *)
(*                                                                         *)
(* Time is relative: ttl is e->exptime - time(NULL), cut off at zero.      *)
(***************************************************************************)
EXTENDS Integers

CONSTANTS
  SID,            \* session identifiers (e->sid), never issued twice
  PID,            \* process identifiers of workers
  NoPid,          \* acct_info.id = 0
  CookieTimeout,  \* vhost->config->cookie_timeout
  Slack,          \* AUTH_SLACK_TIME
  Persistent,     \* vhost->config->persistent_cookies
  BanEnabled,     \* vhost->config->max_ban_score # 0
  HasAcct,        \* an accounting module is configured
  StrictWorkers,  \* workers send AUTH_CONT only in answer to a prompt
  MaxInUse        \* bound: SESSION_OPEN is not sent beyond this in_use

ASSUME ConstAssumption ==
  /\ CookieTimeout \in Nat /\ Slack \in Nat /\ MaxInUse \in Nat
  /\ Persistent \in BOOLEAN /\ BanEnabled \in BOOLEAN
  /\ HasAcct \in BOOLEAN /\ StrictWorkers \in BOOLEAN
  /\ NoPid \notin PID

VARIABLES
  db,      \* sec->client_db
  banOut,  \* SIDs of the BAN_IP messages main has not read
  banIn,   \* SIDs of the failing BAN_IP_REPLYs sec-mod has not read
  starts,  \* accounting Start records sent for the SID
  stops,   \* accounting Stop records sent for the SID
  up       \* the sec-mod process runs

dbVars == <<db, banOut, banIn, starts, stops, up>>

\* PS_AUTH_* plus three states of a SID that has no entry: not issued yet,
\* deleted, and deleted by an administrator.
AuthStatus == {"INACTIVE", "FAILED", "INIT", "CONT", "COMPLETED"}
Status == AuthStatus \cup {"ABSENT", "GONE", "ENDED"}

\* SERVER stands for REASON_SERVER_DISCONNECT and REASON_SESSION_TIMEOUT,
\* which every handler treats alike; OTHER for the remaining nonzero reasons.
Reason == {"NONE", "USER", "SERVER", "OTHER"}

Entry == [status: Status, in_use: Nat, open: BOOLEAN, ttl: Nat,
          reason: Reason, pid: PID \cup {NoPid}]

NoEntry(status) ==
  [status |-> status, in_use |-> 0, open |-> FALSE, ttl |-> 0,
   reason |-> "NONE", pid |-> NoPid]

FullTtl == CookieTimeout + Slack

\* Mutant: the entry is created with exptime = -1, which means no expiry.
NewEntryNoExpiry(p) ==
  [status |-> "INACTIVE", in_use |-> 0, open |-> FALSE, ttl |-> -1,
   reason |-> "NONE", pid |-> p]

\* new_client_entry: a fresh SID stamped with the worker's pid.
new_client_entry(p) ==
  [status |-> "INACTIVE", in_use |-> 0, open |-> FALSE, ttl |-> FullTtl,
   reason |-> "NONE", pid |-> p]

Live(s) == db[s].status \in AuthStatus

\* Mutant: the in_use test is missing.
ExpiredByTime(e) == e.ttl = 0

\* IS_CLIENT_ENTRY_EXPIRED
Expired(e) == e.ttl = 0 /\ e.in_use = 0

\* find_client_entry_by_pid walks the hash table and returns the first match.
find_client_entry_by_pid(p) == {s \in SID : Live(s) /\ db[s].pid = p}

\* clean_entry and htable_del for a set of entries: sec_auth_user_deinit sends
\* the Stop of an entry whose session was opened.
StopsAfter(S) ==
  [s \in SID |-> IF s \in S /\ HasAcct /\ db[s].open
                 THEN stops[s] + 1 ELSE stops[s]]

del_client_entries(S, how) ==
  /\ db' = [s \in SID |-> IF s \in S THEN NoEntry(how) ELSE db[s]]
  /\ stops' = StopsAfter(S)

\* sec_mod_add_score_to_ip: a BAN_IP message on the asynchronous socket.  Its
\* only effect on this module is a later failing reply, which is idempotent,
\* so the messages in flight are kept as a set.
Score(s) == IF BanEnabled THEN banOut \cup {s} ELSE banOut

\* handle_sec_auth_res: the possible [status, ban] after a module result.
\* A failing auth_msg, check_group or reply turns into FAILED; a prompt
\* repeated at the same stage by a module that allows retries is scored.
handle_sec_auth_res(status, result) ==
  CASE result = "continue" ->
         {[status |-> "FAILED", ban |-> FALSE]}
           \cup [status: {status, "FAILED"},
                 ban: IF status = "INIT" THEN {FALSE} ELSE BOOLEAN]
    [] result = "ok" /\ status # "FAILED" ->
         [status: {"COMPLETED", "FAILED"}, ban: {FALSE}]
    [] OTHER -> {[status |-> "FAILED", ban |-> TRUE]}

-----------------------------------------------------------------------------
(* Messages from workers. *)

\* handle_sec_auth_init, the pid has no entry or a failed, unattached one that
\* is deleted first.  set_module or auth_init may fail before PS_AUTH_INIT.
AuthInitNew(p, s, old) ==
  /\ up
  /\ db[s].status = "ABSENT"
  /\ IF find_client_entry_by_pid(p) = {}
     THEN old = {}
     ELSE \E o \in find_client_entry_by_pid(p) :
            /\ old = {o} /\ db[o].status = "FAILED" /\ db[o].in_use = 0
  /\ \E start \in {<<"INACTIVE", "fail">>, <<"INIT", "continue">>,
                   <<"INIT", "ok">>} :
       \E r \in handle_sec_auth_res(start[1], start[2]) :
         /\ db' = [t \in SID |->
                     IF t = s
                     THEN [new_client_entry(p) EXCEPT !.status = r.status]
                     ELSE IF t \in old THEN NoEntry("GONE") ELSE db[t]]
         /\ banOut' = IF r.ban THEN Score(s) ELSE banOut
  /\ stops' = StopsAfter(old)
  /\ UNCHANGED <<banIn, starts, up>>

\* handle_sec_auth_init, the pid already carries an entry that may not be
\* replaced: the entry's address is scored, nothing is answered.
AuthInitReject(p) ==
  /\ up
  /\ \E o \in find_client_entry_by_pid(p) :
       /\ ~(db[o].status = "FAILED" /\ db[o].in_use = 0)
       /\ banOut' = Score(o)
  /\ UNCHANGED <<db, banIn, starts, stops, up>>

\* Mutant: the state of the entry is not checked.
AuthContAnyState(s) ==
  /\ up /\ Live(s)
  /\ \E result \in {"ok", "continue", "fail"} :
       \E r \in handle_sec_auth_res("CONT", result) :
         /\ db' = [db EXCEPT ![s].status = r.status]
         /\ banOut' = IF r.ban THEN Score(s) ELSE banOut
  /\ UNCHANGED <<banIn, starts, stops, up>>

\* handle_sec_auth_cont: outside INIT/CONT, without a password or without a
\* module the result is a failure that is applied to the entry all the same.
AuthCont(s) ==
  /\ up /\ Live(s)
  /\ StrictWorkers => db[s].status \in {"INIT", "CONT", "FAILED"}
  /\ \E result \in {"ok", "continue", "fail"} :
       LET prompted == db[s].status \in {"INIT", "CONT"}
       IN /\ prompted \/ result = "fail"
          /\ \E r \in handle_sec_auth_res(
                        IF prompted THEN "CONT" ELSE db[s].status, result) :
               /\ db' = [db EXCEPT ![s].status = r.status]
               /\ banOut' = IF r.ban THEN Score(s) ELSE banOut
  /\ UNCHANGED <<banIn, starts, stops, up>>

\* handle_sec_auth_stats_cmd: the last disconnect reason and the pid are taken
\* from whichever worker reports.
CliStats(p, s, reason) ==
  /\ up /\ db[s].status = "COMPLETED"
  /\ db' = [db EXCEPT ![s].pid = p,
                      ![s].reason = IF reason = "NONE" THEN @ ELSE reason]
  /\ UNCHANGED <<banOut, banIn, starts, stops, up>>

-----------------------------------------------------------------------------
(* Messages from main.  Main blocks until it has the reply, so a request,  *)
(* its handler and the reply are one step; a reply that is never sent      *)
(* (gnutls_rnd failing) is a refusal to main, after MAIN_SEC_MOD_TIMEOUT.  *)

\* handle_secm_session_open_cmd, refusals that leave a status behind: an
\* expired entry, or one whose accounting Start fails, becomes FAILED.
OpenDenied(s) ==
  /\ up
  /\ \/ db[s].status # "COMPLETED" /\ UNCHANGED db
     \/ /\ db[s].status = "COMPLETED"
        /\ Expired(db[s]) \/ (HasAcct /\ ~db[s].open)
        /\ db' = [db EXCEPT ![s].status = "FAILED"]
  /\ UNCHANGED <<banOut, banIn, starts, stops, up>>

\* The part of handle_secm_session_open_cmd that every later outcome shares:
\* Start is sent once per entry, and session_is_open is set before the
\* configuration is read and the reply is sent.
MayOpen(s) ==
  up /\ db[s].status = "COMPLETED" /\ ~Expired(db[s]) /\ db[s].in_use < MaxInUse

\* Mutant: Start is sent on every open.
StartAlways(s) ==
  starts' = IF HasAcct THEN [starts EXCEPT ![s] = @ + 1] ELSE starts

StartOnce(s) ==
  starts' = IF HasAcct /\ ~db[s].open THEN [starts EXCEPT ![s] = @ + 1]
                                      ELSE starts

\* Mutant: the reference is taken before the configuration is read.
OpenNoConfigCounted(s) ==
  /\ MayOpen(s) /\ StartOnce(s)
  /\ db' = [db EXCEPT ![s].open = TRUE, ![s].in_use = @ + 1]
  /\ UNCHANGED <<banOut, banIn, stops, up>>

\* get_sup_config or gnutls_rnd fails: refused, with the session left open.
OpenNoConfig(s) ==
  /\ MayOpen(s) /\ StartOnce(s)
  /\ db' = [db EXCEPT ![s].open = TRUE]
  /\ UNCHANGED <<banOut, banIn, stops, up>>

\* The reply cannot be sent: ERR_BAD_COMMAND ends the process, no entry is
\* closed on that path.
OpenDesync(s) ==
  /\ MayOpen(s) /\ StartOnce(s)
  /\ db' = [db EXCEPT ![s].open = TRUE]
  /\ up' = FALSE
  /\ UNCHANGED <<banOut, banIn, stops>>

\* Granted: the reason of the previous segment is cleared, the cookie is
\* refreshed, the reference counted.
OpenGranted(s) ==
  /\ MayOpen(s) /\ StartOnce(s)
  /\ db' = [db EXCEPT ![s].open = TRUE, ![s].reason = "NONE",
                      ![s].ttl = FullTtl, ![s].in_use = @ + 1]
  /\ UNCHANGED <<banOut, banIn, stops, up>>

\* Mutant: the first close detaches every session.
ExpireAllReferences(e) ==
  [e EXCEPT !.in_use = 0, !.pid = NoPid, !.ttl = FullTtl]

\* expire_client_entry: drop a reference; without one left the entry is
\* deleted, or kept for a reconnection with its pid cleared.
expire_client_entry(e) ==
  LET n == IF e.in_use > 0 THEN e.in_use - 1 ELSE 0
  IN  IF n > 0 THEN [e EXCEPT !.in_use = n]
      ELSE IF ~Persistent /\ (e.reason = "SERVER" \/ (e.open /\ e.reason = "USER"))
      THEN NoEntry("GONE")
      ELSE [e EXCEPT !.in_use = 0, !.pid = NoPid,
                     !.ttl = IF e.reason # "USER" THEN FullTtl
                             ELSE IF ~Persistent \/ e.ttl <= Slack THEN Slack
                             ELSE @]

\* handle_secm_session_close_cmd: an unknown or not COMPLETED entry is
\* answered with empty statistics and left as it is.
SessionClose(s, byServer) ==
  /\ up
  /\ IF db[s].status # "COMPLETED"
     THEN UNCHANGED <<db, stops>>
     ELSE LET e == IF byServer THEN [db[s] EXCEPT !.reason = "SERVER"] ELSE db[s]
              after == expire_client_entry(e)
          IN /\ db' = [db EXCEPT ![s] = after]
             /\ stops' = IF after.status = "GONE" THEN StopsAfter({s}) ELSE stops
  /\ UNCHANGED <<banOut, banIn, starts, up>>

\* The same handler when the statistics reply cannot be sent.
CloseDesync(s) ==
  /\ up /\ db[s].status = "COMPLETED"
  /\ up' = FALSE
  /\ UNCHANGED <<db, banOut, banIn, starts, stops>>

\* terminate_user_sessions and terminate_session_by_sid: the entries of one
\* user, or the entry of one SID, whatever their references.
Terminate(S) ==
  /\ up /\ S # {} /\ \A s \in S : Live(s)
  /\ del_client_entries(S, "ENDED")
  /\ UNCHANGED <<banOut, banIn, starts, up>>

-----------------------------------------------------------------------------
(* The asynchronous socket and sec-mod's own work. *)

\* main's handler of BAN_IP: it answers only when the address is banned.
MainBanIp(s, banned) ==
  /\ up /\ s \in banOut
  /\ banOut' = banOut \ {s}
  /\ banIn' = IF banned THEN banIn \cup {s} ELSE banIn
  /\ UNCHANGED <<db, starts, stops, up>>

\* handle_sec_auth_ban_ip_reply
BanIpReply(s) ==
  /\ up /\ s \in banIn
  /\ banIn' = banIn \ {s}
  /\ db' = IF Live(s) THEN [db EXCEPT ![s].status = "FAILED"] ELSE db
  /\ UNCHANGED <<banOut, starts, stops, up>>

\* cleanup_client_entries, from the maintenance alarm.
Cleanup ==
  LET dead == {s \in SID : Live(s) /\ Expired(db[s])}
  IN /\ up /\ dead # {}
     /\ del_client_entries(dead, "GONE")
     /\ UNCHANGED <<banOut, banIn, starts, up>>

\* need_exit: sec_mod_client_db_deinit closes every open session.
Shutdown ==
  /\ up
  /\ del_client_entries({s \in SID : Live(s)}, "GONE")
  /\ up' = FALSE
  /\ UNCHANGED <<banOut, banIn, starts>>

\* A second passes.
Tick ==
  /\ up /\ \E s \in SID : db[s].ttl > 0
  /\ db' = [s \in SID |-> [db[s] EXCEPT !.ttl = IF @ > 0 THEN @ - 1 ELSE 0]]
  /\ UNCHANGED <<banOut, banIn, starts, stops, up>>

DbInit ==
  /\ db = [s \in SID |-> NoEntry("ABSENT")]
  /\ banOut = {} /\ banIn = {}
  /\ starts = [s \in SID |-> 0] /\ stops = [s \in SID |-> 0]
  /\ up = TRUE

DbTypeOK ==
  /\ db \in [SID -> Entry]
  /\ banOut \in SUBSET SID /\ banIn \in SUBSET SID
  /\ starts \in [SID -> Nat] /\ stops \in [SID -> Nat]
  /\ up \in BOOLEAN
=============================================================================
