----------------------------- MODULE ServerStats ----------------------------
(***************************************************************************)
(* The statistics of the server that occtl shows: sec-mod counts the        *)
(* authentications and reports them with its maintenance (sec-mod-auth.c,   *)
(* sec-mod.c), main counts the sessions it closes (main-sec-mod-cmd.c) and  *)
(* answers from both (main-ctl-unix.c).  The counters have a width and are  *)
(* reset when they overflow, and after stats-reset-time.                    *)
(***************************************************************************)
EXTENDS Integers, Sequences

CONSTANTS
  CountMod,    \* the size of a counter
  AuthSecs,    \* durations of an authentication
  SessionMins, \* durations of a session
  SessionKb,   \* kilobytes of a session
  StatMtus,    \* MTUs of a session
  MaxStatSteps \* bound: events

VARIABLES
  ssSec,   \* sec-mod: total_authentications, avg, max, auth_failures
  ssPipe,  \* the report on its way to main
  ssMain,  \* s->stats and what main keeps of the instance
  ssReal,  \* what happened: failures, kilobytes since the reset (history)
  ssSteps

ssvars == <<ssSec, ssPipe, ssMain, ssReal, ssSteps>>

NewSec == [n |-> 0, avg |-> 0, max |-> 0, failures |-> 0]

NewMain ==
  [closed |-> 0, total |-> 0, idle |-> 0, errors |-> 0, kb |-> 0, min_mtu |-> 0, max_mtu |-> 0, avg |-> 0, max |-> 0,
   failures |-> 0, total_failures |-> 0, auth_avg |-> 0, auth_max |-> 0]

NoReport == <<>>

-------------------------------- (* sec-mod *) ------------------------------
update_auth_time_stats(sec, secs) ==
  LET n == (sec.n + 1) % CountMod
  IN IF n = 0 THEN [sec EXCEPT !.n = 0, !.avg = 0, !.max = 0]
     ELSE [sec EXCEPT !.n = n, !.max = IF secs > @ THEN secs ELSE @, !.avg = (@ * (n - 1) + secs) \div n]

\* an authentication ends: handle_sec_auth_res
AuthEnds(secs, failed) ==
  /\ ssSteps < MaxStatSteps
  /\ ssSec' = IF failed THEN [ssSec EXCEPT !.failures = @ + 1] ELSE update_auth_time_stats(ssSec, secs)
  /\ ssReal' = IF failed THEN [ssReal EXCEPT !.failures = @ + 1] ELSE ssReal
  /\ ssSteps' = ssSteps + 1
  /\ UNCHANGED <<ssPipe, ssMain>>

\* Mutant: the failures are reported again the next time.
FailuresKept(sec) == sec

\* "we only report the number of failures since last call"
Reported(sec) == [sec EXCEPT !.failures = 0]

\* send_stats_to_main; "over" is a stats-reset-time that has passed
SendStats(over) ==
  /\ ssPipe = NoReport
  /\ LET sec == IF over THEN [ssSec EXCEPT !.failures = 0, !.avg = 0, !.max = 0] ELSE ssSec
     IN /\ ssPipe' = <<sec.failures, sec.avg, sec.max>>
        /\ ssSec' = Reported(sec)
        /\ ssReal' = IF over THEN [ssReal EXCEPT !.forgotten = @ + ssSec.failures] ELSE ssReal
  /\ UNCHANGED <<ssMain, ssSteps>>

--------------------------------- (* main *) --------------------------------
update_auth_failures(m, f) ==
  IF (m.failures + f) % CountMod < m.failures THEN [m EXCEPT !.failures = 0]
  ELSE [m EXCEPT !.failures = @ + f, !.total_failures = @ + f]

\* handle_sec_mod_commands: CMD_SECM_STATS
StatsArrive ==
  /\ ssPipe # NoReport
  /\ ssMain' = [update_auth_failures(ssMain, ssPipe[1]) EXCEPT !.auth_avg = ssPipe[2], !.auth_max = ssPipe[3]]
  /\ ssReal' = IF (ssMain.failures + ssPipe[1]) % CountMod < ssMain.failures
               THEN [ssReal EXCEPT !.forgotten = @ + ssPipe[1]] ELSE ssReal
  /\ ssPipe' = NoReport
  /\ UNCHANGED <<ssSec, ssSteps>>

\* session_open: sec-mod refused, main counts a failure of its own
SessionRefused ==
  /\ ssSteps < MaxStatSteps
  /\ ssMain' = update_auth_failures(ssMain, 1)
  /\ ssReal' = [ssReal EXCEPT !.failures = @ + 1,
                             !.forgotten = IF (ssMain.failures + 1) % CountMod < ssMain.failures THEN @ + 1 ELSE @]
  /\ ssSteps' = ssSteps + 1
  /\ UNCHANGED <<ssSec, ssPipe>>

\* reset_stats: the totals, the MTUs and the average stay
reset_stats(m) ==
  [m EXCEPT !.closed = 0, !.idle = 0, !.errors = 0, !.failures = 0, !.auth_avg = 0, !.auth_max = 0, !.max = 0, !.kb = 0]

CountReason(m, reason) ==
  CASE reason = "idle" -> [m EXCEPT !.idle = @ + 1]
    [] reason = "error" -> [m EXCEPT !.errors = @ + 1]
    [] OTHER -> m

\* the counters of sessions and of bytes are the ones that overflow
Overflows(m, kb) == m.closed = 0 \/ (m.kb + kb) % CountMod < m.kb

CountMtu(m, mtu) ==
  [m EXCEPT !.min_mtu = IF @ = 0 \/ mtu < @ THEN mtu ELSE @, !.max_mtu = IF @ = 0 \/ mtu > @ THEN mtu ELSE @]

CountTime(m, mins) ==
  IF mins = 0 THEN m
  ELSE [m EXCEPT !.avg = ((m.closed - 1) * @ + mins) \div m.closed, !.max = IF mins > @ THEN mins ELSE @]

\* update_main_stats
update_main_stats(m, reason, kb, mtu, mins) ==
  LET c == [CountReason(m, reason) EXCEPT !.closed = (@ + 1) % CountMod, !.total = @ + 1]
  IN IF Overflows(c, kb) THEN reset_stats(c)
     ELSE CountTime(CountMtu([c EXCEPT !.kb = (@ + kb) % CountMod], mtu), mins)

\* session_close of a user
CloseSession(over, reason, kb, mtu, mins) ==
  /\ ssSteps < MaxStatSteps
  /\ LET m == IF over THEN reset_stats(ssMain) ELSE ssMain
         c == [CountReason(m, reason) EXCEPT !.closed = (@ + 1) % CountMod, !.total = @ + 1]
     IN /\ ssMain' = update_main_stats(m, reason, kb, mtu, mins)
        /\ ssReal' = [ssReal EXCEPT !.kb = IF (IF over THEN 0 ELSE ssReal.kb) + kb >= CountMod \/ c.closed = 0 THEN 0
                                           ELSE (IF over THEN 0 ELSE @) + kb,
                                    !.sessions = @ + 1]
  /\ ssSteps' = ssSteps + 1
  /\ UNCHANGED <<ssSec, ssPipe>>

SsNext ==
  \/ \E s \in AuthSecs, f \in BOOLEAN : AuthEnds(s, f)
  \/ \E o \in BOOLEAN : SendStats(o)
  \/ StatsArrive
  \/ SessionRefused
  \/ \E o \in BOOLEAN, r \in {"idle", "error", "user"}, k \in SessionKb, u \in StatMtus, m \in SessionMins :
       CloseSession(o, r, k, u, m)

SsInit ==
  /\ ssSec = NewSec
  /\ ssPipe = NoReport
  /\ ssMain = NewMain
  /\ ssReal = [failures |-> 0, forgotten |-> 0, kb |-> 0, sessions |-> 0]
  /\ ssSteps = 0

------------------------------- (* properties *) ----------------------------
\* The average time of an authentication is never above the longest, also
\* across an overflow of the count and a reset (update_auth_time_stats).
AverageBelowMax == ssSec.avg <= ssSec.max /\ ssMain.auth_avg <= ssMain.auth_max

\* Every failed authentication is counted once in main's total, is still to be
\* reported, is on its way, or was forgotten by a reset or an overflow.
FailuresCountedOnce ==
  ssReal.failures = ssMain.total_failures + ssReal.forgotten + ssSec.failures
                    + (IF ssPipe = NoReport THEN 0 ELSE ssPipe[1])

\* The kilobytes main shows are those of the sessions since the last reset: an
\* overflow starts from zero and never wraps around (update_main_stats).
KilobytesExact == ssMain.kb = ssReal.kb /\ ssMain.total = ssReal.sessions

\* "we only report the number of failures since last call" (sec-mod.c:689): all
\* of them are, also those before a reset.
FailuresAllReported ==
  ssReal.forgotten = 0

\* The average session time is never above the longest one.
SessionAverageBelowMax == ssMain.avg <= ssMain.max

\* The statistics agree with what happened, through reports and resets of two processes
\* (update_auth_time_stats, send_stats_to_main, reset_stats).
StatsAddUp == AverageBelowMax /\ FailuresCountedOnce /\ KilobytesExact
=============================================================================
