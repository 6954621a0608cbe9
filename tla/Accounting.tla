----------------------------- MODULE Accounting -----------------------------
(***************************************************************************)
(* The accounting of one logical session: its workers follow each other, or *)
(* overlap when the client roams, and report their byte counts to sec-mod   *)
(* (worker-vpn.c, sec-mod-auth.c); main closes the session of every worker  *)
(* that ended (main-sec-mod-cmd.c); sec-mod sends the RADIUS server a       *)
(* start, interim updates and a stop (acct/radius.c).  sec-mod accepts the  *)
(* workers' connections in the order they were made; main has a socket of   *)
(* its own.  A worker may be killed between two steps.  Bytes in and out    *)
(* are treated alike: one counter stands for both.                          *)
(***************************************************************************)
EXTENDS Integers, Sequences, FiniteSets, SequencesExt

CONSTANTS
  AcWorkers,  \* the workers of the session
  Causes,     \* the reasons a worker ends with
  Word,       \* 2^32, the size of the RADIUS octet counters
  MaxBytes,   \* bound: bytes of one worker
  MaxAcClock  \* bound: the clock

VARIABLES
  acE,       \* sec-mod's client_entry_st
  acW,       \* the workers, and main's proc_st of each
  acQueue,   \* statistics messages that sec-mod has not handled
  acClock,   \* seconds since the entry was created
  acPersist, \* persistent-cookies
  acLog,     \* the RADIUS server: starts, stops, last total and time
  acLate,    \* a message was handled after its worker's session_close (history)
  acOverlap  \* two workers had the session open at once (history)

acvars == <<acE, acW, acQueue, acClock, acPersist, acLog, acLate, acOverlap>>

NewEntry == [st |-> "completed", open |-> FALSE, in_use |-> 0, stats |-> 0, saved |-> 0, reason |-> "none", uptime |-> 0]

\* counted is the last count of this worker that sec-mod took in (history)
IdleWorker == [st |-> "idle", bytes |-> 0, invalidated |-> FALSE, counted |-> 0]

NoRecords == [starts |-> 0, stops |-> 0, last |-> 0, time |-> 0, cause |-> "none", shrunk |-> FALSE, detached |-> 0]

------------------------------ (* acct/radius.c *) --------------------------
\* append_stats: the counters of the protocol are 32 bits wide
append_stats(total) == [octets |-> total % Word, gigawords |-> total \div Word]

\* what the server reads from a record
ReadTotal(r) == r.gigawords * Word + r.octets

\* radius_acct_close_session: the cause of a stop
TerminateCause(reason) ==
  CASE reason = "user" -> "User-Request"
    [] reason = "server" -> "Admin-Reset"
    [] reason = "idle" -> "Idle-Timeout"
    [] reason = "session" -> "Session-Timeout"
    [] reason = "dpd" -> "Lost-Carrier"
    [] reason = "error" -> "User-Error"
    [] OTHER -> "Lost-Service"

\* a record reaches the server; "shrunk" notes a total below an earlier one
Recorded(log, total) ==
  LET got == ReadTotal(append_stats(total))
  IN [log EXCEPT !.last = got, !.shrunk = @ \/ got < log.last]

\* radius_acct_session_stats; an answer that does not come is only logged
session_stats(log, total, arrives) == IF arrives THEN Recorded(log, total) ELSE log

\* sec_auth_user_deinit, radius_acct_close_session: the saved totals
user_deinit(log, e) ==
  IF e.open
  THEN [Recorded(log, e.saved) EXCEPT !.stops = @ + 1, !.time = e.uptime, !.cause = TerminateCause(e.reason)]
  ELSE log

------------------------------- (* the worker *) ----------------------------
\* tun_bytes_in, tun_bytes_out
Carry(w) ==
  /\ acW[w].st = "up"
  /\ acW[w].bytes < MaxBytes
  /\ acW' = [acW EXCEPT ![w].bytes = @ + 1]
  /\ UNCHANGED <<acE, acQueue, acClock, acPersist, acLog, acLate, acOverlap>>

stats_msg(w, reason) == [w |-> w, bytes |-> acW[w].bytes, reason |-> reason]

\* send_stats_to_secmod of periodic_check: nobody waits (bound: no other report
\* is under way)
PeriodicStats(w) ==
  /\ acW[w].st = "up"
  /\ acQueue = <<>>
  /\ acQueue' = Append(acQueue, stats_msg(w, "none"))
  /\ UNCHANGED <<acE, acW, acClock, acPersist, acLog, acLate, acOverlap>>

\* exit_worker_reason: the worker waits until sec-mod has closed the connection
WorkerEnds(w, reason) ==
  /\ acW[w].st = "up"
  /\ acQueue' = Append(acQueue, stats_msg(w, reason))
  /\ acW' = [acW EXCEPT ![w].st = "waiting"]
  /\ UNCHANGED <<acE, acClock, acPersist, acLog, acLate, acOverlap>>

\* the worker is killed, before or while it reports
WorkerKilled(w) ==
  /\ acW[w].st \in {"up", "waiting"}
  /\ acW' = [acW EXCEPT ![w].st = "ended"]
  /\ UNCHANGED <<acE, acQueue, acClock, acPersist, acLog, acLate, acOverlap>>

-------------------------------- (* sec-mod *) ------------------------------
\* "stats only increase"
OnlyIncrease(have, got) == IF got > have THEN got ELSE have

SendsStart(e) == ~e.open

\* handle_secm_session_open_cmd: the first open sends the start, and a server
\* that does not answer denies the session
SessionOpen(w, answers) ==
  /\ acE.st = "completed"
  /\ acW[w].st = "idle"
  /\ LET start == SendsStart(acE)
     IN IF start /\ ~answers
        THEN /\ acE' = [acE EXCEPT !.st = "failed"]
             /\ acW' = [acW EXCEPT ![w].st = "closed"]
             /\ UNCHANGED <<acLog, acOverlap>>
        ELSE /\ acE' = [acE EXCEPT !.open = TRUE, !.reason = "none", !.in_use = @ + 1]
             /\ acW' = [v \in AcWorkers |->
                          IF v = w THEN [acW[v] EXCEPT !.st = "up"]
                          ELSE IF acW[v].st \in {"up", "waiting"} THEN [acW[v] EXCEPT !.invalidated = TRUE]
                          ELSE acW[v]]
             /\ acLog' = IF start THEN [acLog EXCEPT !.starts = @ + 1] ELSE acLog
             /\ acOverlap' = (acOverlap \/ acE.in_use > 0)
  /\ UNCHANGED <<acQueue, acClock, acPersist, acLate>>

\* handle_sec_auth_stats_cmd
StatsCmd(arrives) ==
  /\ acQueue # <<>>
  /\ LET m == Head(acQueue)
         n == OnlyIncrease(acE.stats, m.bytes)
     IN /\ acW' = [acW EXCEPT ![m.w].st = IF @ = "waiting" /\ m.reason # "none" THEN "ended" ELSE @,
                              ![m.w].counted = IF acE.st = "completed" /\ ~(@ > m.bytes) THEN m.bytes ELSE @]
        /\ IF acE.st = "completed"
           THEN /\ acE' = [acE EXCEPT !.stats = n, !.uptime = acClock,
                                      !.reason = IF m.reason = "none" THEN @ ELSE m.reason]
                /\ acLog' = session_stats(acLog, n + acE.saved, arrives)
                /\ acLate' = (acLate \/ acW[m.w].st = "closed")
           ELSE UNCHANGED <<acE, acLog, acLate>>
  /\ acQueue' = Tail(acQueue)
  /\ UNCHANGED <<acClock, acPersist, acOverlap>>

\* Mutant: what was reported stays in the running counter.
SavedTwice(e) == [e EXCEPT !.saved = @ + e.stats]

\* "save total stats"
Saved(e) == [e EXCEPT !.saved = @ + e.stats, !.stats = 0]

\* expire_client_entry: a session that is over goes at once
GoesAtOnce(e) == e.in_use = 0 /\ ~acPersist /\ e.reason \in {"server", "session", "user"}

\* session_close of main for a worker that ended, and
\* handle_secm_session_close_cmd; main's own counts are zero until then
SessionClose(w) ==
  /\ acW[w].st = "ended"
  /\ acW' = [acW EXCEPT ![w].st = "closed"]
  /\ IF acE.st = "completed"
     THEN LET e == [Saved(acE) EXCEPT !.uptime = acClock, !.in_use = IF @ > 0 THEN @ - 1 ELSE 0,
                                      !.reason = IF acW[w].invalidated THEN "server" ELSE @]
              log == [acLog EXCEPT !.detached = acClock]
          IN IF GoesAtOnce(e)
             THEN acE' = [e EXCEPT !.st = "gone"] /\ acLog' = user_deinit(log, e)
             ELSE acE' = e /\ acLog' = log
     ELSE UNCHANGED <<acE, acLog>>
  /\ UNCHANGED <<acQueue, acClock, acPersist, acLate, acOverlap>>

\* cleanup_client_entries: the entry expired
CleanupEntry ==
  /\ acE.st \in {"completed", "failed"}
  /\ acE.in_use = 0
  /\ acE' = [acE EXCEPT !.st = "gone"]
  /\ acLog' = user_deinit(acLog, acE)
  /\ UNCHANGED <<acW, acQueue, acClock, acPersist, acLate, acOverlap>>

\* the time of the stop that a shutdown sends
FinalTime(e) == IF e.in_use # 0 THEN [e EXCEPT !.uptime = acClock] ELSE e

\* sec_mod_client_db_deinit, radius_acct_send_shutdown
ShutdownDb ==
  /\ acE.st \in {"completed", "failed"}
  /\ acE' = [acE EXCEPT !.st = "gone"]
  /\ acLog' = user_deinit(acLog, IF acE.open THEN Saved(FinalTime(acE)) ELSE acE)
  /\ UNCHANGED <<acW, acQueue, acClock, acPersist, acLate, acOverlap>>

AcTick ==
  /\ acClock < MaxAcClock
  /\ acE.st # "gone"
  /\ acClock' = acClock + 1
  /\ UNCHANGED <<acE, acW, acQueue, acPersist, acLog, acLate, acOverlap>>

AcNext ==
  \/ \E w \in AcWorkers : Carry(w) \/ PeriodicStats(w) \/ WorkerKilled(w) \/ SessionClose(w)
  \/ \E w \in AcWorkers, r \in Causes : WorkerEnds(w, r)
  \/ \E w \in AcWorkers, b \in BOOLEAN : SessionOpen(w, b)
  \/ \E b \in BOOLEAN : StatsCmd(b)
  \/ CleanupEntry
  \/ ShutdownDb
  \/ AcTick

AcInit ==
  /\ acE = NewEntry
  /\ acW = [w \in AcWorkers |-> IdleWorker]
  /\ acQueue = <<>>
  /\ acClock = 0
  /\ acPersist \in BOOLEAN
  /\ acLog = NoRecords
  /\ acLate = FALSE
  /\ acOverlap = FALSE

------------------------------- (* properties *) ----------------------------
\* The bytes sec-mod holds for a session are the sum of what its workers
\* reported: nothing is counted twice and nothing is dropped when a worker
\* ends (sec-mod-auth.c:668-697, 749-755).  Overlapping workers and a report
\* handled after its worker's session was closed are excepted.
BytesAddUp ==
  acE.st = "completed" /\ ~acLate /\ ~acOverlap =>
    acE.saved + acE.stats = FoldFunctionOnSet(+, 0, [w \in AcWorkers |-> acW[w].counted], AcWorkers)

\* The totals the RADIUS server sees never shrink, from one worker to the next
\* and up to the stop, whatever records were lost.
TotalsNeverShrink == ~acLate => ~acLog.shrunk

\* A session that was started is stopped once, when its entry goes, and a
\* session that was not started is never stopped (REQ-AUTH-ACCT-003, -009).
OneStartOneStop ==
  /\ acLog.starts = (IF acE.open THEN 1 ELSE 0)
  /\ acLog.stops = (IF acE.st = "gone" /\ acE.open THEN 1 ELSE 0)

\* The time of a stop is the time of the last disconnect: a session that lingers
\* without a worker does not grow older (REQ-AUTH-ACCT-007).
StopTimeIsDisconnect ==
  acE.st = "gone" /\ acE.open /\ acE.in_use = 0 /\ ~acLate => acLog.time = acLog.detached

\* The accounting server gets one Start and one Stop of a session, and the bytes that its
\* workers carried, over reconnections and every way the session can end (sec-mod-auth.c:580-780).
RecordsExact == BytesAddUp /\ TotalsNeverShrink /\ OneStartOneStop /\ StopTimeIsDisconnect
=============================================================================
