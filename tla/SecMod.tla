------------------------------- MODULE SecMod -------------------------------
(***************************************************************************)
(* What sec-mod promises to main, whatever its peers do.  Workers may send *)
(* authentication messages and statistics at any time and for any SID, and *)
(* pids are reused freely.  Main is reduced to held[s], the number of its  *)
(* worker slots that have a session of SID s (active_sid set) and that     *)
(* will send SESSION_CLOSE for it when they go away.                       *)
(***************************************************************************)
EXTENDS SecModDb

CONSTANT MainMayRefuse   \* main may drop a session sec-mod has granted

ASSUME RefuseAssumption == MainMayRefuse \in BOOLEAN

VARIABLE held

vars == <<db, banOut, banIn, starts, stops, up, held>>

-----------------------------------------------------------------------------
WorkerStep ==
  /\ \/ \E p \in PID, s \in SID, old \in SUBSET SID : AuthInitNew(p, s, old)
     \/ \E p \in PID : AuthInitReject(p)
     \/ \E s \in SID : AuthCont(s)
     \/ \E p \in PID, s \in SID, r \in Reason : CliStats(p, s, r)
  /\ UNCHANGED held

\* session_open in main: a grant becomes a session of main unless one of the
\* checks after the reply (deny-roaming, missing fields, another user's
\* session) fails; then active_sid stays 0 and no close will follow.
Open(s) ==
  \/ (OpenDenied(s) \/ OpenNoConfig(s) \/ OpenDesync(s)) /\ UNCHANGED held
  \/ OpenGranted(s) /\ held' = [held EXCEPT ![s] = @ + 1]
  \/ MainMayRefuse /\ OpenGranted(s) /\ UNCHANGED held

\* session_close in main, from remove_proc: once for every session it holds.
Close(s) ==
  /\ held[s] > 0
  /\ (\E byServer \in BOOLEAN : SessionClose(s, byServer)) \/ CloseDesync(s)
  /\ held' = [held EXCEPT ![s] = @ - 1]

AsyncStep ==
  /\ \E s \in SID : BanIpReply(s) \/ \E banned \in BOOLEAN : MainBanIp(s, banned)
  /\ UNCHANGED held

Init == DbInit /\ held = [s \in SID |-> 0]

Next ==
  \/ WorkerStep
  \/ \E s \in SID : Open(s) \/ Close(s)
  \/ \E S \in SUBSET SID : Terminate(S) /\ UNCHANGED held
  \/ AsyncStep
  \/ (Cleanup \/ Shutdown \/ Tick) /\ UNCHANGED held

Spec == Init /\ [][Next]_vars

\* The clock runs and the maintenance alarm fires; nothing is assumed of
\* workers, of main or of clients.
Fairness == WF_vars(Tick /\ UNCHANGED held) /\ WF_vars(Cleanup /\ UNCHANGED held)

FairSpec == Spec /\ Fairness

-----------------------------------------------------------------------------
(* Properties *)

\* Types of the database, the message sets and the accounting counters.
TypeOK == DbTypeOK /\ held \in [SID -> Nat]

\* e->in_use never undercounts: an entry carries a reference for every session
\* of main that will still close it (sec-mod-auth.c:626 against
\* sec-mod-db.c:250), across bans, failed re-opens and terminations.
InUseCoversHeld == \A s \in SID : Live(s) => db[s].in_use >= held[s]

\* No handler but an administrator's termination removes an entry that a
\* session of main still refers to: not the maintenance cleanup, not the close
\* of another session of the SID, not the replacement of a failed entry in
\* handle_sec_auth_init (sec-mod-auth.c:1045).
HeldEntrySurvives ==
  [][ \A s \in SID :
        Live(s) /\ ~Live(s)' /\ held'[s] > 0
          => ~up' \/ db'[s].status = "ENDED" ]_vars

\* Accounting records pair up: at most one Start and one Stop per SID, and the
\* Stop is outstanding exactly while the entry has session_is_open set, through
\* roaming re-opens, refusals and every way an entry can go (sec-mod-auth.c:548
\* and 1169, sec-mod-db.c:214).
AcctPaired ==
  HasAcct => \A s \in SID :
    /\ stops[s] <= starts[s] /\ starts[s] <= 1
    /\ starts[s] > stops[s] <=> Live(s) /\ db[s].open

\* Failure is final: an entry that was refused, banned or found expired is
\* never authenticated again, even when the ban arrives while a password is
\* being checked (sec-mod-auth.c:403).
FailedIsFinal ==
  [][ \A s \in SID : db[s].status = "FAILED" =>
        db'[s].status \in {"FAILED", "GONE", "ENDED"} ]_vars

\* References are exact when workers follow the protocol, bans are off and main
\* never refuses a granted session: then in_use is the number of sessions.
InUseExact == up => \A s \in SID : Live(s) => db[s].in_use = held[s]

\* A cookie nobody uses dies: an entry without a session is in the end deleted,
\* or opened again (doc/sample.config:480 "That cookie will be invalidated if
\* not used within this timeout value").
UnusedCookieExpires ==
  \A s \in SID : Live(s) /\ held[s] = 0 ~> ~Live(s) \/ held[s] > 0 \/ ~up
=============================================================================
