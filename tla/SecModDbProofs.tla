--------------------------- MODULE SecModDbProofs ---------------------------
(***************************************************************************)
(* The helpers and the handlers of sec-mod's database keep its types; used *)
(* by the proofs about SecMod and about Sessions, which share the          *)
(* handlers.                                                               *)
(***************************************************************************)
EXTENDS SecModDb, TLAPS

-----------------------------------------------------------------------------
(* The helpers of the database. *)

\* Whatever a module answers, handle_sec_auth_res yields a PS_AUTH_* status.
LEMMA AuthResType ==
  ASSUME NEW status \in AuthStatus,
         NEW result \in {"ok", "continue", "fail"},
         NEW r \in handle_sec_auth_res(status, result)
  PROVE  r.status \in AuthStatus
<1> DEFINE B == IF status = "INIT" THEN {FALSE} ELSE BOOLEAN
<1>1. \A S, T : r \in [status: S, ban: T] => r.status \in S
  BY Zenon
<1>2. CASE result = "continue"
  <2>1. \/ r = [status |-> "FAILED", ban |-> FALSE]
        \/ r \in [status: {status, "FAILED"}, ban: B]
    BY <1>2, Zenon DEF handle_sec_auth_res
  <2>2. ASSUME r = [status |-> "FAILED", ban |-> FALSE]
        PROVE  r.status = "FAILED"
    BY <2>2, Zenon
  <2>3. r \in [status: {status, "FAILED"}, ban: B]
          => r.status \in {status, "FAILED"}
    BY <1>1, Zenon
  <2> HIDE DEF B
  <2> QED
    BY <2>1, <2>2, <2>3, Zenon DEF AuthStatus
<1>3. CASE result = "ok" /\ status # "FAILED"
  <2>1. r \in [status: {"COMPLETED", "FAILED"}, ban: {FALSE}]
    BY <1>3, Zenon DEF handle_sec_auth_res
  <2>2. r.status \in {"COMPLETED", "FAILED"}
    BY <2>1, <1>1, Zenon
  <2> QED
    BY <2>2 DEF AuthStatus
<1>4. CASE result # "continue" /\ ~(result = "ok" /\ status # "FAILED")
  <2>1. handle_sec_auth_res(status, result)
          = {[status |-> "FAILED", ban |-> TRUE]}
    BY <1>4, Zenon DEF handle_sec_auth_res
  <2>2. r = [status |-> "FAILED", ban |-> TRUE]
    BY <2>1, Zenon
  <2>3. r.status = "FAILED"
    BY <2>2, Zenon
  <2> QED
    BY <2>3 DEF AuthStatus
<1> QED
  BY <1>2, <1>3, <1>4

\* A SID without an entry, and a fresh entry, are entries.
LEMMA NewEntryType ==
  /\ FullTtl \in Nat
  /\ \A how \in {"ABSENT", "GONE", "ENDED"} : NoEntry(how) \in Entry
  /\ \A p \in PID : new_client_entry(p) \in Entry
BY ConstAssumption
   DEF FullTtl, NoEntry, new_client_entry, Entry, Status, AuthStatus, Reason

\* expire_client_entry returns an entry: either the deleted one, or the same
\* status and session with exactly one reference less.
LEMMA ExpireEntry ==
  ASSUME NEW e \in Entry
  PROVE  /\ expire_client_entry(e) \in Entry
         /\ \/ e.in_use <= 1 /\ expire_client_entry(e) = NoEntry("GONE")
            \/ /\ expire_client_entry(e).status = e.status
               /\ expire_client_entry(e).open = e.open
               /\ expire_client_entry(e).in_use
                    = IF e.in_use > 0 THEN e.in_use - 1 ELSE 0
<1> DEFINE n == IF e.in_use > 0 THEN e.in_use - 1 ELSE 0
<1>1. e.in_use \in Nat /\ n \in Nat
  BY DEF Entry
<1>2. CASE n > 0
  <2>1. expire_client_entry(e) = [e EXCEPT !.in_use = n]
    BY <1>2 DEF expire_client_entry
  <2> QED
    BY <2>1, <1>1 DEF Entry
<1>3. CASE ~(n > 0) /\ ~Persistent
             /\ (e.reason = "SERVER" \/ (e.open /\ e.reason = "USER"))
  <2>1. expire_client_entry(e) = NoEntry("GONE")
    BY <1>3 DEF expire_client_entry
  <2> QED
    BY <2>1, <1>1, <1>3, NewEntryType
<1>4. CASE ~(n > 0) /\ ~(~Persistent
             /\ (e.reason = "SERVER" \/ (e.open /\ e.reason = "USER")))
  <2> DEFINE t == IF e.reason # "USER" THEN FullTtl
                  ELSE IF ~Persistent \/ e.ttl <= Slack THEN Slack ELSE e.ttl
  <2>1. expire_client_entry(e)
          = [e EXCEPT !.in_use = 0, !.pid = NoPid, !.ttl = t]
    BY <1>4 DEF expire_client_entry
  <2>2. t \in Nat
    BY NewEntryType, ConstAssumption DEF Entry
  <2>3. n = 0
    BY <1>4, <1>1
  <2> HIDE DEF t
  <2> QED
    BY <2>1, <2>2, <2>3, <1>1 DEF Entry
<1> QED
  BY <1>2, <1>3, <1>4

-----------------------------------------------------------------------------
(* The handlers: each leaves a well-typed database. *)

\* The messages of workers.
LEMMA InitNewTypes ==
  ASSUME DbTypeOK, NEW p \in PID, NEW s \in SID, NEW old \in SUBSET SID, AuthInitNew(p, s, old)
  PROVE  DbTypeOK'
<1>0. PICK start \in {<<"INACTIVE", "fail">>, <<"INIT", "continue">>, <<"INIT", "ok">>} :
        \E r \in handle_sec_auth_res(start[1], start[2]) :
         /\ db' = [t \in SID |-> IF t = s THEN [new_client_entry(p) EXCEPT !.status = r.status]
                                 ELSE IF t \in old THEN NoEntry("GONE") ELSE db[t]]
         /\ banOut' = IF r.ban THEN Score(s) ELSE banOut
  BY Zenon DEF AuthInitNew
<1>1. PICK r \in handle_sec_auth_res(start[1], start[2]) :
         /\ db' = [t \in SID |-> IF t = s THEN [new_client_entry(p) EXCEPT !.status = r.status]
                                 ELSE IF t \in old THEN NoEntry("GONE") ELSE db[t]]
         /\ banOut' = IF r.ban THEN Score(s) ELSE banOut
  BY <1>0, Zenon
<1>2. r.status \in AuthStatus
  BY <1>1, AuthResType DEF AuthStatus
<1>3. [new_client_entry(p) EXCEPT !.status = r.status] \in Entry
  <2>1. new_client_entry(p) \in Entry
    BY NewEntryType
  <2> QED
    BY <1>2, <2>1 DEF Entry, Status
<1>4. db' \in [SID -> Entry] /\ banOut' \in SUBSET SID
  BY <1>1, <1>3, NewEntryType DEF DbTypeOK, Score
<1>5. stops' \in [SID -> Nat] /\ UNCHANGED <<banIn, starts, up>>
  BY DEF AuthInitNew, StopsAfter, DbTypeOK
<1> QED
  BY <1>4, <1>5 DEF DbTypeOK

\* A password, a refused init, and statistics.
LEMMA WorkerTypes ==
  ASSUME DbTypeOK, NEW p \in PID, NEW s \in SID, NEW r \in Reason,
         AuthInitReject(p) \/ AuthCont(s) \/ CliStats(p, s, r)
  PROVE  DbTypeOK'
<1>1. CASE AuthInitReject(p)
  BY <1>1 DEF AuthInitReject, find_client_entry_by_pid, Score, DbTypeOK
<1>2. CASE AuthCont(s)
  <2> DEFINE st == IF db[s].status \in {"INIT", "CONT"} THEN "CONT" ELSE db[s].status
  <2>0. PICK result \in {"ok", "continue", "fail"} : \E q \in handle_sec_auth_res(st, result) :
          /\ db' = [db EXCEPT ![s].status = q.status]
          /\ banOut' = IF q.ban THEN Score(s) ELSE banOut
    BY <1>2, Zenon DEF AuthCont
  <2>1. PICK q \in handle_sec_auth_res(st, result) :
          /\ db' = [db EXCEPT ![s].status = q.status]
          /\ banOut' = IF q.ban THEN Score(s) ELSE banOut
    BY <2>0, Zenon
  <2>2. st \in AuthStatus
    BY <1>2 DEF AuthCont, Live, AuthStatus
  <2> HIDE DEF st
  <2>3. q.status \in Status
    BY <2>1, <2>2, AuthResType DEF Status
  <2>4. db' \in [SID -> Entry] /\ banOut' \in SUBSET SID
    BY <2>1, <2>3 DEF DbTypeOK, Entry, Score
  <2> QED
    BY <1>2, <2>4 DEF AuthCont, DbTypeOK
<1>3. CASE CliStats(p, s, r)
  <2> DEFINE q == IF r = "NONE" THEN db[s].reason ELSE r
  <2>1. db' = [db EXCEPT ![s] = [db[s] EXCEPT !.pid = p, !.reason = q]]
    BY <1>3 DEF CliStats, DbTypeOK
  <2>2. db[s] \in Entry /\ q \in Reason
    BY DEF DbTypeOK, Entry
  <2> HIDE DEF q
  <2>3. db' \in [SID -> Entry]
    BY <2>1, <2>2 DEF DbTypeOK, Entry
  <2> QED
    BY <1>3, <2>3 DEF CliStats, DbTypeOK
<1> QED
  BY <1>1, <1>2, <1>3

\* SESSION_OPEN and SESSION_CLOSE.
LEMMA MainTypes ==
  ASSUME DbTypeOK, NEW s \in SID, NEW byServer \in BOOLEAN,
         OpenDenied(s) \/ OpenNoConfig(s) \/ OpenGranted(s) \/ SessionClose(s, byServer)
  PROVE  DbTypeOK'
<1>1. db[s] \in Entry /\ starts \in [SID -> Nat]
  BY DEF DbTypeOK
<1>2. StartOnce(s) => starts' \in [SID -> Nat]
  <2>1. [starts EXCEPT ![s] = @ + 1] \in [SID -> Nat]
    BY <1>1
  <2> QED
    BY <1>1, <2>1 DEF StartOnce
<1>3. CASE OpenDenied(s)
  BY <1>1, <1>3 DEF OpenDenied, DbTypeOK, Entry, Status, AuthStatus
<1>4. CASE OpenNoConfig(s)
  BY <1>1, <1>2, <1>4 DEF OpenNoConfig, DbTypeOK, Entry
<1>5. CASE OpenGranted(s)
  <2>1. db[s].in_use + 1 \in Nat /\ "NONE" \in Reason /\ FullTtl \in Nat
    BY <1>1, NewEntryType DEF Entry, Reason
  <2>2. [db[s] EXCEPT !.open = TRUE, !.reason = "NONE", !.ttl = FullTtl, !.in_use = @ + 1] \in Entry
    BY <1>1, <2>1 DEF Entry
  <2>3. db' = [db EXCEPT ![s] = [db[s] EXCEPT !.open = TRUE, !.reason = "NONE",
                                              !.ttl = FullTtl, !.in_use = @ + 1]]
    BY <1>5 DEF OpenGranted, DbTypeOK
  <2>4. db' \in [SID -> Entry]
    BY <2>2, <2>3 DEF DbTypeOK
  <2> QED
    BY <1>2, <1>5, <2>4 DEF OpenGranted, DbTypeOK
<1>6. CASE SessionClose(s, byServer)
  <2> DEFINE e == IF byServer THEN [db[s] EXCEPT !.reason = "SERVER"] ELSE db[s]
             after == expire_client_entry(e)
  <2>1. e \in Entry
    BY <1>1 DEF Entry, Reason
  <2>2. \/ UNCHANGED <<db, stops>>
        \/ /\ db' = [db EXCEPT ![s] = after]
           /\ stops' = IF after.status = "GONE" THEN StopsAfter({s}) ELSE stops
    BY <1>6, Zenon DEF SessionClose
  <2> HIDE DEF e
  <2>3. after \in Entry
    BY <2>1, ExpireEntry
  <2> HIDE DEF after
  <2>4. db' \in [SID -> Entry] /\ stops' \in [SID -> Nat]
    BY <2>2, <2>3 DEF DbTypeOK, StopsAfter
  <2> QED
    BY <1>6, <2>4 DEF SessionClose, DbTypeOK
<1> QED
  BY <1>3, <1>4, <1>5, <1>6

\* The administrator, bans, the maintenance alarm and time.
LEMMA OwnTypes ==
  ASSUME DbTypeOK, NEW S \in SUBSET SID, NEW s \in SID, NEW banned \in BOOLEAN,
         Terminate(S) \/ BanIpReply(s) \/ MainBanIp(s, banned) \/ Cleanup \/ Tick
  PROVE  DbTypeOK'
<1>1. ASSUME NEW T \in SUBSET SID, NEW how \in {"GONE", "ENDED"}, del_client_entries(T, how)
      PROVE  db' \in [SID -> Entry] /\ stops' \in [SID -> Nat]
  BY <1>1, NewEntryType DEF del_client_entries, StopsAfter, DbTypeOK
<1>2. CASE Terminate(S)
  BY <1>1, <1>2 DEF Terminate, DbTypeOK
<1>3. CASE BanIpReply(s)
  <2>1. db' \in [SID -> Entry]
    BY <1>3 DEF BanIpReply, DbTypeOK, Entry, Status, AuthStatus
  <2> QED
    BY <1>3, <2>1 DEF BanIpReply, DbTypeOK
<1>4. CASE MainBanIp(s, banned)
  BY <1>4 DEF MainBanIp, DbTypeOK
<1>5. CASE Cleanup
  <2>1. {t \in SID : Live(t) /\ Expired(db[t])} \in SUBSET SID
    OBVIOUS
  <2> QED
    BY <1>1, <1>5, <2>1 DEF Cleanup, DbTypeOK
<1>6. CASE Tick
  <2>1. ASSUME NEW t \in SID
        PROVE  [db[t] EXCEPT !.ttl = IF @ > 0 THEN @ - 1 ELSE 0] \in Entry
    <3>1. (IF db[t].ttl > 0 THEN db[t].ttl - 1 ELSE 0) \in Nat /\ db[t] \in Entry
      BY DEF DbTypeOK, Entry
    <3> QED
      BY <3>1 DEF Entry
  <2>2. db' \in [SID -> Entry]
    BY <1>6, <2>1 DEF Tick
  <2> QED
    BY <1>6, <2>2 DEF Tick, DbTypeOK
<1> QED
  BY <1>2, <1>3, <1>4, <1>5, <1>6
=============================================================================
