---------------------------- MODULE SecModProofs ----------------------------
(***************************************************************************)
(* Proofs about SecMod for every set of SIDs and pids, every timeout and   *)
(* every setting of the configuration constants.                           *)
(***************************************************************************)
EXTENDS SecMod, SecModDbProofs, TLAPS

-----------------------------------------------------------------------------
(* The inductive invariant.  InUseCoversHeld alone is not inductive: a SID  *)
(* that is issued must not be held already.  AcctPaired alone is not: an    *)
(* entry whose session was never opened must not have sent a Start before.  *)

RefOf(e, h) ==
  /\ e.status \in AuthStatus => e.in_use >= h
  /\ e.status = "ABSENT" => h = 0

AcctOf(e, a, b) ==
  /\ e.status = "ABSENT" => a = 0 /\ b = 0
  /\ e.status \in {"GONE", "ENDED"} => a = b /\ a <= 1
  /\ e.status \in AuthStatus => b = 0 /\ a = IF e.open THEN 1 ELSE 0

RefInv == \A s \in SID : RefOf(db[s], held[s])
AcctInv == HasAcct => \A s \in SID : AcctOf(db[s], starts[s], stops[s])

\* Deleting a set of entries keeps the types, and what is deleted has sent as
\* many Stops as Starts.
LEMMA Deletion ==
  ASSUME TypeOK, AcctInv, NEW S \in SUBSET SID, \A s \in S : Live(s)
  PROVE  /\ StopsAfter(S) \in [SID -> Nat]
         /\ \A s \in SID \ S : StopsAfter(S)[s] = stops[s]
         /\ HasAcct => \A s \in S, how \in {"GONE", "ENDED"} :
              AcctOf(NoEntry(how), starts[s], StopsAfter(S)[s])
<1>1. \A s \in SID : StopsAfter(S)[s] = IF s \in S /\ HasAcct /\ db[s].open
                                       THEN stops[s] + 1 ELSE stops[s]
  BY DEF StopsAfter
<1>2. StopsAfter(S) \in [SID -> Nat]
  BY DEF StopsAfter, TypeOK, DbTypeOK
<1>3. ASSUME HasAcct, NEW s \in S, NEW how \in {"GONE", "ENDED"}
      PROVE  AcctOf(NoEntry(how), starts[s], StopsAfter(S)[s])
  <2>1. stops[s] = 0 /\ starts[s] = IF db[s].open THEN 1 ELSE 0
    BY <1>3 DEF AcctInv, AcctOf, Live
  <2> QED
    BY <2>1, <1>1, <1>3 DEF AcctOf, NoEntry, AuthStatus
<1> QED
  BY <1>1, <1>2, <1>3

\* A step that only rewrites the status of an entry to a PS_AUTH_* value
\* preserves the invariant.
LEMMA StatusStep ==
  ASSUME TypeOK, RefInv, AcctInv,
         NEW s \in SID, Live(s), NEW st \in AuthStatus,
         db' = [db EXCEPT ![s].status = st],
         UNCHANGED <<held, starts, stops>>
  PROVE  db' \in [SID -> Entry] /\ RefInv' /\ AcctInv'
<1>1. db[s] \in Entry
  BY DEF TypeOK, DbTypeOK
<1>2. [db[s] EXCEPT !.status = st] \in Entry
  BY <1>1 DEF Entry, Status
<1>3. db' \in [SID -> Entry]
  BY <1>2 DEF TypeOK, DbTypeOK
<1>4. \A t \in SID : t # s => db'[t] = db[t]
  BY DEF TypeOK, DbTypeOK
<1>5. /\ db'[s].status = st /\ db'[s].in_use = db[s].in_use
      /\ db'[s].open = db[s].open
  BY <1>1 DEF TypeOK, DbTypeOK, Entry
<1>6. RefInv'
  BY <1>4, <1>5 DEF RefInv, RefOf, Live, AuthStatus
<1>7. AcctInv'
  BY <1>4, <1>5 DEF AcctInv, AcctOf, Live, AuthStatus
<1> QED
  BY <1>3, <1>6, <1>7

\* The messages in flight keep their type.
LEMMA ScoreType ==
  ASSUME TypeOK, NEW s \in SID
  PROVE  Score(s) \in SUBSET SID
BY DEF Score, TypeOK, DbTypeOK

-----------------------------------------------------------------------------
(* One lemma per group of actions: the invariant is preserved. *)

IInv == TypeOK /\ RefInv /\ AcctInv

\* handle_sec_auth_init with a new entry, replacing a failed one or not.
LEMMA AuthInitNewInv ==
  ASSUME IInv, NEW p \in PID, NEW s \in SID, NEW old \in SUBSET SID,
         AuthInitNew(p, s, old), UNCHANGED held
  PROVE  IInv'
<1>1. PICK start \in {<<"INACTIVE", "fail">>, <<"INIT", "continue">>,
                      <<"INIT", "ok">>} :
        \E r \in handle_sec_auth_res(start[1], start[2]) :
         /\ db' = [t \in SID |->
                     IF t = s
                     THEN [new_client_entry(p) EXCEPT !.status = r.status]
                     ELSE IF t \in old THEN NoEntry("GONE") ELSE db[t]]
         /\ banOut' = IF r.ban THEN Score(s) ELSE banOut
  BY Zenon DEF AuthInitNew
<1>2. PICK r \in handle_sec_auth_res(start[1], start[2]) :
         /\ db' = [t \in SID |->
                     IF t = s
                     THEN [new_client_entry(p) EXCEPT !.status = r.status]
                     ELSE IF t \in old THEN NoEntry("GONE") ELSE db[t]]
         /\ banOut' = IF r.ban THEN Score(s) ELSE banOut
  BY <1>1, Zenon
<1>3. r.status \in AuthStatus
  BY <1>2, AuthResType DEF AuthStatus
<1>4. \A o \in old : Live(o)
  BY DEF AuthInitNew, find_client_entry_by_pid
<1>5. db[s].status = "ABSENT" /\ s \notin old
  BY <1>4 DEF AuthInitNew, Live, AuthStatus
<1> DEFINE e == [new_client_entry(p) EXCEPT !.status = r.status]
<1>6. /\ e \in Entry /\ e.status = r.status /\ e.in_use = 0 /\ e.open = FALSE
  <2>1. new_client_entry(p) \in Entry
    BY NewEntryType
  <2> QED
    BY <2>1, <1>3 DEF Entry, Status, new_client_entry
<1>7. \A t \in SID : db'[t] = IF t = s THEN e
                             ELSE IF t \in old THEN NoEntry("GONE") ELSE db[t]
  BY <1>2
<1> HIDE DEF e
<1>8. db' \in [SID -> Entry]
  BY <1>2, <1>6, <1>7, NewEntryType DEF IInv, TypeOK, DbTypeOK, e
<1>9. banOut' \in SUBSET SID
  BY <1>2, ScoreType DEF IInv, TypeOK, DbTypeOK
<1>10. stops' = StopsAfter(old) /\ UNCHANGED <<banIn, starts, up, held>>
  BY DEF AuthInitNew
<1>11. TypeOK'
  BY <1>4, <1>8, <1>9, <1>10, Deletion DEF IInv, TypeOK, DbTypeOK
<1>12. RefInv'
  BY <1>3, <1>5, <1>6, <1>7, <1>10 DEF IInv, RefInv, RefOf, NoEntry, AuthStatus
<1>13. AcctInv'
  <2> SUFFICES ASSUME HasAcct, NEW t \in SID
               PROVE  AcctOf(db'[t], starts'[t], stops'[t])
    BY DEF AcctInv
  <2>1. CASE t = s
    BY <2>1, <1>3, <1>4, <1>5, <1>6, <1>7, <1>10, Deletion
       DEF IInv, AcctInv, AcctOf, AuthStatus
  <2>2. CASE t \in old
    BY <2>2, <1>4, <1>5, <1>7, <1>10, Deletion DEF IInv
  <2>3. CASE t # s /\ t \notin old
    BY <2>3, <1>4, <1>7, <1>10, Deletion DEF IInv, AcctInv
  <2> QED
    BY <2>1, <2>2, <2>3
<1> QED
  BY <1>11, <1>12, <1>13 DEF IInv

\* The other messages of workers: a refused init, a password, statistics.
LEMMA WorkerInv ==
  ASSUME IInv, WorkerStep
  PROVE  IInv'
<1>1. CASE \E p \in PID, s \in SID, old \in SUBSET SID : AuthInitNew(p, s, old)
  BY <1>1, AuthInitNewInv DEF WorkerStep
<1>2. CASE \E p \in PID : AuthInitReject(p)
  <2>1. PICK p \in PID : AuthInitReject(p)
    BY <1>2
  <2>2. banOut' \in SUBSET SID
    BY <2>1, ScoreType DEF AuthInitReject, find_client_entry_by_pid, IInv
  <2>3. UNCHANGED <<db, held, banIn, starts, stops, up>>
    BY <2>1 DEF AuthInitReject, WorkerStep
  <2> QED
    BY <2>2, <2>3 DEF IInv, TypeOK, DbTypeOK, RefInv, AcctInv
<1>3. CASE \E s \in SID : AuthCont(s)
  <2>1. PICK s \in SID : AuthCont(s)
    BY <1>3
  <2> DEFINE st == IF db[s].status \in {"INIT", "CONT"} THEN "CONT"
                   ELSE db[s].status
  <2>2. PICK result \in {"ok", "continue", "fail"} :
          \E r \in handle_sec_auth_res(st, result) :
               /\ db' = [db EXCEPT ![s].status = r.status]
               /\ banOut' = IF r.ban THEN Score(s) ELSE banOut
    BY <2>1, Zenon DEF AuthCont
  <2>3. PICK r \in handle_sec_auth_res(st, result) :
               /\ db' = [db EXCEPT ![s].status = r.status]
               /\ banOut' = IF r.ban THEN Score(s) ELSE banOut
    BY <2>2, Zenon
  <2>4. st \in AuthStatus /\ Live(s)
    BY <2>1 DEF AuthCont, Live, AuthStatus
  <2>5. UNCHANGED <<held, banIn, starts, stops, up>>
    BY <2>1 DEF AuthCont, WorkerStep
  <2> HIDE DEF st
  <2>6. r.status \in AuthStatus
    BY <2>3, <2>4, AuthResType
  <2>7. db' \in [SID -> Entry] /\ RefInv' /\ AcctInv'
    BY <2>3, <2>4, <2>5, <2>6, StatusStep DEF IInv
  <2>8. banOut' \in SUBSET SID
    BY <2>3, ScoreType DEF IInv, TypeOK, DbTypeOK
  <2> QED
    BY <2>5, <2>7, <2>8 DEF IInv, TypeOK, DbTypeOK
<1>4. CASE \E p \in PID, s \in SID, r \in Reason : CliStats(p, s, r)
  <2>1. PICK p \in PID, s \in SID, r \in Reason : CliStats(p, s, r)
    BY <1>4
  <2> DEFINE q == IF r = "NONE" THEN db[s].reason ELSE r
  <2>2. /\ db' = [db EXCEPT ![s] = [db[s] EXCEPT !.pid = p, !.reason = q]]
        /\ UNCHANGED <<held, banOut, banIn, starts, stops, up>>
    BY <2>1 DEF CliStats, WorkerStep, IInv, TypeOK, DbTypeOK
  <2>3. db[s] \in Entry /\ q \in Reason
    BY DEF IInv, TypeOK, DbTypeOK, Entry
  <2> HIDE DEF q
  <2>4. db' \in [SID -> Entry]
    BY <2>2, <2>3 DEF IInv, TypeOK, DbTypeOK, Entry
  <2>5. \A t \in SID : /\ db'[t].status = db[t].status
                       /\ db'[t].in_use = db[t].in_use
                       /\ db'[t].open = db[t].open
    BY <2>2, <2>3 DEF IInv, TypeOK, DbTypeOK, Entry
  <2> QED
    BY <2>2, <2>4, <2>5
       DEF IInv, TypeOK, DbTypeOK, RefInv, RefOf, AcctInv, AcctOf
<1> QED
  BY <1>1, <1>2, <1>3, <1>4 DEF WorkerStep

\* A session_open that gets as far as the accounting Start: the entry stays
\* COMPLETED and is open, and gains at most the references main gains.
LEMMA OpenedInv ==
  ASSUME IInv, NEW s \in SID, MayOpen(s), StartOnce(s),
         NEW e \in Entry, e.status = "COMPLETED", e.open = TRUE,
         db' = [db EXCEPT ![s] = e], up' \in BOOLEAN,
         UNCHANGED <<banOut, banIn, stops>>,
         \/ held' = held /\ e.in_use >= db[s].in_use
         \/ held' = [held EXCEPT ![s] = @ + 1] /\ e.in_use = db[s].in_use + 1
  PROVE  IInv'
<1>1. db[s] \in Entry /\ db[s].status = "COMPLETED" /\ held[s] \in Nat
  BY DEF IInv, TypeOK, DbTypeOK, MayOpen
<1>2. db[s].in_use \in Nat /\ e.in_use \in Nat /\ db[s].in_use >= held[s]
  BY <1>1 DEF Entry, IInv, RefInv, RefOf, AuthStatus
<1>3. \A t \in SID : db'[t] = IF t = s THEN e ELSE db[t]
  BY DEF IInv, TypeOK, DbTypeOK
<1>4. starts \in [SID -> Nat]
  BY DEF IInv, TypeOK, DbTypeOK
<1>5. starts' \in [SID -> Nat] /\ \A t \in SID : t # s => starts'[t] = starts[t]
  <2>1. CASE HasAcct /\ ~db[s].open
    BY <2>1, <1>4 DEF StartOnce
  <2>2. CASE ~(HasAcct /\ ~db[s].open)
    BY <2>2, <1>4 DEF StartOnce
  <2> QED
    BY <2>1, <2>2
<1>6. HasAcct => starts'[s] = 1 /\ stops[s] = 0
  <2> SUFFICES ASSUME HasAcct PROVE starts'[s] = 1 /\ stops[s] = 0
    OBVIOUS
  <2>1. stops[s] = 0 /\ starts[s] = IF db[s].open THEN 1 ELSE 0
    BY <1>1 DEF IInv, AcctInv, AcctOf, AuthStatus
  <2>2. CASE db[s].open
    BY <2>1, <2>2 DEF StartOnce
  <2>3. CASE ~db[s].open
    BY <2>1, <2>3, <1>4 DEF StartOnce
  <2> QED
    BY <2>2, <2>3
<1>7. held' \in [SID -> Nat] /\ \A t \in SID : t # s => held'[t] = held[t]
  BY DEF IInv, TypeOK
<1>8. e.in_use >= held'[s]
  BY <1>1, <1>2 DEF IInv, TypeOK
<1>9. TypeOK'
  BY <1>5, <1>7 DEF IInv, TypeOK, DbTypeOK
<1>10. RefInv'
  BY <1>3, <1>7, <1>8 DEF IInv, RefInv, RefOf
<1>11. AcctInv'
  BY <1>3, <1>5, <1>6 DEF IInv, AcctInv, AcctOf
<1> QED
  BY <1>9, <1>10, <1>11 DEF IInv

\* session_open of main, with every outcome of sec-mod's handler.
LEMMA OpenInv ==
  ASSUME IInv, NEW s \in SID, Open(s)
  PROVE  IInv'
<1>1. db[s] \in Entry /\ held \in [SID -> Nat] /\ up \in BOOLEAN
  BY DEF IInv, TypeOK, DbTypeOK
<1>2. CASE OpenDenied(s) /\ UNCHANGED held
  <2>1. CASE UNCHANGED db
    BY <1>2, <2>1 DEF OpenDenied, IInv, TypeOK, DbTypeOK, RefInv, AcctInv
  <2>2. CASE db[s].status = "COMPLETED" /\ db' = [db EXCEPT ![s].status = "FAILED"]
    <3>1. db' \in [SID -> Entry] /\ RefInv' /\ AcctInv'
      BY <1>2, <2>2, StatusStep DEF OpenDenied, IInv, Live, AuthStatus
    <3> QED
      BY <3>1, <1>2 DEF OpenDenied, IInv, TypeOK, DbTypeOK
  <2> QED
    BY <1>2, <2>1, <2>2 DEF OpenDenied
<1>3. CASE OpenNoConfig(s) /\ UNCHANGED held
  <2> DEFINE e == [db[s] EXCEPT !.open = TRUE]
  <2>1. /\ e \in Entry /\ e.status = "COMPLETED" /\ e.open = TRUE
        /\ e.in_use = db[s].in_use /\ e.in_use \in Nat
    BY <1>1, <1>3 DEF Entry, OpenNoConfig, MayOpen
  <2>2. db' = [db EXCEPT ![s] = e] /\ up' = up
    BY <1>3 DEF OpenNoConfig, IInv, TypeOK, DbTypeOK
  <2> HIDE DEF e
  <2>3. /\ MayOpen(s) /\ StartOnce(s) /\ UNCHANGED <<banOut, banIn, stops>>
        /\ up' \in BOOLEAN
    BY <1>1, <1>3, <2>2 DEF OpenNoConfig
  <2>4. held' = held /\ e.in_use >= db[s].in_use
    BY <1>3, <2>1
  <2> QED
    BY <2>1, <2>2, <2>3, <2>4, OpenedInv
<1>4. CASE OpenDesync(s) /\ UNCHANGED held
  <2> DEFINE e == [db[s] EXCEPT !.open = TRUE]
  <2>1. /\ e \in Entry /\ e.status = "COMPLETED" /\ e.open = TRUE
        /\ e.in_use = db[s].in_use /\ e.in_use \in Nat
    BY <1>1, <1>4 DEF Entry, OpenDesync, MayOpen
  <2>2. db' = [db EXCEPT ![s] = e] /\ up' = FALSE
    BY <1>4 DEF OpenDesync, IInv, TypeOK, DbTypeOK
  <2> HIDE DEF e
  <2>3. /\ MayOpen(s) /\ StartOnce(s) /\ UNCHANGED <<banOut, banIn, stops>>
        /\ up' \in BOOLEAN
    BY <1>1, <1>4, <2>2 DEF OpenDesync
  <2>4. held' = held /\ e.in_use >= db[s].in_use
    BY <1>4, <2>1
  <2> QED
    BY <2>1, <2>2, <2>3, <2>4, OpenedInv
<1>5. CASE OpenGranted(s) /\ (UNCHANGED held \/ held' = [held EXCEPT ![s] = @ + 1])
  <2> DEFINE e == [db[s] EXCEPT !.open = TRUE, !.reason = "NONE",
                                !.ttl = FullTtl, !.in_use = @ + 1]
  <2>1. /\ e \in Entry /\ e.status = "COMPLETED" /\ e.open = TRUE
        /\ e.in_use = db[s].in_use + 1 /\ db[s].in_use \in Nat
    <3>1. db[s].in_use \in Nat /\ db[s].in_use + 1 \in Nat
      BY <1>1 DEF Entry
    <3>2. "NONE" \in Reason /\ FullTtl \in Nat
      BY NewEntryType DEF Reason
    <3>3. db[s].status = "COMPLETED"
      BY <1>5 DEF OpenGranted, MayOpen
    <3> QED
      BY <1>1, <3>1, <3>2, <3>3 DEF Entry
  <2>2. db' = [db EXCEPT ![s] = e] /\ up' = up
    BY <1>5 DEF OpenGranted, IInv, TypeOK, DbTypeOK
  <2> HIDE DEF e
  <2>3. /\ MayOpen(s) /\ StartOnce(s) /\ UNCHANGED <<banOut, banIn, stops>>
        /\ up' \in BOOLEAN
    BY <1>1, <1>5, <2>2 DEF OpenGranted
  <2>4. \/ held' = held /\ e.in_use >= db[s].in_use
        \/ held' = [held EXCEPT ![s] = @ + 1] /\ e.in_use = db[s].in_use + 1
    BY <1>5, <2>1
  <2> QED
    BY <2>1, <2>2, <2>3, <2>4, OpenedInv
<1> QED
  BY <1>2, <1>3, <1>4, <1>5 DEF Open

\* session_close of main: it drops its session, and sec-mod at most one
\* reference.
LEMMA CloseInv ==
  ASSUME IInv, NEW s \in SID, Close(s)
  PROVE  IInv'
<1>1. /\ db[s] \in Entry /\ held \in [SID -> Nat] /\ held[s] > 0
      /\ held' = [held EXCEPT ![s] = @ - 1]
  BY DEF IInv, TypeOK, DbTypeOK, Close
<1>2. /\ held' \in [SID -> Nat] /\ held'[s] = held[s] - 1
      /\ \A t \in SID : t # s => held'[t] = held[t]
  BY <1>1
<1>3. /\ db[s].in_use \in Nat /\ held[s] \in Nat
      /\ db[s].status \in AuthStatus => db[s].in_use >= held[s]
      /\ db[s].status # "ABSENT"
  BY <1>1 DEF Entry, IInv, RefInv, RefOf
<1>4. CASE UNCHANGED <<db, starts, stops, banOut, banIn>> /\ up' \in BOOLEAN
  <2>1. RefInv'
    BY <1>2, <1>3, <1>4 DEF IInv, RefInv, RefOf
  <2> QED
    BY <1>2, <1>4, <2>1 DEF IInv, TypeOK, DbTypeOK, AcctInv
<1>5. CASE CloseDesync(s)
  BY <1>4, <1>5 DEF CloseDesync
<1>6. CASE \E byServer \in BOOLEAN : SessionClose(s, byServer)
  <2>1. PICK byServer \in BOOLEAN : SessionClose(s, byServer)
    BY <1>6
  <2>2. CASE db[s].status # "COMPLETED"
    BY <1>4, <2>1, <2>2 DEF SessionClose, IInv, TypeOK, DbTypeOK
  <2>3. CASE db[s].status = "COMPLETED"
    <3> DEFINE e == IF byServer THEN [db[s] EXCEPT !.reason = "SERVER"] ELSE db[s]
               after == expire_client_entry(e)
    <3>1. /\ e \in Entry /\ e.status = "COMPLETED" /\ e.open = db[s].open
          /\ e.in_use = db[s].in_use
      BY <1>1, <2>3 DEF Entry, Reason
    <3>2. /\ db' = [db EXCEPT ![s] = after]
          /\ stops' = IF after.status = "GONE" THEN StopsAfter({s}) ELSE stops
          /\ UNCHANGED <<banOut, banIn, starts, up>>
      BY <2>1, <2>3, Zenon DEF SessionClose
    <3> HIDE DEF e
    <3>3. /\ after \in Entry
          /\ \/ db[s].in_use <= 1 /\ after = NoEntry("GONE")
             \/ /\ after.status = "COMPLETED" /\ after.open = db[s].open
                /\ after.in_use
                     = IF db[s].in_use > 0 THEN db[s].in_use - 1 ELSE 0
      BY <3>1, ExpireEntry
    <3> HIDE DEF after
    <3>4. \A t \in SID : db'[t] = IF t = s THEN after ELSE db[t]
      BY <3>2 DEF IInv, TypeOK, DbTypeOK
    <3>5. Live(s) /\ \A t \in {s} : Live(t)
      BY <2>3 DEF Live, AuthStatus
    <3>6. CASE after = NoEntry("GONE")
      <4>1. after.status = "GONE" /\ stops' = StopsAfter({s})
        BY <3>2, <3>6 DEF NoEntry
      <4>2. TypeOK'
        BY <1>2, <3>2, <3>3, <3>5, <4>1, Deletion DEF IInv, TypeOK, DbTypeOK
      <4>3. RefInv'
        BY <1>2, <3>4, <4>1 DEF IInv, RefInv, RefOf, AuthStatus
      <4>4. AcctInv'
        <5> SUFFICES ASSUME HasAcct, NEW t \in SID
                     PROVE  AcctOf(db'[t], starts'[t], stops'[t])
          BY DEF AcctInv
        <5>1. CASE t = s
          BY <5>1, <3>2, <3>4, <3>5, <3>6, <4>1, Deletion DEF IInv
        <5>2. CASE t # s
          BY <5>2, <3>2, <3>4, <3>5, <4>1, Deletion DEF IInv, AcctInv
        <5> QED
          BY <5>1, <5>2
      <4> QED
        BY <4>2, <4>3, <4>4 DEF IInv
    <3>7. CASE after # NoEntry("GONE")
      <4>1. /\ after.status = "COMPLETED" /\ after.open = db[s].open
            /\ after.in_use = db[s].in_use - 1 /\ db[s].in_use >= held[s]
        BY <1>1, <1>3, <2>3, <3>3, <3>7 DEF AuthStatus
      <4>2. UNCHANGED stops
        BY <3>2, <4>1
      <4>3. TypeOK'
        BY <1>2, <3>2, <3>3, <4>2 DEF IInv, TypeOK, DbTypeOK
      <4>4. RefInv'
        BY <1>2, <1>3, <3>4, <4>1 DEF IInv, RefInv, RefOf, AuthStatus
      <4>5. AcctInv'
        BY <2>3, <3>2, <3>4, <4>1, <4>2 DEF IInv, AcctInv, AcctOf, AuthStatus
      <4> QED
        BY <4>3, <4>4, <4>5 DEF IInv
    <3> QED
      BY <3>6, <3>7
  <2> QED
    BY <2>2, <2>3
<1> QED
  BY <1>5, <1>6 DEF Close

\* Deleting a set of live entries, by an administrator, by the maintenance
\* cleanup or at exit.
LEMMA DeleteInv ==
  ASSUME IInv, NEW S \in SUBSET SID, \A s \in S : Live(s),
         NEW how \in {"GONE", "ENDED"},
         del_client_entries(S, how), up' \in BOOLEAN,
         UNCHANGED <<banOut, banIn, starts, held>>
  PROVE  IInv'
<1>1. \A t \in SID : db'[t] = IF t \in S THEN NoEntry(how) ELSE db[t]
  BY DEF del_client_entries
<1>2. db' \in [SID -> Entry]
  BY NewEntryType DEF del_client_entries, IInv, TypeOK, DbTypeOK
<1>3. stops' = StopsAfter(S)
  BY DEF del_client_entries
<1>4. TypeOK'
  BY <1>2, <1>3, Deletion DEF IInv, TypeOK, DbTypeOK
<1>5. RefInv'
  BY <1>1 DEF IInv, RefInv, RefOf, NoEntry, AuthStatus
<1>6. AcctInv'
  <2> SUFFICES ASSUME HasAcct, NEW t \in SID
               PROVE  AcctOf(db'[t], starts'[t], stops'[t])
    BY DEF AcctInv
  <2>1. CASE t \in S
    BY <2>1, <1>1, <1>3, Deletion DEF IInv
  <2>2. CASE t \notin S
    BY <2>2, <1>1, <1>3, Deletion DEF IInv, AcctInv
  <2> QED
    BY <2>1, <2>2
<1> QED
  BY <1>4, <1>5, <1>6 DEF IInv

\* Ban messages in both directions.
LEMMA AsyncInv ==
  ASSUME IInv, AsyncStep
  PROVE  IInv'
<1>1. PICK s \in SID : BanIpReply(s) \/ \E banned \in BOOLEAN : MainBanIp(s, banned)
  BY DEF AsyncStep
<1>2. UNCHANGED held
  BY DEF AsyncStep
<1>3. CASE \E banned \in BOOLEAN : MainBanIp(s, banned)
  <2>1. UNCHANGED <<db, starts, stops, up>>
    BY <1>3 DEF MainBanIp
  <2>2. banOut' \in SUBSET SID /\ banIn' \in SUBSET SID
    BY <1>3 DEF MainBanIp, IInv, TypeOK, DbTypeOK
  <2> QED
    BY <1>2, <2>1, <2>2 DEF IInv, TypeOK, DbTypeOK, RefInv, AcctInv
<1>4. CASE BanIpReply(s)
  <2>1. UNCHANGED <<banOut, starts, stops, up>> /\ banIn' \in SUBSET SID
    BY <1>4 DEF BanIpReply, IInv, TypeOK, DbTypeOK
  <2>2. db' \in [SID -> Entry] /\ RefInv' /\ AcctInv'
    <3>1. CASE Live(s)
      BY <1>2, <1>4, <2>1, <3>1, StatusStep DEF BanIpReply, IInv, AuthStatus
    <3>2. CASE ~Live(s)
      BY <1>2, <1>4, <2>1, <3>2
         DEF BanIpReply, IInv, TypeOK, DbTypeOK, RefInv, AcctInv
    <3> QED
      BY <3>1, <3>2
  <2> QED
    BY <1>2, <2>1, <2>2 DEF IInv, TypeOK, DbTypeOK
<1> QED
  BY <1>1, <1>3, <1>4

\* The passing of time.
LEMMA TickInv ==
  ASSUME IInv, Tick, UNCHANGED held
  PROVE  IInv'
<1>1. UNCHANGED <<banOut, banIn, starts, stops, up>>
  BY DEF Tick
<1>2. \A t \in SID : db'[t] = [db[t] EXCEPT !.ttl = IF @ > 0 THEN @ - 1 ELSE 0]
  BY DEF Tick
<1>3. ASSUME NEW t \in SID
      PROVE  /\ db'[t] \in Entry /\ db'[t].status = db[t].status
             /\ db'[t].in_use = db[t].in_use /\ db'[t].open = db[t].open
  <2>1. db[t] \in Entry
    BY DEF IInv, TypeOK, DbTypeOK
  <2>2. (IF db[t].ttl > 0 THEN db[t].ttl - 1 ELSE 0) \in Nat
    BY <2>1 DEF Entry
  <2> QED
    BY <1>2, <2>1, <2>2 DEF Entry
<1>4. db' \in [SID -> Entry]
  BY <1>3 DEF Tick
<1> QED
  BY <1>1, <1>3, <1>4 DEF IInv, TypeOK, DbTypeOK, RefInv, RefOf, AcctInv, AcctOf

\* Every step of sec-mod and its peers preserves the invariant.
LEMMA StepInv ==
  ASSUME IInv, [Next]_vars
  PROVE  IInv'
<1>0. up \in BOOLEAN
  BY DEF IInv, TypeOK, DbTypeOK
<1>1. CASE WorkerStep
  BY <1>1, WorkerInv
<1>2. CASE \E s \in SID : Open(s) \/ Close(s)
  BY <1>2, OpenInv, CloseInv
<1>3. CASE \E S \in SUBSET SID : Terminate(S) /\ UNCHANGED held
  BY <1>0, <1>3, DeleteInv DEF Terminate
<1>4. CASE AsyncStep
  BY <1>4, AsyncInv
<1>5. CASE Cleanup /\ UNCHANGED held
  <2> DEFINE S == {s \in SID : Live(s) /\ Expired(db[s])}
  <2>1. S \in SUBSET SID /\ \A s \in S : Live(s)
    OBVIOUS
  <2>2. del_client_entries(S, "GONE") /\ UNCHANGED <<banOut, banIn, starts, held, up>>
    BY <1>5 DEF Cleanup
  <2> HIDE DEF S
  <2> QED
    BY <1>0, <2>1, <2>2, DeleteInv
<1>6. CASE Shutdown /\ UNCHANGED held
  <2> DEFINE S == {s \in SID : Live(s)}
  <2>1. S \in SUBSET SID /\ \A s \in S : Live(s)
    OBVIOUS
  <2>2. /\ del_client_entries(S, "GONE") /\ UNCHANGED <<banOut, banIn, starts, held>>
        /\ up' \in BOOLEAN
    BY <1>6 DEF Shutdown
  <2> HIDE DEF S
  <2> QED
    BY <2>1, <2>2, DeleteInv
<1>7. CASE Tick /\ UNCHANGED held
  BY <1>7, TickInv
<1>8. CASE UNCHANGED vars
  BY <1>8 DEF vars, IInv, TypeOK, DbTypeOK, RefInv, AcctInv
<1> QED
  BY <1>1, <1>2, <1>3, <1>4, <1>5, <1>6, <1>7, <1>8 DEF Next

\* The empty database satisfies the invariant.
LEMMA InitInv == Init => IInv
<1> SUFFICES ASSUME Init PROVE IInv
  OBVIOUS
<1>1. \A s \in SID : /\ db[s] = NoEntry("ABSENT") /\ held[s] = 0
                     /\ starts[s] = 0 /\ stops[s] = 0
  BY DEF Init, DbInit
<1>2. TypeOK
  BY NewEntryType DEF Init, DbInit, TypeOK, DbTypeOK
<1>3. RefInv /\ AcctInv
  BY <1>1 DEF RefInv, RefOf, AcctInv, AcctOf, NoEntry, AuthStatus
<1> QED
  BY <1>2, <1>3 DEF IInv

\* The inductive invariant holds in every reachable state of the database.
LEMMA Inductive == Spec => []IInv
BY InitInv, StepInv, PTL DEF Spec

-----------------------------------------------------------------------------
(* The theorems. *)

\* Every reachable database is well typed.
THEOREM TypeCorrect == Spec => []TypeOK
<1>1. IInv => TypeOK
  BY DEF IInv
<1> QED
  BY <1>1, Inductive, PTL

\* in_use of an entry is at least the number of sessions main has for it.
THEOREM ReferencesCovered == Spec => []InUseCoversHeld
<1>1. IInv => InUseCoversHeld
  BY DEF IInv, RefInv, RefOf, InUseCoversHeld, Live
<1> QED
  BY <1>1, Inductive, PTL

\* Accounting Start and Stop records pair up for every SID.
THEOREM AccountingPaired == Spec => []AcctPaired
<1>1. IInv => AcctPaired
  <2> SUFFICES ASSUME IInv, HasAcct, NEW s \in SID
               PROVE  /\ stops[s] <= starts[s] /\ starts[s] <= 1
                      /\ starts[s] > stops[s] <=> Live(s) /\ db[s].open
    BY DEF AcctPaired
  <2>1. /\ db[s].status \in Status /\ db[s].open \in BOOLEAN
        /\ starts[s] \in Nat /\ stops[s] \in Nat
    BY DEF IInv, TypeOK, DbTypeOK, Entry
  <2>2. AcctOf(db[s], starts[s], stops[s])
    BY DEF IInv, AcctInv
  <2> QED
    BY <2>1, <2>2 DEF AcctOf, Live, Status, AuthStatus
<1> QED
  BY <1>1, Inductive, PTL

-----------------------------------------------------------------------------
(* What a step may never do. *)

\* What most steps do to an entry: it stays, and FAILED is not left.
Kept(s) ==
  /\ Live(s) => Live(s)'
  /\ db[s].status = "FAILED" => db'[s].status = "FAILED"

\* A step of a worker deletes an entry only if it is FAILED and unreferenced.
LEMMA WorkerKeeps ==
  ASSUME IInv, WorkerStep, NEW t \in SID
  PROVE  Kept(t) \/ (db[t].in_use = 0 /\ db'[t] = NoEntry("GONE"))
<1>1. CASE \E p \in PID, s \in SID, old \in SUBSET SID : AuthInitNew(p, s, old)
  <2>1. PICK p \in PID, s \in SID, old \in SUBSET SID : AuthInitNew(p, s, old)
    BY <1>1
  <2>2. CASE t \in old
    <3>1. db[t].in_use = 0 /\ Live(t) /\ t # s
      BY <2>1, <2>2 DEF AuthInitNew, find_client_entry_by_pid, Live, AuthStatus
    <3>2. db'[t] = NoEntry("GONE")
      BY <2>1, <2>2, <3>1, Zenon DEF AuthInitNew
    <3> QED
      BY <3>1, <3>2
  <2>3. CASE t = s
    BY <2>1, <2>3 DEF AuthInitNew, Kept, Live, AuthStatus
  <2>4. CASE t # s /\ t \notin old
    <3>1. db'[t] = db[t]
      BY <2>1, <2>4, Zenon DEF AuthInitNew
    <3> QED
      BY <3>1 DEF Kept, Live
  <2> QED
    BY <2>2, <2>3, <2>4
<1>2. CASE \E p \in PID : AuthInitReject(p)
  BY <1>2 DEF AuthInitReject, Kept, Live
<1>3. CASE \E s \in SID : AuthCont(s)
  <2>1. PICK s \in SID : AuthCont(s)
    BY <1>3
  <2>2. PICK result \in {"ok", "continue", "fail"} :
          LET prompted == db[s].status \in {"INIT", "CONT"}
          IN /\ prompted \/ result = "fail"
             /\ \E r \in handle_sec_auth_res(
                           IF prompted THEN "CONT" ELSE db[s].status, result) :
                  /\ db' = [db EXCEPT ![s].status = r.status]
                  /\ banOut' = IF r.ban THEN Score(s) ELSE banOut
    BY <2>1, Zenon DEF AuthCont
  <2> DEFINE st == IF db[s].status \in {"INIT", "CONT"} THEN "CONT"
                   ELSE db[s].status
  <2>3. PICK r \in handle_sec_auth_res(st, result) :
          db' = [db EXCEPT ![s].status = r.status]
    BY <2>2, Zenon
  <2>4. st \in AuthStatus /\ (db[s].status = "FAILED" => result = "fail")
    BY <2>1, <2>2 DEF AuthCont, Live, AuthStatus
  <2>5. db[s].status = "FAILED" => r.status = "FAILED"
    <3> SUFFICES ASSUME db[s].status = "FAILED" PROVE r.status = "FAILED"
      OBVIOUS
    <3>1. result = "fail"
      BY <2>4
    <3>2. handle_sec_auth_res(st, result) = {[status |-> "FAILED", ban |-> TRUE]}
      BY <3>1, Zenon DEF handle_sec_auth_res
    <3>3. r = [status |-> "FAILED", ban |-> TRUE]
      BY <2>3, <3>2, Zenon
    <3> QED
      BY <3>3, Zenon
  <2> HIDE DEF st
  <2>6. r.status \in AuthStatus
    BY <2>3, <2>4, AuthResType
  <2>7. db \in [SID -> Entry]
    BY DEF IInv, TypeOK, DbTypeOK
  <2>8. db'[t] = IF t = s THEN [db[s] EXCEPT !.status = r.status] ELSE db[t]
    BY <2>3, <2>7
  <2>9. db'[t].status = IF t = s THEN r.status ELSE db[t].status
    BY <2>7, <2>8 DEF Entry
  <2> QED
    BY <2>5, <2>6, <2>9 DEF Kept, Live
<1>4. CASE \E p \in PID, s \in SID, r \in Reason : CliStats(p, s, r)
  BY <1>4 DEF CliStats, Kept, Live, IInv, TypeOK, DbTypeOK, Entry
<1> QED
  BY <1>1, <1>2, <1>3, <1>4 DEF WorkerStep

\* An open never deletes, and only fails an entry that was COMPLETED.
LEMMA OpenKeeps ==
  ASSUME IInv, NEW s \in SID, Open(s), NEW t \in SID
  PROVE  Kept(t)
<1>1. db \in [SID -> Entry]
  BY DEF IInv, TypeOK, DbTypeOK
<1>2. CASE UNCHANGED db
  BY <1>2 DEF Kept, Live
<1>3. CASE db[s].status = "COMPLETED" /\ db' = [db EXCEPT ![s].status = "FAILED"]
  BY <1>1, <1>3 DEF Kept, Live, AuthStatus, Entry
<1>4. CASE OpenNoConfig(s) \/ OpenDesync(s)
  BY <1>1, <1>4 DEF OpenNoConfig, OpenDesync, Kept, Live, Entry
<1>5. CASE OpenGranted(s)
  BY <1>1, <1>5 DEF OpenGranted, Kept, Live, Entry
<1> QED
  BY <1>2, <1>3, <1>4, <1>5 DEF Open, OpenDenied

\* A close deletes only when it drops the last session main has.
LEMMA CloseKeeps ==
  ASSUME IInv, NEW s \in SID, Close(s), NEW t \in SID
  PROVE  Kept(t) \/ (db'[t] = NoEntry("GONE") /\ ~(held'[t] > 0))
<1>1. /\ db \in [SID -> Entry] /\ held \in [SID -> Nat] /\ held[s] > 0
      /\ held' = [held EXCEPT ![s] = @ - 1]
  BY DEF IInv, TypeOK, DbTypeOK, Close
<1>2. CASE UNCHANGED db
  BY <1>2 DEF Kept, Live
<1>3. CASE \E byServer \in BOOLEAN :
             SessionClose(s, byServer) /\ db[s].status = "COMPLETED"
  <2>1. PICK byServer \in BOOLEAN : SessionClose(s, byServer)
    BY <1>3
  <2> DEFINE e == IF byServer THEN [db[s] EXCEPT !.reason = "SERVER"] ELSE db[s]
             after == expire_client_entry(e)
  <2>2. /\ e \in Entry /\ e.status = "COMPLETED" /\ e.in_use = db[s].in_use
    BY <1>1, <1>3 DEF Entry, Reason
  <2>3. db' = [db EXCEPT ![s] = after]
    BY <1>3, <2>1, Zenon DEF SessionClose
  <2> HIDE DEF e
  <2>4. \/ db[s].in_use <= 1 /\ after = NoEntry("GONE")
        \/ after.status = "COMPLETED"
    BY <2>2, ExpireEntry
  <2> HIDE DEF after
  <2>5. db'[t] = IF t = s THEN after ELSE db[t]
    BY <1>1, <2>3
  <2>6. CASE t = s /\ after = NoEntry("GONE") /\ db[s].in_use <= 1
    <3>1. db[s].in_use >= held[s] /\ db[s].in_use \in Nat /\ held[s] \in Nat
      BY <1>1, <1>3 DEF IInv, RefInv, RefOf, AuthStatus, Entry
    <3> QED
      BY <1>1, <2>5, <2>6, <3>1
  <2>7. CASE t = s /\ after.status = "COMPLETED"
    BY <1>3, <2>5, <2>7 DEF Kept, Live, AuthStatus
  <2>8. CASE t # s
    BY <2>5, <2>8 DEF Kept, Live
  <2> QED
    BY <2>4, <2>6, <2>7, <2>8
<1> QED
  BY <1>2, <1>3 DEF Close, SessionClose, CloseDesync

\* Every other step keeps an entry, or deletes it without a reference, or at an
\* administrator's request, or because sec-mod exits.
LEMMA OwnStepKeeps ==
  ASSUME IInv, NEW t \in SID,
         \/ \E S \in SUBSET SID : Terminate(S) /\ UNCHANGED held
         \/ AsyncStep
         \/ (Cleanup \/ Shutdown \/ Tick) /\ UNCHANGED held
         \/ UNCHANGED vars
  PROVE  \/ Kept(t)
         \/ db'[t] = NoEntry("ENDED")
         \/ /\ db'[t] = NoEntry("GONE")
            /\ (db[t].in_use = 0 /\ held' = held) \/ up' = FALSE
<1>1. db \in [SID -> Entry]
  BY DEF IInv, TypeOK, DbTypeOK
<1>2. CASE UNCHANGED db
  BY <1>2 DEF Kept, Live
<1>3. CASE \E S \in SUBSET SID : Terminate(S) /\ UNCHANGED held
  <2>1. PICK S \in SUBSET SID : Terminate(S)
    BY <1>3
  <2>2. db'[t] = IF t \in S THEN NoEntry("ENDED") ELSE db[t]
    BY <2>1 DEF Terminate, del_client_entries
  <2> QED
    BY <2>1, <2>2 DEF Kept, Live
<1>4. CASE AsyncStep
  <2>1. PICK s \in SID : BanIpReply(s) \/ \E banned \in BOOLEAN : MainBanIp(s, banned)
    BY <1>4 DEF AsyncStep
  <2>2. CASE Live(s) /\ db' = [db EXCEPT ![s].status = "FAILED"]
    BY <1>1, <2>2 DEF Kept, Live, AuthStatus, Entry
  <2> QED
    BY <1>2, <2>1, <2>2 DEF BanIpReply, MainBanIp
<1>5. CASE Cleanup /\ UNCHANGED held
  <2>1. db'[t] = IF Live(t) /\ Expired(db[t]) THEN NoEntry("GONE") ELSE db[t]
    BY <1>5 DEF Cleanup, del_client_entries
  <2> QED
    BY <1>5, <2>1 DEF Kept, Live, Expired
<1>6. CASE Shutdown /\ UNCHANGED held
  <2>1. db'[t] = (IF Live(t) THEN NoEntry("GONE") ELSE db[t]) /\ up' = FALSE
    BY <1>6 DEF Shutdown, del_client_entries
  <2> QED
    BY <2>1 DEF Kept, Live
<1>7. CASE Tick /\ UNCHANGED held
  <2>1. db'[t] = [db[t] EXCEPT !.ttl = IF @ > 0 THEN @ - 1 ELSE 0]
    BY <1>7 DEF Tick
  <2>2. db'[t].status = db[t].status
    BY <1>1, <2>1 DEF Entry
  <2> QED
    BY <2>2 DEF Kept, Live
<1>8. CASE UNCHANGED vars
  BY <1>2, <1>8 DEF vars
<1> QED
  BY <1>3, <1>4, <1>5, <1>6, <1>7, <1>8

\* Only an administrator, or the end of sec-mod, takes an entry away from a
\* session of main.
THEOREM HeldSurvives == Spec => HeldEntrySurvives
<1> DEFINE Safe ==
      \A s \in SID :
        Live(s) /\ ~Live(s)' /\ held'[s] > 0
          => ~up' \/ db'[s].status = "ENDED"
<1>1. IInv /\ [Next]_vars => Safe
  <2> SUFFICES ASSUME IInv, [Next]_vars, NEW t \in SID,
                      Live(t), ~Live(t)', held'[t] > 0
               PROVE  ~up' \/ db'[t].status = "ENDED"
    OBVIOUS
  <2>1. db[t].in_use \in Nat /\ held[t] \in Nat /\ db[t].in_use >= held[t]
    BY DEF IInv, TypeOK, DbTypeOK, Entry, RefInv, RefOf, Live
  <2>2. CASE WorkerStep
    <3>1. held' = held
      BY <2>2 DEF WorkerStep
    <3> QED
      BY <2>1, <2>2, <3>1, WorkerKeeps DEF Kept
  <2>3. CASE \E s \in SID : Open(s) \/ Close(s)
    BY <2>3, OpenKeeps, CloseKeeps DEF Kept
  <2>4. CASE \/ \E S \in SUBSET SID : Terminate(S) /\ UNCHANGED held
             \/ AsyncStep
             \/ (Cleanup \/ Shutdown \/ Tick) /\ UNCHANGED held
             \/ UNCHANGED vars
    <3>0. ~Kept(t) /\ NoEntry("ENDED").status = "ENDED"
      BY DEF Kept, NoEntry
    <3>1. \/ db[t].in_use = 0 /\ held' = held
          \/ up' = FALSE
          \/ db'[t].status = "ENDED"
      BY <2>4, <3>0, OwnStepKeeps
    <3> QED
      BY <2>1, <3>1
  <2> QED
    BY <2>2, <2>3, <2>4 DEF Next
<1>2. Spec => [][Safe]_vars
  BY <1>1, Inductive, PTL DEF Spec
<1> QED
  BY <1>2 DEF HeldEntrySurvives

\* FAILED is left only by deletion.
THEOREM FailureIsFinal == Spec => FailedIsFinal
<1> DEFINE Final ==
      \A s \in SID : db[s].status = "FAILED" => db'[s].status \in {"FAILED", "GONE", "ENDED"}
<1>1. IInv /\ [Next]_vars => Final
  <2> SUFFICES ASSUME IInv, [Next]_vars, NEW t \in SID, db[t].status = "FAILED"
               PROVE  db'[t].status \in {"FAILED", "GONE", "ENDED"}
    OBVIOUS
  <2>1. Kept(t) \/ db'[t] = NoEntry("GONE") \/ db'[t] = NoEntry("ENDED")
    <3>1. CASE WorkerStep
      BY <3>1, WorkerKeeps
    <3>2. CASE \E s \in SID : Open(s) \/ Close(s)
      BY <3>2, OpenKeeps, CloseKeeps
    <3>3. CASE \/ \E S \in SUBSET SID : Terminate(S) /\ UNCHANGED held
               \/ AsyncStep
               \/ (Cleanup \/ Shutdown \/ Tick) /\ UNCHANGED held
               \/ UNCHANGED vars
      BY <3>3, OwnStepKeeps
    <3> QED
      BY <3>1, <3>2, <3>3 DEF Next
  <2> QED
    BY <2>1 DEF Kept, NoEntry
<1>2. Spec => [][Final]_vars
  BY <1>1, Inductive, PTL DEF Spec
<1> QED
  BY <1>2 DEF FailedIsFinal

-----------------------------------------------------------------------------
(* Exact references, for workers that follow the protocol, without bans and *)
(* with a main that keeps every session it is granted.  in_use = held is    *)
(* not inductive: a close is ignored unless the entry is COMPLETED, so an   *)
(* entry in use must stay COMPLETED, which an open would end if the entry   *)
(* were not open yet, and a ban at any time.                                *)

ExactOf(e, h) ==
  e.status \in AuthStatus =>
    /\ e.in_use = h
    /\ h > 0 => e.status = "COMPLETED" /\ e.open

ExactInv == banOut = {} /\ banIn = {} /\ (up => \A s \in SID : ExactOf(db[s], held[s]))

\* Nothing but the status of a live entry without references changes.
LEMMA ExactStatus ==
  ASSUME IInv, ExactInv, up, NEW s \in SID, Live(s), held[s] = 0, NEW st \in AuthStatus,
         db' = [db EXCEPT ![s].status = st], held' = held, NEW t \in SID
  PROVE  ExactOf(db'[t], held'[t])
<1>1. db \in [SID -> Entry] /\ held[t] \in Nat
  BY DEF IInv, TypeOK, DbTypeOK
<1>2. CASE t = s
  <2>1. db'[s].in_use = db[s].in_use
    BY <1>1 DEF Entry
  <2> QED
    BY <1>2, <2>1 DEF ExactInv, ExactOf, Live
<1>3. CASE t # s
  BY <1>1, <1>3 DEF ExactInv
<1> QED
  BY <1>2, <1>3

\* The messages of workers, when they send a password only where one is asked for.
LEMMA ExactWorker ==
  ASSUME StrictWorkers, ~BanEnabled, IInv, ExactInv, WorkerStep
  PROVE  ExactInv'
<1>0. held' = held /\ db \in [SID -> Entry] /\ held \in [SID -> Nat]
  BY DEF WorkerStep, IInv, TypeOK, DbTypeOK
<1>1. \A s : Score(s) = {}
  BY DEF ExactInv, Score
<1>2. CASE \E p \in PID, s \in SID, old \in SUBSET SID : AuthInitNew(p, s, old)
  <2>1. PICK p \in PID, s \in SID, old \in SUBSET SID : AuthInitNew(p, s, old)
    BY <1>2
  <2>2. PICK start \in {<<"INACTIVE", "fail">>, <<"INIT", "continue">>, <<"INIT", "ok">>} :
          \E r \in handle_sec_auth_res(start[1], start[2]) :
            /\ db' = [t \in SID |-> IF t = s THEN [new_client_entry(p) EXCEPT !.status = r.status]
                                    ELSE IF t \in old THEN NoEntry("GONE") ELSE db[t]]
            /\ banOut' = IF r.ban THEN Score(s) ELSE banOut
    BY <2>1, Zenon DEF AuthInitNew
  <2>3. PICK r \in handle_sec_auth_res(start[1], start[2]) :
            /\ db' = [t \in SID |-> IF t = s THEN [new_client_entry(p) EXCEPT !.status = r.status]
                                    ELSE IF t \in old THEN NoEntry("GONE") ELSE db[t]]
            /\ banOut' = IF r.ban THEN Score(s) ELSE banOut
    BY <2>2, Zenon
  <2>4. banOut' = {} /\ banIn' = {} /\ up
    BY <1>1, <2>1, <2>3 DEF ExactInv, AuthInitNew
  <2>5. db[s].status = "ABSENT" /\ held[s] = 0
    BY <2>1 DEF AuthInitNew, IInv, RefInv, RefOf
  <2> DEFINE e == [new_client_entry(p) EXCEPT !.status = r.status]
  <2>6. e.in_use = 0
    BY DEF new_client_entry
  <2>7. \A t \in SID : db'[t] = IF t = s THEN e ELSE IF t \in old THEN NoEntry("GONE") ELSE db[t]
    BY <2>3
  <2> HIDE DEF e
  <2>8. ASSUME NEW t \in SID PROVE ExactOf(db'[t], held'[t])
    <3>1. CASE t = s
      BY <1>0, <2>5, <2>6, <2>7, <3>1 DEF ExactOf
    <3>2. CASE t # s /\ t \in old
      BY <2>7, <3>2 DEF ExactOf, NoEntry, AuthStatus
    <3>3. CASE t # s /\ t \notin old
      BY <1>0, <2>4, <2>7, <3>3 DEF ExactInv
    <3> QED
      BY <3>1, <3>2, <3>3
  <2> QED
    BY <2>4, <2>8 DEF ExactInv
<1>3. CASE \E p \in PID : AuthInitReject(p)
  BY <1>0, <1>1, <1>3 DEF AuthInitReject, ExactInv
<1>4. CASE \E s \in SID : AuthCont(s)
  <2>1. PICK s \in SID : AuthCont(s)
    BY <1>4
  <2> DEFINE st == IF db[s].status \in {"INIT", "CONT"} THEN "CONT" ELSE db[s].status
  <2>2. PICK result \in {"ok", "continue", "fail"} : \E r \in handle_sec_auth_res(st, result) :
          db' = [db EXCEPT ![s].status = r.status] /\ banOut' = IF r.ban THEN Score(s) ELSE banOut
    BY <2>1, Zenon DEF AuthCont
  <2>3. PICK r \in handle_sec_auth_res(st, result) :
          db' = [db EXCEPT ![s].status = r.status] /\ banOut' = IF r.ban THEN Score(s) ELSE banOut
    BY <2>2, Zenon
  <2>4. st \in AuthStatus /\ Live(s) /\ up /\ db[s].status # "COMPLETED" /\ banIn' = banIn
    BY <2>1 DEF AuthCont, Live, AuthStatus
  <2>5. held[s] = 0
    BY <1>0, <2>4 DEF ExactInv, ExactOf, Live
  <2> HIDE DEF st
  <2>6. r.status \in AuthStatus
    BY <2>3, <2>4, AuthResType
  <2>7. \A t \in SID : ExactOf(db'[t], held'[t])
    BY <1>0, <2>3, <2>4, <2>5, <2>6, ExactStatus
  <2> QED
    BY <1>1, <2>3, <2>4, <2>7 DEF ExactInv
<1>5. CASE \E p \in PID, s \in SID, r \in Reason : CliStats(p, s, r)
  <2>1. PICK p \in PID, s \in SID, r \in Reason : CliStats(p, s, r)
    BY <1>5
  <2>2. \A t \in SID : /\ db'[t].status = db[t].status /\ db'[t].in_use = db[t].in_use
                       /\ db'[t].open = db[t].open
    BY <1>0, <2>1 DEF CliStats, Entry
  <2>3. banOut' = banOut /\ banIn' = banIn /\ up
    BY <2>1 DEF CliStats
  <2> QED
    BY <1>0, <2>2, <2>3 DEF ExactInv, ExactOf
<1> QED
  BY <1>2, <1>3, <1>4, <1>5 DEF WorkerStep

\* SESSION_OPEN adds a reference exactly when main gets a session.
LEMMA ExactOpen ==
  ASSUME ~MainMayRefuse, IInv, ExactInv, NEW s \in SID, Open(s)
  PROVE  ExactInv'
<1>1. db \in [SID -> Entry] /\ held \in [SID -> Nat] /\ banOut' = {} /\ banIn' = {} /\ up
  BY DEF IInv, TypeOK, DbTypeOK, ExactInv, Open, OpenDenied, OpenNoConfig, OpenDesync, OpenGranted, MayOpen
<1>2. ExactOf(db[s], held[s]) /\ \A t \in SID : ExactOf(db[t], held[t])
  BY <1>1 DEF ExactInv
<1>3. CASE OpenDesync(s)
  BY <1>1, <1>3 DEF OpenDesync, ExactInv
<1>4. CASE OpenDenied(s) /\ UNCHANGED held
  <2>1. CASE UNCHANGED db
    BY <1>1, <1>2, <1>4, <2>1 DEF ExactInv
  <2>2. CASE /\ db[s].status = "COMPLETED" /\ (Expired(db[s]) \/ (HasAcct /\ ~db[s].open))
             /\ db' = [db EXCEPT ![s].status = "FAILED"]
    <3>1. held[s] = 0 /\ Live(s)
      BY <1>1, <1>2, <2>2 DEF ExactOf, Expired, Live, AuthStatus
    <3>2. \A t \in SID : ExactOf(db'[t], held'[t])
      BY <1>1, <1>4, <2>2, <3>1, ExactStatus DEF AuthStatus
    <3> QED
      BY <1>1, <3>2 DEF ExactInv
  <2> QED
    BY <1>4, <2>1, <2>2 DEF OpenDenied
<1>5. CASE OpenNoConfig(s) /\ UNCHANGED held
  <2>1. \A t \in SID : t # s => db'[t] = db[t]
    BY <1>1, <1>5 DEF OpenNoConfig
  <2>2. db'[s].status = db[s].status /\ db'[s].in_use = db[s].in_use /\ db'[s].open = TRUE
    BY <1>1, <1>5 DEF OpenNoConfig, Entry
  <2> QED
    BY <1>1, <1>2, <1>5, <2>1, <2>2 DEF ExactInv, ExactOf
<1>6. CASE OpenGranted(s) /\ held' = [held EXCEPT ![s] = @ + 1]
  <2>1. \A t \in SID : t # s => db'[t] = db[t] /\ held'[t] = held[t]
    BY <1>1, <1>6 DEF OpenGranted
  <2>2. /\ db'[s].status = "COMPLETED" /\ db'[s].in_use = db[s].in_use + 1 /\ db'[s].open = TRUE
        /\ held'[s] = held[s] + 1 /\ db[s].in_use = held[s]
    BY <1>1, <1>2, <1>6 DEF OpenGranted, MayOpen, Entry, ExactOf, AuthStatus
  <2>3. \A t \in SID : ExactOf(db'[t], held'[t])
    BY <1>2, <2>1, <2>2 DEF ExactOf
  <2> QED
    BY <1>1, <2>3 DEF ExactInv
<1> QED
  BY <1>3, <1>4, <1>5, <1>6 DEF Open

\* SESSION_CLOSE drops the reference of the session that main drops.
LEMMA ExactClose ==
  ASSUME IInv, ExactInv, NEW s \in SID, Close(s)
  PROVE  ExactInv'
<1>1. /\ db \in [SID -> Entry] /\ held \in [SID -> Nat] /\ held[s] > 0
      /\ held' = [held EXCEPT ![s] = @ - 1] /\ banOut' = {} /\ banIn' = {} /\ up
  BY DEF IInv, TypeOK, DbTypeOK, ExactInv, Close, SessionClose, CloseDesync
<1>2. \A t \in SID : t # s => held'[t] = held[t] /\ ExactOf(db[t], held[t])
  BY <1>1 DEF ExactInv
<1>3. held'[s] = held[s] - 1 /\ ExactOf(db[s], held[s])
  BY <1>1 DEF ExactInv
<1>4. CASE CloseDesync(s)
  BY <1>1, <1>4 DEF CloseDesync, ExactInv
<1>5. CASE \E byServer \in BOOLEAN : SessionClose(s, byServer)
  <2>1. PICK byServer \in BOOLEAN : SessionClose(s, byServer)
    BY <1>5
  <2>2. CASE db[s].status # "COMPLETED"
    <3>1. db[s].status \notin AuthStatus /\ db' = db
      BY <1>1, <1>3, <2>1, <2>2 DEF ExactOf, SessionClose
    <3>2. \A t \in SID : ExactOf(db'[t], held'[t])
      BY <1>2, <3>1 DEF ExactOf
    <3> QED
      BY <1>1, <3>2 DEF ExactInv
  <2>3. CASE db[s].status = "COMPLETED"
    <3> DEFINE e == IF byServer THEN [db[s] EXCEPT !.reason = "SERVER"] ELSE db[s]
               after == expire_client_entry(e)
    <3>1. e \in Entry /\ e.status = "COMPLETED" /\ e.open = db[s].open /\ e.in_use = db[s].in_use
      BY <1>1, <2>3 DEF Entry, Reason
    <3>2. db' = [db EXCEPT ![s] = after]
      BY <2>1, <2>3, Zenon DEF SessionClose
    <3>3. db[s].in_use = held[s] /\ db[s].open /\ held[s] \in Nat
      BY <1>1, <1>3, <2>3 DEF ExactOf, AuthStatus
    <3> HIDE DEF e
    <3>4. \/ after = NoEntry("GONE")
          \/ after.status = "COMPLETED" /\ after.open = e.open
               /\ after.in_use = IF e.in_use > 0 THEN e.in_use - 1 ELSE 0
      BY <3>1, ExpireEntry
    <3> HIDE DEF after
    <3>5. ExactOf(after, held'[s])
      <4>1. CASE after = NoEntry("GONE")
        BY <4>1 DEF ExactOf, NoEntry, AuthStatus
      <4>2. CASE after.status = "COMPLETED" /\ after.open = e.open
                   /\ after.in_use = IF e.in_use > 0 THEN e.in_use - 1 ELSE 0
        <5>1. after.in_use = held'[s] /\ after.open
          BY <1>1, <1>3, <3>1, <3>3, <4>2
        <5> QED
          BY <4>2, <5>1 DEF ExactOf
      <4> QED
        BY <3>4, <4>1, <4>2
    <3>6. \A t \in SID : ExactOf(db'[t], held'[t])
      BY <1>1, <1>2, <3>2, <3>5
    <3> QED
      BY <1>1, <3>6 DEF ExactInv
  <2> QED
    BY <2>2, <2>3
<1> QED
  BY <1>4, <1>5 DEF Close

\* Deletions, time and the end of sec-mod; there are no ban messages.
LEMMA ExactOwn ==
  ASSUME IInv, ExactInv,
         \/ \E S \in SUBSET SID : Terminate(S) /\ UNCHANGED held
         \/ AsyncStep
         \/ (Cleanup \/ Shutdown \/ Tick) /\ UNCHANGED held
         \/ UNCHANGED vars
  PROVE  ExactInv'
<1>1. db \in [SID -> Entry]
  BY DEF IInv, TypeOK, DbTypeOK
<1>2. ~AsyncStep
  BY DEF AsyncStep, BanIpReply, MainBanIp, ExactInv
<1>3. held' = held /\ banOut' = {} /\ banIn' = {}
  BY <1>2 DEF Terminate, Cleanup, Shutdown, Tick, vars, ExactInv
<1>4. CASE Shutdown
  BY <1>3, <1>4 DEF Shutdown, ExactInv
<1>5. ASSUME NEW S \in SUBSET SID, NEW how \in {"GONE", "ENDED"}, del_client_entries(S, how), up
      PROVE  ExactInv'
  <2>1. \A t \in SID : db'[t] = IF t \in S THEN NoEntry(how) ELSE db[t]
    BY <1>5 DEF del_client_entries
  <2>2. \A t \in SID : ExactOf(db'[t], held'[t])
    BY <1>3, <1>5, <2>1 DEF ExactInv, ExactOf, NoEntry, AuthStatus
  <2> QED
    BY <1>3, <2>2 DEF ExactInv
<1>6. CASE \E S \in SUBSET SID : Terminate(S)
  BY <1>5, <1>6 DEF Terminate
<1>7. CASE Cleanup
  <2>1. {t \in SID : Live(t) /\ Expired(db[t])} \in SUBSET SID
    OBVIOUS
  <2> QED
    BY <1>5, <1>7, <2>1 DEF Cleanup
<1>8. CASE Tick
  <2>1. \A t \in SID : /\ db'[t].status = db[t].status /\ db'[t].in_use = db[t].in_use
                       /\ db'[t].open = db[t].open
    BY <1>1, <1>8 DEF Tick, Entry
  <2> QED
    BY <1>3, <1>8, <2>1, ZenonT(60) DEF ExactInv, ExactOf, Tick
<1>9. CASE UNCHANGED vars
  BY <1>3, <1>9 DEF vars, ExactInv
<1> QED
  BY <1>2, <1>4, <1>6, <1>7, <1>8, <1>9

\* Without bans, with workers that follow the protocol and a main that refuses no
\* session it was granted, in_use is exactly the number of sessions of main.
THEOREM ReferencesExact ==
  ASSUME StrictWorkers, ~BanEnabled, ~MainMayRefuse
  PROVE  Spec => []InUseExact
<1>1. Init => ExactInv
  <2> SUFFICES ASSUME Init PROVE ExactInv
    OBVIOUS
  <2>1. \A s \in SID : db[s].status = "ABSENT"
    BY DEF Init, DbInit, NoEntry
  <2> QED
    BY <2>1 DEF Init, DbInit, ExactInv, ExactOf, AuthStatus
<1>2. IInv /\ ExactInv /\ [Next]_vars => ExactInv'
  BY ExactWorker, ExactOpen, ExactClose, ExactOwn DEF Next
<1>3. ExactInv => InUseExact
  BY DEF ExactInv, ExactOf, InUseExact, Live
<1> QED
  BY <1>1, <1>2, <1>3, Inductive, PTL DEF Spec
=============================================================================
