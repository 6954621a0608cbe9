--------------------------- MODULE SessionsProofs ---------------------------
(***************************************************************************)
(* The server keeps max-same-clients and the ownership of leases, and main *)
(* and the workers use sec-mod as module SecMod assumes, for any number of *)
(* workers, cookies and addresses (Sessions).                              *)
(***************************************************************************)
EXTENDS Sessions, SecModDbProofs, FiniteSetTheorems, TLAPS

\* What ties a proc to its worker.  A proc that has not presented a cookie has
\* nothing; one with a session has its SID and its user; a connect script runs only
\* for a session that is not answered yet; and a worker that talks about a cookie
\* has one.
ProcOK(p, x) ==
  /\ p.st \in {"NONE", "INACTIVE"} => ~p.active /\ ~p.owned /\ ~p.script /\ p.ip = NoIP
  /\ p.active => p.sid \in SID /\ p.named
  /\ p.st = "COMPLETED" => p.active
  /\ p.script => p.active /\ p.st = "FAILED" /\ x.phase = "wait"
  /\ x.phase \in {"auth", "cookie", "wait", "complete"} => x.sid \in SID

ProcTypes == proc \in [PID -> Proc] /\ wk \in [PID -> Worker] /\ mail \subseteq PID \X SID

ProcsOK == \A w \in PID : ProcOK(proc[w], wk[w])

Accepted == {w \in PID : (proc[w].st = "COMPLETED" \/ proc[w].script) /\ ~proc[w].killed}

SInv == ProcTypes /\ ProcsOK /\ LeasesDistinct /\ SameClientsBound

-----------------------------------------------------------------------------
\* A signal changes nothing but the way a worker runs.
LEMMA SignalKeeps ==
  ASSUME NEW x \in Worker
  PROVE  Signal(x) \in Worker /\ Signal(x).phase = x.phase /\ Signal(x).sid = x.sid
BY DEF Signal, Worker

\* The answer of a script exit: the new status and the phase of the worker.
LEMMA ScriptResult ==
  ASSUME NEW w \in PID, NEW zero \in BOOLEAN, NEW r \in handle_script_exit(w, zero)
  PROVE  /\ r = <<r[1], r[2]>>
         /\ r[1] \in {"DROP", "FAILED", "COMPLETED"} /\ r[2] \in {wk[w].phase, "done", "complete"}
         /\ r[1] = "COMPLETED" => zero
         /\ r[1] = "FAILED" => r[2] = "done"
BY DEF handle_script_exit

\* What get_ip_leases gives: the lease that was stolen, or a free address.
LEMMA LeaseResult ==
  ASSUME NEW p \in Proc, NEW q \in get_ip_leases(p)
  PROVE  /\ q \in Proc
         /\ q.st = p.st /\ q.sid = p.sid /\ q.active = p.active /\ q.named = p.named
         /\ q.inval = p.inval /\ q.killed = p.killed /\ q.script = p.script
         /\ \/ q.ip = p.ip /\ q.owned = p.owned
            \/ p.ip = NoIP /\ q.owned /\ q.ip \in IP \ Leased
<1>1. CASE p.ip # NoIP
  BY <1>1 DEF get_ip_leases
<1>2. CASE p.ip = NoIP
  <2>1. PICK a \in IP \ Leased : q = [p EXCEPT !.ip = a, !.owned = TRUE]
    BY <1>2 DEF get_ip_leases
  <2> QED
    BY <1>2, <2>1 DEF Proc
<1> QED
  BY <1>1, <1>2

\* The procs that accept_user may make of p, and the phases of the worker.
LEMMA AcceptResult ==
  ASSUME NEW w \in PID, NEW old, NEW p \in Proc, ~p.script, NEW r \in accept_user(w, old, p)
  PROVE  /\ r[1] \in Proc
         /\ r[1].sid = p.sid /\ r[1].active = p.active /\ r[1].named = p.named
         /\ \/ r[1].ip = p.ip /\ r[1].owned = p.owned
            \/ p.ip = NoIP /\ r[1].owned /\ r[1].ip \in IP \ Leased
         /\ r[1].st \in {"DROP", "FAILED", "COMPLETED"}
         /\ r[1].st = "COMPLETED" \/ r[1].script => check_multiple_users(w, old)
         /\ r[1].script => r[1].st = "FAILED" /\ r[2] = wk[w].phase
         /\ r[2] \in {wk[w].phase, "done", "complete"}
<1> DEFINE Ends(q, zero) == {<<[q EXCEPT !.st = e[1]], e[2]>> : e \in handle_script_exit(w, zero)}
           Waits(q) == {<<[q EXCEPT !.st = "FAILED", !.script = TRUE], wk[w].phase>>}
<1>1. ASSUME NEW q \in Proc, NEW zero \in BOOLEAN, r \in Ends(q, zero)
      PROVE  /\ r[1] \in Proc
             /\ r[1].sid = q.sid /\ r[1].active = q.active /\ r[1].named = q.named
             /\ r[1].ip = q.ip /\ r[1].owned = q.owned /\ r[1].script = q.script
             /\ r[1].st \in {"DROP", "FAILED", "COMPLETED"} /\ (r[1].st = "COMPLETED" => zero)
             /\ r[2] \in {wk[w].phase, "done", "complete"}
  <2>1. PICK e \in handle_script_exit(w, zero) : r = <<[q EXCEPT !.st = e[1]], e[2]>>
    BY <1>1
  <2>2. /\ e[1] \in {"DROP", "FAILED", "COMPLETED"} /\ e[2] \in {wk[w].phase, "done", "complete"}
        /\ e[1] = "COMPLETED" => zero
    BY ScriptResult
  <2> QED
    BY <2>1, <2>2 DEF Proc
<1>2. ASSUME NEW q \in Proc, r \in Waits(q)
      PROVE  /\ r[1] \in Proc
             /\ r[1].sid = q.sid /\ r[1].active = q.active /\ r[1].named = q.named
             /\ r[1].ip = q.ip /\ r[1].owned = q.owned
             /\ r[1].st = "FAILED" /\ r[2] = wk[w].phase
  <2>1. r[1] = [q EXCEPT !.st = "FAILED", !.script = TRUE] /\ r[2] = wk[w].phase
    BY <1>2
  <2>2. r[1] \in Proc
    BY <2>1 DEF Proc
  <2> QED
    BY <2>1, <2>2 DEF Proc
<1>3. CASE ~check_multiple_users(w, old) \/ get_ip_leases(p) = {}
  <2>1. r \in Ends(p, FALSE)
    BY <1>3 DEF accept_user
  <2> QED
    BY <1>1, <2>1, ZenonT(60)
<1>4. CASE check_multiple_users(w, old) /\ get_ip_leases(p) # {}
  <2>1. PICK q \in get_ip_leases(p) : r \in Waits(q) \cup Ends(q, TRUE) \cup Ends(q, FALSE)
    BY <1>4 DEF accept_user
  <2>2. /\ q \in Proc
        /\ q.sid = p.sid /\ q.active = p.active /\ q.named = p.named /\ q.script = p.script
        /\ \/ q.ip = p.ip /\ q.owned = p.owned
           \/ p.ip = NoIP /\ q.owned /\ q.ip \in IP \ Leased
    BY LeaseResult
  <2> HIDE DEF Ends, Waits
  <2>3. CASE r \in Waits(q)
    BY <1>2, <1>4, <2>2, <2>3
  <2>4. CASE r \in Ends(q, TRUE)
    BY <1>1, <1>4, <2>2, <2>4
  <2>5. CASE r \in Ends(q, FALSE)
    BY <1>1, <1>4, <2>2, <2>5
  <2> QED
    BY <2>1, <2>3, <2>4, <2>5
<1> QED
  BY <1>3, <1>4

-----------------------------------------------------------------------------
\* A step after which nobody owns a lease or counts as accepted who did not before.
LEMMA NothingNew ==
  ASSUME SInv, ProcTypes', ProcsOK',
         \A w \in PID : proc'[w].owned => proc[w].owned /\ proc'[w].ip = proc[w].ip,
         \A w \in PID : /\ (proc'[w].st = "COMPLETED" \/ proc'[w].script) /\ ~proc'[w].killed
                        => (proc[w].st = "COMPLETED" \/ proc[w].script) /\ ~proc[w].killed
  PROVE  SInv'
<1>1. LeasesDistinct'
  BY DEF SInv, LeasesDistinct
<1>2. SameClientsBound'
  <2>1. Accepted' \subseteq Accepted
    BY DEF Accepted
  <2>2. IsFiniteSet(Accepted)
    BY SessionsAssumption, FS_Subset DEF SessionsAssumption, Accepted
  <2>3. Cardinality(Accepted') <= Cardinality(Accepted)
    BY <2>1, <2>2, FS_Subset
  <2>4. IsFiniteSet(Accepted') /\ Cardinality(Accepted') \in Nat /\ Cardinality(Accepted) \in Nat
    BY <2>1, <2>2, FS_Subset, FS_CardinalityType
  <2>5. MaxSame \in Nat
    BY SessionsAssumption DEF SessionsAssumption
  <2> QED
    BY <2>3, <2>4, <2>5 DEF SInv, SameClientsBound, Accepted
<1> QED
  BY <1>1, <1>2 DEF SInv

\* A step of a worker alone.
LEMMA WorkerAlone ==
  ASSUME SInv, NEW w \in PID, wk' \in [PID -> Worker], \A v \in PID : v # w => wk'[v] = wk[v], proc' = proc,
         mail' \subseteq PID \X SID,
         wk'[w].phase \in {"auth", "cookie", "wait", "complete"} => wk'[w].sid \in SID,
         proc[w].script => wk'[w].phase = "wait"
  PROVE  SInv'
<1>1. ProcTypes'
  BY DEF SInv, ProcTypes
<1>2. ProcsOK'
  BY DEF SInv, ProcsOK, ProcOK
<1> QED
  BY <1>1, <1>2, NothingNew

\* What a worker makes of an answer is a phase, with a cookie where it needs one.
LEMMA ReplyType ==
  ASSUME NEW s \in SID
  PROVE  /\ AfterReply(s).phase \in {"auth", "cookie", "new"}
         /\ AfterReply(s).sid \in SID \cup {NoSid}
         /\ AfterReply(s).phase # "new" => AfterReply(s).sid \in SID
BY DEF AfterReply

\* The steps of workers.
LEMMA WorkerSteps == ASSUME SInv, NEW w \in PID, WorkerNext(w) PROVE SInv'
<1>0. /\ proc \in [PID -> Proc] /\ wk \in [PID -> Worker] /\ mail \subseteq PID \X SID
      /\ ProcOK(proc[w], wk[w])
      /\ wk[w].run \in {"dead", "run", "term"} /\ wk[w].sid \in SID \cup {NoSid}
      /\ wk[w].phase \in {"new", "auth", "cookie", "wait", "complete", "done"}
  BY DEF SInv, ProcTypes, ProcsOK, Worker
<1>1. ASSUME NEW ph \in {"new", "auth", "cookie", "wait", "complete", "done"}, NEW s \in SID \cup {NoSid},
             wk' = [wk EXCEPT ![w].phase = ph, ![w].sid = s], proc' = proc, mail' = mail,
             ph \in {"auth", "cookie", "wait", "complete"} => s \in SID, ~proc[w].script
      PROVE  SInv'
  <2>1. /\ wk' \in [PID -> Worker] /\ wk'[w].phase = ph /\ wk'[w].sid = s
        /\ \A v \in PID : v # w => wk'[v] = wk[v]
    BY <1>0, <1>1 DEF Worker
  <2> QED
    BY <1>0, <1>1, <2>1, WorkerAlone
<1>2. CASE WorkerAuthInit(w)
  <2>1. ~proc[w].script /\ proc' = proc /\ mail' = mail
    BY <1>0, <1>2 DEF WorkerAuthInit, ProcOK
  <2>2. CASE \E s \in SID : wk' = [wk EXCEPT ![w].phase = AfterReply(s).phase, ![w].sid = AfterReply(s).sid]
    BY <1>1, <2>1, <2>2, ReplyType
  <2>3. CASE wk' = wk
    BY <2>1, <2>3 DEF SInv, ProcTypes, ProcsOK, ProcOK, LeasesDistinct, SameClientsBound
  <2> QED
    BY <1>2, <2>2, <2>3 DEF WorkerAuthInit
<1>3. CASE WorkerAuthCont(w)
  <2>1. ~proc[w].script /\ proc' = proc /\ mail' = mail /\ wk[w].sid \in SID
    BY <1>0, <1>3 DEF WorkerAuthCont, ProcOK
  <2>2. CASE wk' = [wk EXCEPT ![w].phase = AfterReply(wk[w].sid).phase, ![w].sid = AfterReply(wk[w].sid).sid]
    BY <1>1, <2>1, <2>2, ReplyType
  <2>3. CASE wk' = [wk EXCEPT ![w].phase = "new", ![w].sid = NoSid]
    BY <1>1, <2>1, <2>3, ZenonT(60)
  <2> QED
    BY <1>3, <2>2, <2>3 DEF WorkerAuthCont
<1>4. ASSUME NEW s \in SID, WorkerCookie(w, s) PROVE SInv'
  BY <1>0, <1>1, <1>4 DEF WorkerCookie, ProcOK
<1>5. ASSUME NEW s \in SID, StatsArrive(w, s) PROVE SInv'
  <2>1. proc' = proc /\ wk' = wk /\ mail' \subseteq PID \X SID
    BY <1>0, <1>5 DEF StatsArrive
  <2> QED
    BY <2>1 DEF SInv, ProcTypes, ProcsOK, ProcOK, LeasesDistinct, SameClientsBound
<1>6. CASE WorkerStats(w)
  <2>1. proc' = proc /\ wk' = wk /\ mail' \subseteq PID \X SID
    BY <1>0, <1>6 DEF WorkerStats, ProcOK
  <2> QED
    BY <2>1 DEF SInv, ProcTypes, ProcsOK, ProcOK, LeasesDistinct, SameClientsBound
<1>7. ASSUME NEW r \in Reason, WorkerReport(w, r) PROVE SInv'
  <2>1. /\ wk' \in [PID -> Worker] /\ wk'[w].phase = "done"
        /\ \A v \in PID : v # w => wk'[v] = wk[v]
    BY <1>0, <1>7 DEF WorkerReport, Worker
  <2>2. proc' = proc /\ mail' = mail /\ ~proc[w].script
    BY <1>0, <1>7 DEF WorkerReport, ProcOK
  <2> QED
    BY <1>0, <2>1, <2>2, WorkerAlone
<1>8. CASE WorkerExit(w)
  <2>1. /\ wk' \in [PID -> Worker] /\ wk'[w].phase = wk[w].phase /\ wk'[w].sid = wk[w].sid
        /\ \A v \in PID : v # w => wk'[v] = wk[v]
    BY <1>0, <1>8 DEF WorkerExit, Worker
  <2>2. proc' = proc /\ mail' = mail
    BY <1>8 DEF WorkerExit
  <2> QED
    BY <1>0, <2>1, <2>2, WorkerAlone DEF ProcOK
<1> QED
  BY <1>2, <1>3, <1>4, <1>5, <1>6, <1>7, <1>8 DEF WorkerNext

\* A step of one proc and its worker that owns and counts nothing more than before.
LEMMA OneProc ==
  ASSUME SInv, NEW w \in PID, proc' \in [PID -> Proc], wk' \in [PID -> Worker], mail' = mail,
         \A v \in PID : v # w => proc'[v] = proc[v] /\ wk'[v] = wk[v],
         ProcOK(proc'[w], wk'[w]),
         proc'[w].owned => proc[w].owned /\ proc'[w].ip = proc[w].ip,
         /\ (proc'[w].st = "COMPLETED" \/ proc'[w].script) /\ ~proc'[w].killed
         => (proc[w].st = "COMPLETED" \/ proc[w].script) /\ ~proc[w].killed
  PROVE  SInv'
<1>1. ProcTypes'
  BY DEF SInv, ProcTypes
<1>2. ProcsOK'
  <2> SUFFICES ASSUME NEW v \in PID PROVE ProcOK(proc'[v], wk'[v])
    BY DEF ProcsOK, ProcOK
  <2> QED
    BY DEF SInv, ProcsOK
<1> QED
  BY <1>1, <1>2, NothingNew

\* A proc that is new or was removed.
LEMMA NewProcOK ==
  ASSUME NEW st \in {"NONE", "INACTIVE"}
  PROVE  /\ NewProc(st) \in Proc
         /\ NewProc(st).st = st /\ ~NewProc(st).active /\ ~NewProc(st).owned /\ ~NewProc(st).script
         /\ NewProc(st).ip = NoIP
<1>1. NewProc(st) \in Proc
  BY Zenon DEF NewProc, Proc
<1> QED
  BY <1>1 DEF NewProc

\* listen_watcher_cb.
LEMMA ForkKeeps == ASSUME SInv, NEW w \in PID, Fork(w) PROVE SInv'
<1> DEFINE x == [run |-> "run", phase |-> "new", sid |-> NoSid]
           n == NewProc("INACTIVE")
<1>1. proc \in [PID -> Proc] /\ wk \in [PID -> Worker]
  BY DEF SInv, ProcTypes
<1>2. x \in Worker /\ x.phase = "new"
  BY DEF Worker
<1>3. n \in Proc /\ n.st = "INACTIVE" /\ ~n.active /\ ~n.owned /\ ~n.script /\ n.ip = NoIP
  BY NewProcOK
<1>4. proc' = [proc EXCEPT ![w] = n] /\ wk' = [wk EXCEPT ![w] = x] /\ mail' = mail
  BY DEF Fork
<1> HIDE DEF x, n
<1>5. /\ proc' \in [PID -> Proc] /\ wk' \in [PID -> Worker] /\ proc'[w] = n /\ wk'[w] = x
      /\ \A v \in PID : v # w => proc'[v] = proc[v] /\ wk'[v] = wk[v]
  BY <1>1, <1>2, <1>3, <1>4
<1>6. ProcOK(proc'[w], wk'[w])
  BY <1>2, <1>3, <1>5 DEF ProcOK
<1> QED
  BY <1>3, <1>4, <1>5, <1>6, OneProc

\* handle_auth_cookie_req refuses.
LEMMA RefusedKeeps == ASSUME SInv, NEW w \in PID, CookieRefused(w) PROVE SInv'
<1>1. proc \in [PID -> Proc] /\ wk \in [PID -> Worker] /\ ProcOK(proc[w], wk[w])
  BY DEF SInv, ProcTypes, ProcsOK
<1>2. PICK named \in BOOLEAN, r \in handle_script_exit(w, FALSE) :
        /\ proc' = [proc EXCEPT ![w].st = r[1], ![w].named = named]
        /\ wk' = [wk EXCEPT ![w].phase = r[2]]
  BY DEF CookieRefused
<1>3. r[1] \in {"DROP", "FAILED"} /\ r[2] \in {"wait", "done", "complete"}
  BY ScriptResult DEF CookieRefused
<1>4. /\ proc' \in [PID -> Proc] /\ wk' \in [PID -> Worker]
      /\ \A v \in PID : v # w => proc'[v] = proc[v] /\ wk'[v] = wk[v]
  <2>0. r[1] \in {"NONE", "INACTIVE", "FAILED", "COMPLETED", "DROP"}
    BY <1>3
  <2>1. proc' \in [PID -> Proc]
    <3>1. [proc[w] EXCEPT !.st = r[1], !.named = named] \in Proc
      BY <1>1, <2>0, ZenonT(60) DEF Proc
    <3>2. proc' = [proc EXCEPT ![w] = [proc[w] EXCEPT !.st = r[1], !.named = named]]
      BY <1>1, <1>2
    <3> QED
      BY <1>1, <3>1, <3>2
  <2>2. wk' \in [PID -> Worker]
    BY <1>1, <1>2, <1>3 DEF Worker
  <2> QED
    BY <1>1, <1>2, <2>1, <2>2
<1>5. /\ proc'[w].st = r[1] /\ proc'[w].active = proc[w].active /\ proc'[w].script = proc[w].script
      /\ proc'[w].owned = proc[w].owned /\ proc'[w].ip = proc[w].ip
      /\ wk'[w].sid = wk[w].sid
  BY <1>1, <1>2 DEF Proc, Worker
<1>6. ~proc[w].active /\ ~proc[w].script /\ ~proc[w].owned /\ wk[w].sid \in SID /\ mail' = mail
  BY <1>1 DEF CookieRefused, ProcOK
<1>7. ProcOK(proc'[w], wk'[w])
  BY <1>3, <1>5, <1>6 DEF ProcOK
<1> QED
  BY <1>3, <1>4, <1>5, <1>6, <1>7, OneProc

\* script_child_watcher_cb.
LEMMA ScriptKeeps == ASSUME SInv, NEW w \in PID, NEW zero \in BOOLEAN, ScriptExit(w, zero) PROVE SInv'
<1>1. proc \in [PID -> Proc] /\ wk \in [PID -> Worker] /\ ProcOK(proc[w], wk[w])
  BY DEF SInv, ProcTypes, ProcsOK
<1>2. PICK r \in handle_script_exit(w, zero) :
        /\ proc' = [proc EXCEPT ![w].script = FALSE, ![w].st = r[1]]
        /\ wk' = [wk EXCEPT ![w].phase = r[2]]
  BY DEF ScriptExit
<1>3. r[1] \in {"DROP", "FAILED", "COMPLETED"} /\ r[2] \in {wk[w].phase, "done", "complete"}
  BY ScriptResult
<1>4. proc[w].script /\ proc[w].active /\ proc[w].sid \in SID /\ proc[w].named /\ wk[w].phase = "wait"
      /\ wk[w].sid \in SID /\ mail' = mail
  BY <1>1 DEF ScriptExit, ProcOK
<1>5. /\ proc' \in [PID -> Proc] /\ wk' \in [PID -> Worker]
      /\ \A v \in PID : v # w => proc'[v] = proc[v] /\ wk'[v] = wk[v]
  <2>0. r[1] \in {"NONE", "INACTIVE", "FAILED", "COMPLETED", "DROP"}
    BY <1>3
  <2>1. proc' \in [PID -> Proc]
    <3>1. [proc[w] EXCEPT !.script = FALSE, !.st = r[1]] \in Proc
      BY <1>1, <2>0, ZenonT(60) DEF Proc
    <3>2. proc' = [proc EXCEPT ![w] = [proc[w] EXCEPT !.script = FALSE, !.st = r[1]]]
      BY <1>1, <1>2
    <3> QED
      BY <1>1, <3>1, <3>2
  <2>2. wk' \in [PID -> Worker]
    BY <1>1, <1>2, <1>3, <1>4 DEF Worker
  <2> QED
    BY <1>1, <1>2, <2>1, <2>2
<1>6. /\ proc'[w].st = r[1] /\ ~proc'[w].script /\ proc'[w].active = proc[w].active /\ proc'[w].sid = proc[w].sid
      /\ proc'[w].named = proc[w].named /\ proc'[w].killed = proc[w].killed
      /\ proc'[w].owned = proc[w].owned /\ proc'[w].ip = proc[w].ip
      /\ wk'[w].sid = wk[w].sid
  BY <1>1, <1>2 DEF Proc, Worker
<1>7. ProcOK(proc'[w], wk'[w])
  BY <1>3, <1>4, <1>6 DEF ProcOK
<1> QED
  BY <1>4, <1>5, <1>6, <1>7, OneProc

\* remove_proc.
LEMMA RemoveProcKeeps ==
  ASSUME SInv, NEW w \in PID, NEW kill \in BOOLEAN, remove_proc(w, kill), mail' = mail
  PROVE  SInv'
<1> DEFINE n == NewProc("NONE")
           x == IF kill THEN Signal(wk[w]) ELSE wk[w]
<1>1. proc \in [PID -> Proc] /\ wk \in [PID -> Worker] /\ ProcOK(proc[w], wk[w])
  BY DEF SInv, ProcTypes, ProcsOK
<1>2. n \in Proc /\ n.st = "NONE" /\ ~n.active /\ ~n.owned /\ ~n.script /\ n.ip = NoIP
  BY NewProcOK
<1>3. x \in Worker /\ x.phase = wk[w].phase /\ x.sid = wk[w].sid
  BY <1>1, SignalKeeps
<1>4. proc' = [proc EXCEPT ![w] = n] /\ wk' = [wk EXCEPT ![w] = x]
  BY <1>1 DEF remove_proc
<1> HIDE DEF n, x
<1>5. /\ proc' \in [PID -> Proc] /\ wk' \in [PID -> Worker] /\ proc'[w] = n /\ wk'[w] = x
      /\ \A v \in PID : v # w => proc'[v] = proc[v] /\ wk'[v] = wk[v]
  BY <1>1, <1>2, <1>3, <1>4
<1>6. ProcOK(proc'[w], wk'[w])
  BY <1>1, <1>2, <1>3, <1>5 DEF ProcOK
<1> QED
  BY <1>2, <1>5, <1>6, OneProc

\* disconnect_proc.
LEMMA DisconnectKeeps == ASSUME SInv, NEW W \in SUBSET PID, disconnect_procs(W), mail' = mail PROVE SInv'
<1>1. proc \in [PID -> Proc] /\ wk \in [PID -> Worker] /\ \A v \in PID : ProcOK(proc[v], wk[v])
  BY DEF SInv, ProcTypes, ProcsOK
<1>2. \A v \in PID : proc'[v] \in Proc /\ wk'[v] \in Worker
  <2>1. \A p \in Proc : [p EXCEPT !.inval = TRUE] \in Proc
    BY DEF Proc
  <2> QED
    BY <1>1, <2>1, SignalKeeps DEF disconnect_procs
<1>3. \A v \in PID :
        /\ proc'[v].st = proc[v].st /\ proc'[v].sid = proc[v].sid /\ proc'[v].active = proc[v].active
        /\ proc'[v].named = proc[v].named /\ proc'[v].killed = proc[v].killed /\ proc'[v].script = proc[v].script
        /\ proc'[v].ip = proc[v].ip /\ proc'[v].owned = proc[v].owned
        /\ wk'[v].phase = wk[v].phase /\ wk'[v].sid = wk[v].sid
  BY <1>1, SignalKeeps DEF disconnect_procs, Proc
<1>4. ProcTypes'
  BY <1>2 DEF disconnect_procs, SInv, ProcTypes
<1>5. ProcsOK'
  BY <1>1, <1>3 DEF ProcsOK, ProcOK
<1> QED
  BY <1>3, <1>4, <1>5, NothingNew

-----------------------------------------------------------------------------
\* The proc that presents a cookie, with its session and what it takes from old.
Claim(w, old) == Thief(old, [proc[w] EXCEPT !.sid = wk[w].sid, !.active = TRUE, !.named = TRUE])

\* Before it takes anything, a proc with a cookie has nothing but the cookie.
LEMMA ClaimIs ==
  ASSUME SInv, NEW w \in PID, proc[w].st = "INACTIVE", wk[w].phase = "wait",
         NEW old \in Replaceable(wk[w].sid)
  PROVE  /\ wk[w].sid \in SID
         /\ old = NoPid \/ (old \in PID /\ old # w /\ proc[old].active /\ proc[old].sid = wk[w].sid)
         /\ Claim(w, old) \in Proc
         /\ Claim(w, old).sid = wk[w].sid /\ Claim(w, old).active /\ Claim(w, old).named /\ ~Claim(w, old).script
         /\ old = NoPid => Claim(w, old).ip = NoIP /\ ~Claim(w, old).owned
         /\ old # NoPid => Claim(w, old).ip = proc[old].ip /\ Claim(w, old).owned = proc[old].owned
<1> DEFINE q == [proc[w] EXCEPT !.sid = wk[w].sid, !.active = TRUE, !.named = TRUE]
<1>1. proc \in [PID -> Proc] /\ wk \in [PID -> Worker] /\ \A v \in PID : ProcOK(proc[v], wk[v])
  BY DEF SInv, ProcTypes, ProcsOK
<1>2. wk[w].sid \in SID /\ ~proc[w].active /\ ~proc[w].owned /\ ~proc[w].script /\ proc[w].ip = NoIP
  BY <1>1 DEF ProcOK
<1>3. old = NoPid \/ (old \in PID /\ old # w /\ proc[old].active /\ proc[old].sid = wk[w].sid)
  BY <1>2 DEF Replaceable, proc_search_sid, OfSid
<1>4. /\ q \in Proc /\ q.sid = wk[w].sid /\ q.active /\ q.named /\ ~q.script /\ q.ip = NoIP /\ ~q.owned
  BY <1>1, <1>2, ZenonT(60) DEF Proc
<1> HIDE DEF q
<1>5. CASE old = NoPid
  <2>1. Claim(w, old) = q
    BY <1>5 DEF Claim, Thief, q
  <2> QED
    BY <1>2, <1>3, <1>4, <1>5, <2>1
<1>6. CASE old # NoPid
  <2>1. Claim(w, old) = [q EXCEPT !.ip = proc[old].ip, !.owned = proc[old].owned]
    BY <1>6 DEF Claim, Thief, q
  <2>2. old \in PID /\ proc[old].ip \in IP \cup {NoIP} /\ proc[old].owned \in BOOLEAN
    BY <1>1, <1>3, <1>6 DEF Proc
  <2>3. [q EXCEPT !.ip = proc[old].ip, !.owned = proc[old].owned] \in Proc
    BY <1>4, <2>2, ZenonT(60) DEF Proc
  <2> QED
    BY <1>2, <1>3, <1>4, <1>6, <2>1, <2>3 DEF Proc
<1> QED
  BY <1>5, <1>6

\* handle_auth_cookie_req opens the session for w and takes over from old: what
\* becomes of the two procs.
OpenedBy(w, old) ==
  /\ old # w /\ (old # NoPid => proc[old].active)
  /\ proc' \in [PID -> Proc] /\ wk' \in [PID -> Worker] /\ mail' = mail
  /\ \A v \in PID : v # w => wk'[v].phase = wk[v].phase /\ wk'[v].sid = wk[v].sid
  /\ \A v \in PID : v # w /\ v # old => proc'[v] = proc[v]
  /\ old # NoPid => /\ proc'[old].killed /\ ~proc'[old].owned /\ proc'[old].ip = proc[old].ip
                    /\ proc'[old].st = proc[old].st /\ proc'[old].sid = proc[old].sid
                    /\ proc'[old].active = proc[old].active /\ proc'[old].named = proc[old].named
                    /\ proc'[old].script = proc[old].script
  /\ proc'[w].sid = wk[w].sid /\ proc'[w].active /\ proc'[w].named /\ wk[w].sid \in SID
  /\ proc'[w].st \in {"DROP", "FAILED", "COMPLETED"}
  /\ (proc'[w].st = "COMPLETED" \/ proc'[w].script) => check_multiple_users(w, old)
  /\ proc'[w].script => proc'[w].st = "FAILED" /\ wk'[w].phase = "wait"
  /\ wk'[w].sid = wk[w].sid
  /\ \/ ~proc'[w].owned
     \/ proc'[w].owned /\ proc'[w].ip \in IP \ Leased
     \/ old # NoPid /\ proc[old].owned /\ proc'[w].ip = proc[old].ip

\* A session is opened for one proc, in the place of at most one other.
LEMMA OpenedStep ==
  ASSUME SInv, NEW w \in PID, CookieOpened(w)
  PROVE  \E old \in PID \cup {NoPid} : OpenedBy(w, old)
<1>1. proc \in [PID -> Proc] /\ wk \in [PID -> Worker] /\ \A v \in PID : ProcOK(proc[v], wk[v])
  BY DEF SInv, ProcTypes, ProcsOK
<1>2. PICK old \in Replaceable(wk[w].sid) : \E r \in accept_user(w, old, Claim(w, old)) :
        /\ proc' = [v \in PID |-> IF v = w THEN r[1] ELSE IF v = old THEN Robbed(proc[v]) ELSE proc[v]]
        /\ wk' = [v \in PID |-> IF v = w THEN [wk[v] EXCEPT !.phase = r[2]]
                                ELSE IF v = old THEN Signal(wk[v]) ELSE wk[v]]
  BY DEF CookieOpened, Claim
<1>3. PICK r \in accept_user(w, old, Claim(w, old)) :
        /\ proc' = [v \in PID |-> IF v = w THEN r[1] ELSE IF v = old THEN Robbed(proc[v]) ELSE proc[v]]
        /\ wk' = [v \in PID |-> IF v = w THEN [wk[v] EXCEPT !.phase = r[2]]
                                ELSE IF v = old THEN Signal(wk[v]) ELSE wk[v]]
  BY <1>2
<1>4. proc[w].st = "INACTIVE" /\ wk[w].phase = "wait" /\ mail' = mail
  BY DEF CookieOpened
<1>5. /\ wk[w].sid \in SID
      /\ old = NoPid \/ (old \in PID /\ old # w /\ proc[old].active /\ proc[old].sid = wk[w].sid)
      /\ Claim(w, old) \in Proc
      /\ Claim(w, old).sid = wk[w].sid /\ Claim(w, old).active /\ Claim(w, old).named /\ ~Claim(w, old).script
      /\ old = NoPid => Claim(w, old).ip = NoIP /\ ~Claim(w, old).owned
      /\ old # NoPid => Claim(w, old).ip = proc[old].ip /\ Claim(w, old).owned = proc[old].owned
  BY <1>4, ClaimIs
<1>6. old # w /\ NoPid \notin PID
  BY <1>5, ConstAssumption DEF ConstAssumption
<1>7. /\ r[1] \in Proc
      /\ r[1].sid = wk[w].sid /\ r[1].active /\ r[1].named
      /\ \/ r[1].ip = Claim(w, old).ip /\ r[1].owned = Claim(w, old).owned
         \/ Claim(w, old).ip = NoIP /\ r[1].owned /\ r[1].ip \in IP \ Leased
      /\ r[1].st \in {"DROP", "FAILED", "COMPLETED"}
      /\ r[1].st = "COMPLETED" \/ r[1].script => check_multiple_users(w, old)
      /\ r[1].script => r[1].st = "FAILED" /\ r[2] = wk[w].phase
      /\ r[2] \in {wk[w].phase, "done", "complete"}
  BY <1>5, AcceptResult
<1>8. ASSUME NEW p \in Proc
      PROVE  /\ Robbed(p) \in Proc /\ Robbed(p).killed /\ ~Robbed(p).owned /\ Robbed(p).ip = p.ip
             /\ Robbed(p).st = p.st /\ Robbed(p).sid = p.sid /\ Robbed(p).active = p.active
             /\ Robbed(p).named = p.named /\ Robbed(p).script = p.script
  BY DEF Robbed, Proc
<1>9. ASSUME NEW x \in Worker, NEW ph \in {"wait", "done", "complete"}, NEW y, y = [x EXCEPT !.phase = ph]
      PROVE  y \in Worker /\ y.phase = ph /\ y.sid = x.sid
  BY <1>9 DEF Worker
<1>10. /\ proc'[w] = r[1] /\ \A v \in PID : v # w /\ v # old => proc'[v] = proc[v]
       /\ old # NoPid => proc'[old] = Robbed(proc[old])
       /\ proc' \in [PID -> Proc]
  BY <1>1, <1>3, <1>5, <1>6, <1>7, <1>8
<1>11. /\ wk'[w].phase = r[2] /\ wk'[w].sid = wk[w].sid
       /\ \A v \in PID : v # w => wk'[v].phase = wk[v].phase /\ wk'[v].sid = wk[v].sid
       /\ wk' \in [PID -> Worker]
  <2>1. r[2] \in {"wait", "done", "complete"}
    BY <1>4, <1>7
  <2>2. /\ wk'[w] = [wk[w] EXCEPT !.phase = r[2]]
        /\ \A v \in PID : v # w => wk'[v] = IF v = old THEN Signal(wk[v]) ELSE wk[v]
    BY <1>3
  <2>3. wk'[w] \in Worker /\ wk'[w].phase = r[2] /\ wk'[w].sid = wk[w].sid
    BY <1>1, <1>9, <2>1, <2>2
  <2>4. \A v \in PID : v # w => wk'[v] \in Worker /\ wk'[v].phase = wk[v].phase /\ wk'[v].sid = wk[v].sid
    BY <1>1, <2>2, SignalKeeps
  <2>5. wk' \in [PID -> Worker]
    BY <1>3, <2>3, <2>4
  <2> QED
    BY <2>3, <2>4, <2>5
<1>12. \/ ~proc'[w].owned
       \/ proc'[w].owned /\ proc'[w].ip \in IP \ Leased
       \/ old # NoPid /\ proc[old].owned /\ proc'[w].ip = proc[old].ip
  BY <1>5, <1>7, <1>10
<1>13. old # NoPid => /\ proc'[old].killed /\ ~proc'[old].owned /\ proc'[old].ip = proc[old].ip
                      /\ proc'[old].st = proc[old].st /\ proc'[old].sid = proc[old].sid
                      /\ proc'[old].active = proc[old].active /\ proc'[old].named = proc[old].named
                      /\ proc'[old].script = proc[old].script /\ proc[old].active
  BY <1>1, <1>5, <1>8, <1>10
<1>14. /\ proc'[w].sid = wk[w].sid /\ proc'[w].active /\ proc'[w].named /\ wk[w].sid \in SID
       /\ proc'[w].st \in {"DROP", "FAILED", "COMPLETED"}
       /\ (proc'[w].st = "COMPLETED" \/ proc'[w].script) => check_multiple_users(w, old)
       /\ proc'[w].script => proc'[w].st = "FAILED" /\ wk'[w].phase = "wait"
  BY <1>4, <1>5, <1>7, <1>10, <1>11
<1> old \in PID \cup {NoPid}
  BY <1>5
<1> WITNESS old \in PID \cup {NoPid}
<1> QED
  BY <1>4, <1>6, <1>10, <1>11, <1>12, <1>13, <1>14 DEF OpenedBy

\* A session that is opened keeps the limit and the leases.
LEMMA OpenedKeeps == ASSUME SInv, NEW w \in PID, CookieOpened(w) PROVE SInv'
<1>1. PICK old \in PID \cup {NoPid} : OpenedBy(w, old)
  BY OpenedStep
<1>2. NoPid \notin PID /\ MaxSame \in Nat /\ IsFiniteSet(PID)
  BY ConstAssumption, SessionsAssumption DEF ConstAssumption, SessionsAssumption
<1>3. \A v \in PID : ProcOK(proc[v], wk[v])
  BY DEF SInv, ProcsOK
<1>4. ProcTypes'
  BY <1>1 DEF OpenedBy, SInv, ProcTypes
<1>5. ProcsOK'
  <2> SUFFICES ASSUME NEW v \in PID PROVE ProcOK(proc'[v], wk'[v])
    BY DEF ProcsOK, ProcOK
  <2>1. CASE v = w
    BY <1>1, <2>1 DEF OpenedBy, ProcOK
  <2>2. CASE v = old
    BY <1>1, <1>2, <1>3, <2>2 DEF OpenedBy, ProcOK
  <2>3. CASE v # w /\ v # old
    BY <1>1, <1>3, <2>3 DEF OpenedBy, ProcOK
  <2> QED
    BY <2>1, <2>2, <2>3
<1>6. LeasesDistinct'
  <2>1. \A v \in PID : v # w /\ proc'[v].owned => v # old /\ proc[v].owned /\ proc'[v].ip = proc[v].ip
    BY <1>1, <1>2 DEF OpenedBy
  <2>2. \A v \in PID : v # w /\ proc'[v].owned /\ proc'[w].owned => proc'[v].ip # proc'[w].ip
    BY <1>1, <2>1 DEF OpenedBy, SInv, LeasesDistinct, Leased
  <2>3. \A u, v \in PID : u # w /\ v # w /\ u # v /\ proc'[u].owned /\ proc'[v].owned => proc'[u].ip # proc'[v].ip
    BY <2>1 DEF SInv, LeasesDistinct
  <2> QED
    BY <2>2, <2>3 DEF LeasesDistinct
<1>7. SameClientsBound'
  <2> DEFINE Others == {v \in PID \ {w, old} : Exists(v) /\ ~proc[v].killed /\ proc[v].named}
  <2>1. \A v \in PID : v # w /\ v \in Accepted' => v \in Others /\ v \in Accepted
    <3> SUFFICES ASSUME NEW v \in PID, v # w, v \in Accepted' PROVE v \in Others /\ v \in Accepted
      OBVIOUS
    <3>1. v # old
      BY <1>1, <1>2 DEF OpenedBy, Accepted
    <3>2. proc'[v] = proc[v]
      BY <1>1, <3>1 DEF OpenedBy
    <3>3. (proc[v].st = "COMPLETED" \/ proc[v].script) /\ ~proc[v].killed
      BY <3>2 DEF Accepted
    <3> QED
      BY <1>3, <3>1, <3>3 DEF ProcOK, Exists, Accepted
  <2>2. IsFiniteSet(Others) /\ IsFiniteSet(Accepted)
    BY <1>2, FS_Subset DEF Accepted
  <2>3. Cardinality(Others) \in Nat /\ Cardinality(Accepted) \in Nat
    BY <2>2, FS_CardinalityType
  <2>4. CASE w \in Accepted'
    <3>1. Accepted' \subseteq Others \cup {w}
      BY <2>1 DEF Accepted
    <3>2. IsFiniteSet(Others \cup {w}) /\ Cardinality(Others \cup {w}) = Cardinality(Others) + 1
      <4>1. w \notin Others
        OBVIOUS
      <4> QED
        BY <2>2, <4>1, FS_AddElement, ZenonT(60)
    <3>3. Cardinality(Accepted') <= Cardinality(Others) + 1 /\ Cardinality(Accepted') \in Nat
      BY <3>1, <3>2, FS_Subset, FS_CardinalityType
    <3>4. MaxSame = 0 \/ 1 + Cardinality(Others) <= MaxSame
      BY <1>1, <2>4 DEF OpenedBy, check_multiple_users, Accepted
    <3> QED
      BY <1>2, <2>3, <3>3, <3>4 DEF SameClientsBound, Accepted
  <2>5. CASE w \notin Accepted'
    <3>1. Accepted' \subseteq Accepted
      BY <2>1, <2>5 DEF Accepted
    <3>2. Cardinality(Accepted') <= Cardinality(Accepted) /\ Cardinality(Accepted') \in Nat
      BY <2>2, <3>1, FS_Subset, FS_CardinalityType
    <3> QED
      BY <1>2, <2>3, <3>2 DEF SInv, SameClientsBound, Accepted
  <2> QED
    BY <2>4, <2>5
<1> QED
  BY <1>4, <1>5, <1>6, <1>7 DEF SInv

\* The invariant holds in every state of the server.
LEMMA Inductive == Spec => []SInv
<1>1. Init => SInv
  <2> SUFFICES ASSUME Init PROVE SInv
    OBVIOUS
  <2> DEFINE n == NewProc("NONE")
             x == [run |-> "dead", phase |-> "new", sid |-> NoSid]
  <2>1. n \in Proc /\ n.st = "NONE" /\ ~n.active /\ ~n.owned /\ ~n.script /\ n.ip = NoIP
    BY NewProcOK
  <2>2. x \in Worker /\ x.phase = "new"
    BY DEF Worker
  <2>3. proc = [w \in PID |-> n] /\ wk = [w \in PID |-> x] /\ mail = {}
    BY DEF Init
  <2> HIDE DEF n, x
  <2>4. ProcTypes /\ ProcsOK /\ LeasesDistinct
    BY <2>1, <2>2, <2>3 DEF ProcTypes, ProcsOK, ProcOK, LeasesDistinct
  <2>5. Accepted = {}
    BY <2>1, <2>3 DEF Accepted
  <2>6. SameClientsBound
    BY <2>5, FS_EmptySet, SessionsAssumption DEF SameClientsBound, Accepted, SessionsAssumption
  <2> QED
    BY <2>4, <2>6 DEF SInv
<1>2. SInv /\ [Next]_vars => SInv'
  <2> SUFFICES ASSUME SInv, [Next]_vars PROVE SInv'
    OBVIOUS
  <2>1. CASE \E w \in PID : WorkerNext(w)
    BY <2>1, WorkerSteps
  <2>2. ASSUME NEW w \in PID, MainNext(w) PROVE SInv'
    <3>1. CASE WorkerGone(w)
      BY <3>1, RemoveProcKeeps DEF WorkerGone
    <3>2. CASE Drop(w)
      BY <3>2, RemoveProcKeeps DEF Drop
    <3>3. CASE AuthTimeout(w)
      BY <3>3, RemoveProcKeeps DEF AuthTimeout
    <3> QED
      BY <2>2, <3>1, <3>2, <3>3, ForkKeeps, RefusedKeeps, OpenedKeeps, ScriptKeeps DEF MainNext
  <2>3. CASE Disconnect
    <3>1. PICK W \in SUBSET PID : disconnect_procs(W)
      BY <2>3 DEF Disconnect, Named
    <3> QED
      BY <2>3, <3>1, DisconnectKeeps DEF Disconnect
  <2>4. CASE proc' = proc /\ wk' = wk /\ mail' = mail
    BY <2>4 DEF SInv, ProcTypes, ProcsOK, ProcOK, LeasesDistinct, SameClientsBound
  <2>5. CASE TerminateSessions
    <3>1. CASE \E W \in SUBSET PID : disconnect_procs(W)
      BY <2>5, <3>1, DisconnectKeeps DEF TerminateSessions
    <3>2. CASE UNCHANGED <<proc, wk>>
      BY <2>4, <2>5, <3>2 DEF TerminateSessions
    <3> QED
      BY <2>5, <3>1, <3>2 DEF TerminateSessions, Named
  <2>6. CASE SecModStep \/ UNCHANGED vars
    BY <2>4, <2>6 DEF SecModStep, sessVars, vars
  <2> QED
    BY <2>1, <2>2, <2>3, <2>5, <2>6 DEF Next
<1> QED
  BY <1>1, <1>2, PTL DEF Spec

\* max-same-clients holds for any number of workers, whatever their scripts, signals
\* and replacements (main-auth.c:212).
THEOREM SameClientsAreBounded == Spec => []SameClientsBound
BY Inductive, PTL DEF SInv

\* An address is in the lease table for one proc only (ip-lease.c:105, 577).
THEOREM LeasesAreDistinct == Spec => []LeasesDistinct
BY Inductive, PTL DEF SInv
-----------------------------------------------------------------------------
(* Types of the whole server. *)

\* Whatever main and the workers do, sec-mod's database keeps its types.
LEMMA DatabaseTypes == ASSUME SInv, DbTypeOK, [Next]_vars PROVE DbTypeOK'
<1>1. CASE UNCHANGED dbVars
  BY <1>1 DEF dbVars, DbTypeOK
<1>2. \A w \in PID : ProcOK(proc[w], wk[w]) /\ proc[w].inval \in BOOLEAN
  BY DEF SInv, ProcTypes, ProcsOK, Proc
<1>3. "NONE" \in Reason
  BY DEF Reason
<1>4. ASSUME NEW w \in PID, WorkerNext(w) PROVE DbTypeOK'
  <2>1. CASE WorkerAuthInit(w)
    <3>1. CASE AuthInitReject(w)
      BY <3>1 DEF AuthInitReject, find_client_entry_by_pid, Score, DbTypeOK
    <3> QED
      BY <2>1, <3>1, InitNewTypes DEF WorkerAuthInit
  <2>2. CASE WorkerAuthCont(w)
    <3>1. wk[w].sid \in SID
      BY <1>2, <2>2 DEF WorkerAuthCont, ProcOK
    <3> QED
      BY <1>1, <1>3, <2>2, <3>1, WorkerTypes DEF WorkerAuthCont
  <2>3. ASSUME NEW s \in SID, StatsArrive(w, s) PROVE DbTypeOK'
    BY <1>1, <1>3, <2>3, WorkerTypes DEF StatsArrive
  <2>4. ASSUME NEW r \in Reason, WorkerReport(w, r) PROVE DbTypeOK'
    <3>1. wk[w].sid \in SID
      BY <1>2, <2>4 DEF WorkerReport, ProcOK
    <3> QED
      BY <1>1, <2>4, <3>1, WorkerTypes DEF WorkerReport
  <2> QED
    BY <1>1, <1>4, <2>1, <2>2, <2>3, <2>4 DEF WorkerNext, WorkerCookie, WorkerStats, WorkerExit
<1>5. ASSUME NEW w \in PID, MainNext(w) PROVE DbTypeOK'
  <2>1. CASE CookieRefused(w) \/ CookieOpened(w)
    <3>1. wk[w].sid \in SID
      BY <1>2, <2>1 DEF CookieRefused, CookieOpened, ProcOK
    <3>2. \/ UNCHANGED dbVars
          \/ OpenDenied(wk[w].sid) \/ OpenNoConfig(wk[w].sid) \/ OpenGranted(wk[w].sid)
      BY <2>1 DEF CookieRefused, CookieOpened
    <3> QED
      BY <1>1, <3>1, <3>2, MainTypes
  <2>2. ASSUME NEW kill \in BOOLEAN, remove_proc(w, kill) PROVE DbTypeOK'
    <3>1. CASE proc[w].active
      <4>1. proc[w].sid \in SID /\ SessionClose(proc[w].sid, proc[w].inval)
        BY <1>2, <2>2, <3>1 DEF ProcOK, remove_proc
      <4> QED
        BY <1>2, <4>1, MainTypes
    <3>2. CASE ~proc[w].active
      BY <1>1, <2>2, <3>2 DEF remove_proc
    <3> QED
      BY <3>1, <3>2
  <2>3. CASE WorkerGone(w) \/ Drop(w) \/ AuthTimeout(w)
    BY <2>2, <2>3 DEF WorkerGone, Drop, AuthTimeout
  <2> QED
    BY <1>1, <1>5, <2>1, <2>3 DEF MainNext, Fork, ScriptExit
<1>6. ASSUME NEW S \in SUBSET SID, TerminateLive(S) PROVE DbTypeOK'
  <2>1. CASE S = {}
    BY <1>1, <1>6, <2>1 DEF TerminateLive
  <2>2. CASE S # {}
    <3>1. PICK s \in SID : s \in S
      BY <2>2
    <3> QED
      BY <1>6, <2>2, <3>1, OwnTypes DEF TerminateLive
  <2> QED
    BY <2>1, <2>2
<1>7. CASE TerminateSessions
  <2>1. CASE TerminateLive({s \in SID : Live(s)})
    BY <1>6, <2>1
  <2>2. ASSUME NEW v \in PID, TerminateLive({s \in SID : Live(s) /\ s = proc[v].sid}) PROVE DbTypeOK'
    <3>1. {s \in SID : Live(s) /\ s = proc[v].sid} \in SUBSET SID
      OBVIOUS
    <3> QED
      BY <1>6, <2>2, <3>1
  <2>3. ASSUME NEW s \in SID, Terminate({s}) PROVE DbTypeOK'
    <3>1. TerminateLive({s})
      BY <2>3 DEF TerminateLive
    <3> QED
      BY <1>6, <3>1
  <2> QED
    BY <1>7, <2>1, <2>2, <2>3 DEF TerminateSessions
<1>8. CASE SecModStep
  <2>1. ASSUME NEW s \in SID, NEW banned \in BOOLEAN, BanIpReply(s) \/ MainBanIp(s, banned)
        PROVE  DbTypeOK'
    BY <2>1, OwnTypes
  <2>2. CASE Cleanup \/ Tick
    <3>1. PICK s \in SID : db[s].ttl > 0 \/ Live(s)
      BY <2>2 DEF Cleanup, Tick
    <3>2. {s} \in SUBSET SID /\ TRUE \in BOOLEAN
      OBVIOUS
    <3> QED
      BY <2>2, <3>1, <3>2, OwnTypes
  <2> QED
    BY <1>8, <2>1, <2>2 DEF SecModStep
<1> QED
  BY <1>1, <1>4, <1>5, <1>7, <1>8 DEF Next, Disconnect, vars, dbVars

\* The procs, the workers, the statistics under way and sec-mod's database keep their
\* types under the real main and the real workers.
THEOREM SessionsTypeCorrect == Spec => []TypeOK
<1> DEFINE Typed == DbTypeOK /\ forks \in 0..MaxForks
<1>1. Init => Typed
  <2> SUFFICES ASSUME Init PROVE Typed
    OBVIOUS
  <2>1. DbTypeOK
    BY NewEntryType DEF Init, DbInit, DbTypeOK
  <2> QED
    BY <2>1, SessionsAssumption DEF Init, SessionsAssumption
<1>2. SInv /\ Typed /\ [Next]_vars => Typed'
  <2> SUFFICES ASSUME SInv, Typed, [Next]_vars PROVE Typed'
    OBVIOUS
  <2>1. DbTypeOK'
    BY DatabaseTypes
  <2>2. forks' = forks \/ \E w \in PID : Fork(w)
    <3>1. \A w \in PID : WorkerNext(w) => forks' = forks
      BY DEF WorkerNext, WorkerAuthInit, WorkerAuthCont, WorkerCookie, StatsArrive,
             WorkerStats, WorkerReport, WorkerExit
    <3>2. \A w \in PID : CookieRefused(w) \/ CookieOpened(w) => forks' = forks
      BY DEF CookieRefused, CookieOpened
    <3>3. \A w \in PID : (\E zero \in BOOLEAN : ScriptExit(w, zero)) => forks' = forks
      BY DEF ScriptExit
    <3>4. \A w \in PID : WorkerGone(w) \/ Drop(w) \/ AuthTimeout(w) => forks' = forks
      BY DEF WorkerGone, Drop, AuthTimeout
    <3>5. Disconnect \/ TerminateSessions \/ SecModStep \/ UNCHANGED vars => forks' = forks
      BY DEF Disconnect, TerminateSessions, SecModStep, sessVars, vars
    <3>6. CASE UNCHANGED vars
      BY <3>5, <3>6
    <3>7. CASE Disconnect \/ TerminateSessions \/ SecModStep
      BY <3>5, <3>7
    <3>8. CASE \E w \in PID : WorkerNext(w) \/ MainNext(w)
      BY <3>1, <3>2, <3>3, <3>4, <3>8, Zenon DEF MainNext
    <3> QED
      BY <3>6, <3>7, <3>8 DEF Next
  <2>3. forks' \in 0..MaxForks
    <3>1. forks' = forks \/ (forks < MaxForks /\ forks' = forks + 1)
      BY <2>2 DEF Fork
    <3> QED
      BY <3>1, SessionsAssumption DEF SessionsAssumption
  <2> QED
    BY <2>1, <2>3
<1>3. SInv /\ Typed => TypeOK
  BY DEF SInv, ProcTypes, TypeOK
<1> HIDE DEF Typed
<1> QED
  BY <1>1, <1>2, <1>3, Inductive, PTL DEF Spec
-----------------------------------------------------------------------------
(* Sessions implements SecMod. *)

\* The handlers of sec-mod that module SecMod instantiates are the ones of SecModDb.
LEMMA SameHandlers ==
  /\ \A w, s, old : AuthInitNew(w, s, old) => SM!AuthInitNew(w, s, old)
  /\ \A w : AuthInitReject(w) => SM!AuthInitReject(w)
  /\ \A s : AuthCont(s) => SM!AuthCont(s)
  /\ \A w, s, r : CliStats(w, s, r) => SM!CliStats(w, s, r)
  /\ \A s : OpenDenied(s) => SM!OpenDenied(s)
  /\ \A s : OpenNoConfig(s) => SM!OpenNoConfig(s)
  /\ \A s : OpenGranted(s) => SM!OpenGranted(s)
  /\ \A s, b : SessionClose(s, b) => SM!SessionClose(s, b)
  /\ \A S : Terminate(S) => SM!Terminate(S)
  /\ \A s, b : MainBanIp(s, b) => SM!MainBanIp(s, b)
  /\ \A s : BanIpReply(s) => SM!BanIpReply(s)
  /\ Cleanup => SM!Cleanup
  /\ Tick => SM!Tick
  /\ DbInit => SM!DbInit
<1>1. \A w, s, old : AuthInitNew(w, s, old) => SM!AuthInitNew(w, s, old)
  BY Zenon DEF AuthInitNew, SM!AuthInitNew, find_client_entry_by_pid,
     SM!find_client_entry_by_pid, Live, SM!Live, AuthStatus, SM!AuthStatus,
     handle_sec_auth_res, SM!handle_sec_auth_res, Score, SM!Score, new_client_entry,
     SM!new_client_entry, FullTtl, SM!FullTtl, NoEntry, SM!NoEntry, StopsAfter,
     SM!StopsAfter
<1>2. \A w : AuthInitReject(w) => SM!AuthInitReject(w)
  BY Zenon DEF AuthInitReject, SM!AuthInitReject, find_client_entry_by_pid,
     SM!find_client_entry_by_pid, Live, SM!Live, AuthStatus, SM!AuthStatus, Score, SM!Score
<1>3. \A s : AuthCont(s) => SM!AuthCont(s)
  BY Zenon DEF AuthCont, SM!AuthCont, Live, SM!Live, AuthStatus, SM!AuthStatus,
     handle_sec_auth_res, SM!handle_sec_auth_res, Score, SM!Score
<1>4. \A w, s, r : CliStats(w, s, r) => SM!CliStats(w, s, r)
  BY Zenon DEF CliStats, SM!CliStats
<1>5. \A s : OpenDenied(s) => SM!OpenDenied(s)
  BY Zenon DEF OpenDenied, SM!OpenDenied, Expired, SM!Expired
<1>6. \A s : OpenNoConfig(s) => SM!OpenNoConfig(s)
  BY Zenon DEF OpenNoConfig, SM!OpenNoConfig, MayOpen, SM!MayOpen, Expired, SM!Expired,
     StartOnce, SM!StartOnce
<1>7. \A s : OpenGranted(s) => SM!OpenGranted(s)
  BY Zenon DEF OpenGranted, SM!OpenGranted, MayOpen, SM!MayOpen, Expired, SM!Expired,
     StartOnce, SM!StartOnce, FullTtl, SM!FullTtl
<1>8. \A s, b : SessionClose(s, b) => SM!SessionClose(s, b)
  BY DEF SessionClose, SM!SessionClose, expire_client_entry, SM!expire_client_entry,
     NoEntry, SM!NoEntry, FullTtl, SM!FullTtl, StopsAfter, SM!StopsAfter
<1>9. \A S : Terminate(S) => SM!Terminate(S)
  BY Zenon DEF Terminate, SM!Terminate, Live, SM!Live, AuthStatus, SM!AuthStatus,
     del_client_entries, SM!del_client_entries, NoEntry, SM!NoEntry, StopsAfter,
     SM!StopsAfter
<1>10. \A s, b : MainBanIp(s, b) => SM!MainBanIp(s, b)
  BY Zenon DEF MainBanIp, SM!MainBanIp
<1>11. \A s : BanIpReply(s) => SM!BanIpReply(s)
  BY Zenon DEF BanIpReply, SM!BanIpReply, Live, SM!Live, AuthStatus, SM!AuthStatus
<1>12. Cleanup => SM!Cleanup
  BY Zenon DEF Cleanup, SM!Cleanup, Live, SM!Live, AuthStatus, SM!AuthStatus, Expired,
     SM!Expired, del_client_entries, SM!del_client_entries, NoEntry, SM!NoEntry, StopsAfter,
     SM!StopsAfter
<1>13. Tick => SM!Tick
  BY Zenon DEF Tick, SM!Tick
<1>14. DbInit => SM!DbInit
  BY Zenon DEF DbInit, SM!DbInit, NoEntry, SM!NoEntry
<1> QED
  BY <1>1, <1>2, <1>3, <1>4, <1>5, <1>6, <1>7, <1>8, <1>9, <1>10, <1>11, <1>12, <1>13, <1>14

\* Steps that give no proc a session and take none leave what main holds.
LEMMA HeldSame ==
  ASSUME \A v \in PID : proc'[v].active = proc[v].active /\ (proc[v].active => proc'[v].sid = proc[v].sid)
  PROVE  Held' = Held
<1>1. \A s \in SID : OfSid(s)' = OfSid(s)
  BY DEF OfSid
<1> QED
  BY <1>1 DEF Held

\* A proc that gets a session adds one to its SID.
LEMMA HeldAdd ==
  ASSUME NEW w \in PID, NEW s \in SID, ~proc[w].active, proc'[w].active, proc'[w].sid = s,
         \A v \in PID : v # w => proc'[v].active = proc[v].active /\ proc'[v].sid = proc[v].sid
  PROVE  Held' = [Held EXCEPT ![s] = @ + 1]
<1>1. \A t \in SID : t # s => OfSid(t)' = OfSid(t)
  BY DEF OfSid
<1>2. OfSid(s)' = OfSid(s) \cup {w} /\ w \notin OfSid(s)
  BY DEF OfSid
<1>3. IsFiniteSet(OfSid(s))
  BY FS_Subset, SessionsAssumption DEF SessionsAssumption, OfSid
<1>4. Cardinality(OfSid(s)') = Cardinality(OfSid(s)) + 1
  BY <1>2, <1>3, FS_AddElement
<1> QED
  BY <1>1, <1>4 DEF Held

\* A proc that goes takes its session along.
LEMMA HeldDrop ==
  ASSUME NEW w \in PID, NEW s \in SID, proc[w].active, proc[w].sid = s, ~proc'[w].active,
         \A v \in PID : v # w => proc'[v] = proc[v]
  PROVE  Held[s] > 0 /\ Held' = [Held EXCEPT ![s] = @ - 1]
<1>1. \A t \in SID : t # s => OfSid(t)' = OfSid(t)
  BY DEF OfSid
<1>2. OfSid(s)' = OfSid(s) \ {w} /\ w \in OfSid(s)
  BY DEF OfSid
<1>3. IsFiniteSet(OfSid(s))
  BY FS_Subset, SessionsAssumption DEF SessionsAssumption, OfSid
<1>4. Cardinality(OfSid(s)') = Cardinality(OfSid(s)) - 1
  BY <1>2, <1>3, FS_RemoveElement
<1>5. Cardinality(OfSid(s)) \in Nat /\ Cardinality(OfSid(s)) # 0
  BY <1>2, <1>3, FS_CardinalityType, FS_EmptySet
<1>6. Held[s] > 0
  BY <1>5 DEF Held
<1>7. Held' = [Held EXCEPT ![s] = @ - 1]
  BY <1>1, <1>4 DEF Held
<1> QED
  BY <1>6, <1>7

\* A worker's step is a step of some worker of SecMod, or sec-mod does not see it.
LEMMA WorkerRefines ==
  ASSUME SInv, NEW w \in PID, WorkerNext(w)
  PROVE  [SM!Next]_(SM!vars)
<1>1. ProcOK(proc[w], wk[w])
  BY DEF SInv, ProcsOK
<1>2. Held' = Held
  <2>1. proc' = proc
    BY DEF WorkerNext, WorkerAuthInit, WorkerAuthCont, WorkerCookie, StatsArrive, WorkerStats, WorkerReport, WorkerExit
  <2> QED
    BY <2>1, HeldSame
<1>3. CASE UNCHANGED dbVars
  BY <1>2, <1>3 DEF dbVars, SM!vars
<1>4. ASSUME NEW s \in SID, AuthCont(s) PROVE SM!Next
  BY <1>2, <1>4, SameHandlers DEF SM!Next, SM!WorkerStep
<1>5. ASSUME NEW s \in SID, NEW r \in Reason, CliStats(w, s, r) PROVE SM!Next
  <2>1. r \in SM!Reason
    BY DEF Reason, SM!Reason
  <2>2. SM!CliStats(w, s, r)
    BY <1>5, SameHandlers
  <2> QED
    BY <1>2, <2>1, <2>2 DEF SM!Next, SM!WorkerStep
<1>6. CASE WorkerAuthInit(w)
  <2>1. CASE AuthInitReject(w)
    BY <1>2, <2>1, SameHandlers DEF SM!Next, SM!WorkerStep
  <2>2. CASE \E s \in SID, old \in SUBSET SID : AuthInitNew(w, s, old)
    <3>1. PICK s \in SID, old \in SUBSET SID : AuthInitNew(w, s, old)
      BY <2>2
    <3>2. SM!AuthInitNew(w, s, old)
      BY <3>1, SameHandlers
    <3> QED
      BY <1>2, <3>2 DEF SM!Next, SM!WorkerStep
  <2> QED
    BY <1>6, <2>1, <2>2 DEF WorkerAuthInit
<1>7. CASE WorkerAuthCont(w)
  BY <1>1, <1>3, <1>4, <1>7 DEF WorkerAuthCont, ProcOK
<1>8. ASSUME NEW s \in SID, StatsArrive(w, s) PROVE [SM!Next]_(SM!vars)
  <2>1. "NONE" \in Reason
    BY DEF Reason
  <2> QED
    BY <1>3, <1>5, <1>8, <2>1 DEF StatsArrive
<1>9. ASSUME NEW r \in Reason, WorkerReport(w, r) PROVE [SM!Next]_(SM!vars)
  <2>1. wk[w].sid \in SID
    BY <1>1, <1>9 DEF WorkerReport, ProcOK
  <2> QED
    BY <1>3, <1>5, <1>9, <2>1 DEF WorkerReport
<1> QED
  BY <1>3, <1>6, <1>7, <1>8, <1>9 DEF WorkerNext, WorkerCookie, WorkerStats, WorkerExit

\* The cookie request is SESSION_OPEN: a session of main if the proc gets it, none if
\* main or sec-mod refuses.
LEMMA OpenedRefines == ASSUME SInv, NEW w \in PID, CookieOpened(w) PROVE SM!Next
<1>1. ~proc[w].active
  BY DEF SInv, ProcsOK, ProcOK, CookieOpened
<1>2. /\ wk[w].sid \in SID /\ proc'[w].active /\ proc'[w].sid = wk[w].sid
      /\ \A v \in PID : v # w => proc'[v].active = proc[v].active /\ proc'[v].sid = proc[v].sid
  <2>1. PICK old \in PID \cup {NoPid} : OpenedBy(w, old)
    BY OpenedStep
  <2>2. NoPid \notin PID
    BY ConstAssumption DEF ConstAssumption
  <2> QED
    BY <2>1, <2>2 DEF OpenedBy
<1>3. Held' = [Held EXCEPT ![wk[w].sid] = @ + 1]
  BY <1>1, <1>2, HeldAdd
<1>4. SM!OpenGranted(wk[w].sid)
  BY SameHandlers DEF CookieOpened
<1>5. SM!Open(wk[w].sid)
  BY <1>3, <1>4 DEF SM!Open
<1> QED
  BY <1>2, <1>5 DEF SM!Next

\* A refused request: sec-mod's refusal, main's own, or a grant that main drops.
LEMMA RefusedRefines == ASSUME SInv, NEW w \in PID, CookieRefused(w) PROVE [SM!Next]_(SM!vars)
<1>1. wk[w].sid \in SID /\ proc \in [PID -> Proc]
  BY DEF SInv, ProcTypes, ProcsOK, ProcOK, CookieRefused
<1>2. Held' = Held
  <2>1. PICK r \in handle_script_exit(w, FALSE), named \in BOOLEAN :
          proc' = [proc EXCEPT ![w].st = r[1], ![w].named = named]
    BY DEF CookieRefused
  <2>2. \A v \in PID : proc'[v].active = proc[v].active /\ proc'[v].sid = proc[v].sid
    BY <1>1, <2>1 DEF Proc
  <2> QED
    BY <2>2, HeldSame
<1>3. \/ UNCHANGED dbVars
      \/ DenyRoaming /\ OpenGranted(wk[w].sid)
      \/ OpenDenied(wk[w].sid) \/ OpenNoConfig(wk[w].sid)
  BY DEF CookieRefused
<1>4. CASE UNCHANGED dbVars
  BY <1>2, <1>4 DEF dbVars, SM!vars
<1>5. CASE ~UNCHANGED dbVars
  <2>1. SM!Open(wk[w].sid)
    BY <1>2, <1>3, <1>5, SameHandlers DEF SM!Open
  <2> QED
    BY <1>1, <2>1 DEF SM!Next
<1> QED
  BY <1>4, <1>5

\* The removal of a proc is one SESSION_CLOSE for the session it has, and nothing to
\* sec-mod when it has none.
LEMMA RemoveRefines ==
  ASSUME SInv, NEW w \in PID, NEW kill \in BOOLEAN, remove_proc(w, kill)
  PROVE  [SM!Next]_(SM!vars)
<1>1. proc \in [PID -> Proc] /\ ProcOK(proc[w], wk[w]) /\ proc[w].inval \in BOOLEAN
  BY DEF SInv, ProcTypes, ProcsOK, Proc
<1>2. proc'[w].active = FALSE /\ \A v \in PID : v # w => proc'[v] = proc[v]
  BY <1>1 DEF remove_proc, NewProc
<1>3. CASE proc[w].active
  <2>1. proc[w].sid \in SID
    BY <1>1, <1>3 DEF ProcOK
  <2>2. Held[proc[w].sid] > 0 /\ Held' = [Held EXCEPT ![proc[w].sid] = @ - 1]
    BY <1>2, <1>3, <2>1, HeldDrop
  <2>3. SM!SessionClose(proc[w].sid, proc[w].inval)
    BY <1>3, SameHandlers DEF remove_proc
  <2>4. SM!Close(proc[w].sid)
    BY <1>1, <2>2, <2>3 DEF SM!Close
  <2> QED
    BY <2>1, <2>4 DEF SM!Next
<1>4. CASE ~proc[w].active
  <2>1. UNCHANGED dbVars
    BY <1>4 DEF remove_proc
  <2>2. Held' = Held
    <3>1. proc[w].active = FALSE
      BY <1>1, <1>4 DEF Proc
    <3> QED
      BY <1>2, <3>1, HeldSame, ZenonT(60)
  <2> QED
    BY <2>1, <2>2 DEF dbVars, SM!vars
<1> QED
  BY <1>3, <1>4

\* disconnect_proc marks and signals; main keeps its sessions.
LEMMA DisconnectHeld == ASSUME SInv, NEW W \in SUBSET PID, disconnect_procs(W) PROVE Held' = Held
<1>1. proc \in [PID -> Proc]
  BY DEF SInv, ProcTypes
<1>2. \A v \in PID : proc'[v].active = proc[v].active /\ proc'[v].sid = proc[v].sid
  BY <1>1 DEF disconnect_procs, Proc
<1> QED
  BY <1>2, HeldSame

\* Main and the workers use sec-mod as module SecMod assumes: every session main holds is
\* one sec-mod granted, and leaves it through exactly one SESSION_CLOSE.
THEOREM SessionsImplementSecMod == Spec => ImplementsSecMod
<1>1. Init => SM!Init
  <2> SUFFICES ASSUME Init PROVE SM!Init
    OBVIOUS
  <2>1. \A s \in SID : OfSid(s) = {}
    BY NewProcOK DEF Init, OfSid
  <2>2. Held = [s \in SID |-> 0]
    BY <2>1, FS_EmptySet DEF Held
  <2> QED
    BY <2>2, SameHandlers DEF Init, SM!Init
<1>2. SInv /\ [Next]_vars => [SM!Next]_(SM!vars)
  <2> SUFFICES ASSUME SInv, [Next]_vars PROVE [SM!Next]_(SM!vars)
    OBVIOUS
  <2>1. ASSUME UNCHANGED dbVars, Held' = Held PROVE [SM!Next]_(SM!vars)
    BY <2>1 DEF dbVars, SM!vars
  <2>2. ASSUME proc' = proc PROVE Held' = Held
    BY <2>2, HeldSame
  <2>3. ASSUME NEW S \in SUBSET SID, TerminateLive(S), Held' = Held PROVE [SM!Next]_(SM!vars)
    <3>1. CASE S = {}
      BY <2>1, <2>3, <3>1 DEF TerminateLive
    <3>2. CASE S # {}
      <4>1. SM!Terminate(S)
        BY <2>3, <3>2, SameHandlers DEF TerminateLive
      <4> QED
        BY <2>3, <4>1 DEF SM!Next
    <3> QED
      BY <3>1, <3>2
  <2>4. ASSUME NEW w \in PID, MainNext(w) PROVE [SM!Next]_(SM!vars)
    <3>1. CASE Fork(w)
      <4>1. proc \in [PID -> Proc] /\ proc[w].active = FALSE
        BY <3>1 DEF SInv, ProcTypes, ProcsOK, ProcOK, Fork, Exists, Proc
      <4>2. \A v \in PID : proc'[v].active = proc[v].active /\ (proc[v].active => proc'[v].sid = proc[v].sid)
        BY <3>1, <4>1 DEF Fork, NewProc
      <4> QED
        BY <2>1, <3>1, <4>2, HeldSame DEF Fork
    <3>2. CASE \E zero \in BOOLEAN : ScriptExit(w, zero)
      <4>1. PICK zero \in BOOLEAN : \E r : proc' = [proc EXCEPT ![w].script = FALSE, ![w].st = r[1]]
        BY <3>2 DEF ScriptExit
      <4>2. proc \in [PID -> Proc]
        BY DEF SInv, ProcTypes
      <4>3. \A v \in PID : proc'[v].active = proc[v].active /\ proc'[v].sid = proc[v].sid
        BY <4>1, <4>2 DEF Proc
      <4> QED
        BY <2>1, <3>2, <4>3, HeldSame DEF ScriptExit
    <3>3. CASE WorkerGone(w) \/ Drop(w) \/ AuthTimeout(w)
      BY <3>3, RemoveRefines DEF WorkerGone, Drop, AuthTimeout
    <3> QED
      BY <2>4, <3>1, <3>2, <3>3, OpenedRefines, RefusedRefines DEF MainNext
  <2>5. CASE Disconnect
    <3>1. PICK W \in SUBSET PID : disconnect_procs(W)
      BY <2>5 DEF Disconnect, Named
    <3> QED
      BY <2>1, <2>5, <3>1, DisconnectHeld DEF Disconnect
  <2>6. CASE TerminateSessions
    <3>1. CASE disconnect_procs(Named) /\ TerminateLive({s \in SID : Live(s)})
      BY <2>3, <3>1, DisconnectHeld DEF Named
    <3>2. ASSUME NEW v \in PID, disconnect_procs({v}),
                 TerminateLive({s \in SID : Live(s) /\ s = proc[v].sid})
          PROVE  [SM!Next]_(SM!vars)
      <4>1. Held' = Held
        BY <3>2, DisconnectHeld
      <4>2. {s \in SID : Live(s) /\ s = proc[v].sid} \in SUBSET SID
        OBVIOUS
      <4> QED
        BY <2>3, <3>2, <4>1, <4>2
    <3>3. CASE (\E s \in SID : Terminate({s})) /\ UNCHANGED <<proc, wk>>
      <4>1. PICK s \in SID : Terminate({s})
        BY <3>3
      <4>2. TerminateLive({s})
        BY <4>1 DEF TerminateLive
      <4> QED
        BY <2>2, <2>3, <3>3, <4>2
    <3> QED
      BY <2>6, <3>1, <3>2, <3>3 DEF TerminateSessions
  <2>7. CASE SecModStep
    <3>1. Held' = Held
      BY <2>2, <2>7 DEF SecModStep, sessVars
    <3>2. CASE \E s \in SID : BanIpReply(s)
      BY <3>1, <3>2, SameHandlers DEF SM!Next, SM!AsyncStep
    <3>3. CASE \E s \in SID, banned \in BOOLEAN : MainBanIp(s, banned)
      BY <3>1, <3>3, SameHandlers DEF SM!Next, SM!AsyncStep
    <3>4. CASE Cleanup \/ Tick
      BY <3>1, <3>4, SameHandlers DEF SM!Next
    <3> QED
      BY <2>7, <3>2, <3>3, <3>4 DEF SecModStep
  <2>8. CASE UNCHANGED vars
    BY <2>1, <2>2, <2>8 DEF vars, dbVars
  <2> QED
    BY <2>4, <2>5, <2>6, <2>7, <2>8, WorkerRefines DEF Next
<1> QED
  BY <1>1, <1>2, Inductive, PTL DEF Spec, ImplementsSecMod, SM!Spec
=============================================================================
