---------------------------- MODULE TunnelProofs ----------------------------
(***************************************************************************)
(* The tunnel of a worker (Tunnel): its two DTLS sessions, its watchers and *)
(* its timeouts, for any set of timeouts and however messages, handovers    *)
(* and timer ticks interleave.  The invariant has three parts: the times    *)
(* stay within their limits while the worker runs; each session slot holds  *)
(* its own socket, and a slot that is used has a session; and a reader that *)
(* stopped is due to be resumed.                                            *)
(***************************************************************************)
EXTENDS Tunnel, TLAPS

Slots == 0..1
Session == [st : {"DISABLED", "WAIT_FD", "HANDSHAKE", "ACTIVE", "INACTIVE"}, sess : BOOLEAN,
            fd : Fds \cup {NoFd}, io : BOOLEAN, iofd : Fds \cup {NoFd}]
AgeKeys == {"tcp", "udp", "nc", "recv", "start"}

-----------------------------------------------------------------------------
(* Timeouts.                                                                *)

KeptBy(a) ==
  /\ a \in [AgeKeys -> Nat]
  /\ cfg.idle > 0 => a.nc <= cfg.idle
  /\ cfg.session > 0 => a.start <= cfg.session
  /\ cfg.dpd > 0 => a.tcp <= DPD_MAX_TRIES * cfg.dpd

TimeInv == cfg \in Timeouts /\ age \in [AgeKeys -> Nat] /\ (Running => KeptBy(age))

\* Resetting a time keeps every limit.
LEMMA ResetKeeps ==
  ASSUME cfg \in Timeouts, NEW a, KeptBy(a), NEW b \in [AgeKeys -> Nat],
         \A k \in AgeKeys : b[k] = a[k] \/ b[k] = 0
  PROVE  KeptBy(b)
BY TunnelAssumption DEF TunnelAssumption, KeptBy, AgeKeys, DPD_MAX_TRIES

\* A check that finds no timeout leaves every time within its limit.
LEMMA NoTimeout ==
  ASSUME cfg \in Timeouts, age \in [AgeKeys -> Nat], Timeout(Older) = "NONE"
  PROVE  KeptBy(Older)
<1>1. Older \in [AgeKeys -> Nat]
  <2>1. DOMAIN age = AgeKeys
    OBVIOUS
  <2>2. \A k \in AgeKeys : Older[k] = age[k] \/ Older[k] = age[k] + 1
    BY <2>1 DEF Older
  <2>3. Older = [k \in AgeKeys |-> Older[k]]
    BY <2>1 DEF Older
  <2>4. ASSUME NEW k \in AgeKeys
        PROVE  Older[k] \in Nat
    <3>1. age[k] \in Nat
      OBVIOUS
    <3>2. age[k] + 1 \in Nat
      BY <3>1
    <3> QED
      BY <2>2, <3>1, <3>2, Zenon
  <2> HIDE DEF Older
  <2> QED
    BY <2>3, <2>4
<1>2. cfg.idle \in Nat /\ cfg.session \in Nat /\ cfg.dpd \in Nat
  BY TunnelAssumption DEF TunnelAssumption
<1> DEFINE a == Older
<1>3. a.nc \in Nat /\ a.start \in Nat /\ a.tcp \in Nat
  BY <1>1 DEF AgeKeys
<1>4. Timeout(a) = "NONE"
  OBVIOUS
<1> HIDE DEF a
<1>5. /\ ~(cfg.idle > 0 /\ a.nc > cfg.idle) /\ ~(cfg.session > 0 /\ a.start > cfg.session)
      /\ ~(cfg.dpd > 0 /\ a.tcp > DPD_MAX_TRIES * cfg.dpd)
  <2> DEFINE I == cfg.idle > 0 /\ a.nc > cfg.idle
             S == cfg.session > 0 /\ a.start > cfg.session
             D == cfg.dpd > 0 /\ a.tcp > DPD_MAX_TRIES * cfg.dpd
  <2>1. (IF I THEN "IDLE_TIMEOUT" ELSE IF S THEN "SESSION_TIMEOUT" ELSE IF D THEN "DPD_TIMEOUT" ELSE "NONE") = "NONE"
    BY <1>4 DEF Timeout
  <2> HIDE DEF I, S, D
  <2>2. ~I /\ ~S /\ ~D
    BY <2>1
  <2> QED
    BY <2>2 DEF I, S, D
<1>6. KeptBy(a)
  <2>1. a \in [AgeKeys -> Nat]
    BY <1>1 DEF a
  <2>2. cfg.idle > 0 => a.nc <= cfg.idle
    BY <1>2, <1>3, <1>5
  <2>3. cfg.session > 0 => a.start <= cfg.session
    BY <1>2, <1>3, <1>5
  <2>4. cfg.dpd > 0 => a.tcp <= DPD_MAX_TRIES * cfg.dpd
    BY <1>2, <1>3, <1>5 DEF DPD_MAX_TRIES
  <2> QED
    BY <2>1, <2>2, <2>3, <2>4, Zenon DEF KeptBy
<1> QED
  BY <1>6 DEF a

\* One record of the TLS channel resets times only.
LEMMA RecordTime ==
  ASSUME cfg \in Timeouts, age \in [AgeKeys -> Nat], NEW kind, NEW full, NEW more, NEW ds,
         NEW a, KeptBy(a), TlsRecord(kind, full, more, a, ds)
  PROVE  /\ cfg' = cfg
         /\ KeptBy(age') \/ age' = age
<1>1. CASE age' = [a EXCEPT !.tcp = 0, !.nc = 0] /\ cfg' = cfg
  <2>1. age' \in [AgeKeys -> Nat] /\ \A k \in AgeKeys : age'[k] = a[k] \/ age'[k] = 0
    BY <1>1 DEF KeptBy
  <2> QED
    BY <1>1, <2>1, ResetKeeps
<1>2. CASE age' = [a EXCEPT !.tcp = 0] /\ cfg' = cfg
  <2>1. age' \in [AgeKeys -> Nat] /\ \A k \in AgeKeys : age'[k] = a[k] \/ age'[k] = 0
    BY <1>2 DEF KeptBy
  <2> QED
    BY <1>2, <2>1, ResetKeeps
<1>3. CASE age' = age /\ cfg' = cfg
  BY <1>3
<1> QED
  BY <1>1, <1>2, <1>3 DEF TlsRecord, exit_worker_reason

\* Every step of the worker keeps TimeInv.
LEMMA TimeStep == ASSUME TimeInv, [TnNext]_tnvars PROVE TimeInv'
<1>0. cfg \in Timeouts /\ age \in [AgeKeys -> Nat] /\ DOMAIN age = AgeKeys
  BY DEF TimeInv
<1>1. ASSUME cfg' = cfg, age' = age, Running' => Running
      PROVE  TimeInv'
  BY <1>1 DEF TimeInv, KeptBy
<1>2. ASSUME cfg' = cfg, KeptBy(age')
      PROVE  TimeInv'
  BY <1>0, <1>2 DEF TimeInv, KeptBy
<1>3. ASSUME Running, NEW ks, age' = Heard(ks), cfg' = cfg
      PROVE  TimeInv'
  <2>1. age' \in [AgeKeys -> Nat] /\ \A k \in AgeKeys : age'[k] = age[k] \/ age'[k] = 0
    BY <1>0, <1>3 DEF Heard
  <2> QED
    BY <1>0, <1>2, <1>3, <2>1, ResetKeeps DEF TimeInv
<1>4. ASSUME Running, NEW r, exit_worker_reason(r)
      PROVE  TimeInv'
  BY <1>1, <1>4 DEF exit_worker_reason
<1>5. ASSUME NEW f \in Fds, CmdUdpHello(f) \/ CmdUdpRoam(f)
      PROVE  TimeInv'
  BY <1>3, <1>4, <1>5 DEF CmdUdpHello, CmdUdpRoam
<1>6. CASE CmdEnds \/ TunRead \/ TunDrain
  BY <1>1, <1>3, <1>4, <1>6 DEF CmdEnds, TunRead, TunDrain, Running
<1>7. ASSUME NEW i \in 0..1, DtlsHandshake(i)
      PROVE  TimeInv'
  BY <1>1, <1>7 DEF DtlsHandshake, TunnelNoAge, Running
<1>8. ASSUME NEW i \in 0..1, NEW kind, NEW full, DtlsRead(i, kind, full)
      PROVE  TimeInv'
  BY <1>3, <1>4, <1>8 DEF DtlsRead, Readable
<1>9. ASSUME NEW kind, NEW full, NEW more, TlsRead(kind, full, more)
      PROVE  TimeInv'
  <2>1. Running /\ KeptBy(age) /\ TlsRecord(kind, full, more, age, dtls)
    BY <1>9 DEF TlsRead, TimeInv
  <2>2. cfg' = cfg /\ (KeptBy(age') \/ age' = age)
    BY <1>0, <2>1, RecordTime
  <2> QED
    BY <1>1, <1>2, <2>1, <2>2
<1>10. CASE Periodic
  <2>1. CASE Timeout(Older) # "NONE"
    BY <1>4, <1>10, <2>1 DEF Periodic
  <2>2. CASE Timeout(Older) = "NONE"
    <3>1. KeptBy(Older)
      BY <1>0, <2>2, NoTimeout
    <3>2. ASSUME NEW kind, NEW full, TlsRecord(kind, full, FALSE, Older, DpdUdp(Older))
          PROVE  TimeInv'
      <4>1. cfg' = cfg /\ (KeptBy(age') \/ age' = age)
        BY <1>0, <3>1, <3>2, RecordTime
      <4> QED
        BY <1>1, <1>2, <1>10, <4>1 DEF Periodic
    <3>3. ASSUME age' = Older, cfg' = cfg
          PROVE  TimeInv'
      BY <1>2, <3>1, <3>3
    <3> QED
      BY <1>10, <2>2, <3>2, <3>3 DEF Periodic
  <2> QED
    BY <2>1, <2>2
<1>11. CASE UNCHANGED tnvars
  BY <1>1, <1>11 DEF tnvars, Running
<1> QED
  BY <1>5, <1>6, <1>7, <1>8, <1>9, <1>10, <1>11 DEF TnNext

-----------------------------------------------------------------------------
(* Sockets.  Only the slot that is not active may be in its handshake, and a *)
(* session that can be read exists.                                         *)

FdTypes == act \in Slots /\ dtls \in [Slots -> Session] /\ openfd \in SUBSET Fds

FdInv ==
  /\ FdTypes /\ SocketsExact
  /\ dtls[act].st # "HANDSHAKE"
  /\ \A i \in Slots : Usable(dtls[i]) => dtls[i].sess

\* A session keeps its socket, may lose its watcher, and gets it back only if usable.
SameSession(d, e) ==
  /\ e.fd = d.fd /\ e.sess = d.sess /\ (Usable(e) <=> Usable(d))
  /\ e.io => d.io \/ Usable(d)

\* The other slot of two.
LEMMA TwoSlots ==
  /\ Slots = {0, 1} /\ 0 \in Slots /\ 1 \in Slots
  /\ \A i \in Slots : 1 - i \in Slots /\ 1 - i # i /\ 1 - (1 - i) = i /\ \A j \in Slots : j = i \/ j = 1 - i
BY DEF Slots

\* What SocketsExact says of a slot and the other one.
LEMMA SocketsOfTwo ==
  ASSUME NEW i \in Slots
  PROVE  SocketsExact <=>
           /\ openfd = {dtls[i].fd, dtls[1 - i].fd} \ {NoFd}
           /\ dtls[i].fd # dtls[1 - i].fd \/ dtls[i].fd = NoFd
           /\ \A j \in Slots : (~Usable(dtls[j]) => ~dtls[j].io) /\ (dtls[j].io => dtls[j].sess)
<1>1. {dtls[j].fd : j \in 0..1} = {dtls[i].fd, dtls[1 - i].fd}
  BY TwoSlots DEF Slots
<1>2. i = 0 \/ i = 1
  BY TwoSlots
<1>3. (dtls[0].fd # dtls[1].fd \/ dtls[0].fd = NoFd) <=> (dtls[i].fd # dtls[1 - i].fd \/ dtls[i].fd = NoFd)
  BY <1>2
<1> QED
  BY <1>1, <1>3 DEF SocketsExact, Slots

\* A stopped session keeps only the memory of its watcher's socket.
LEMMA StopType ==
  ASSUME NEW d \in Session
  PROVE  /\ dtls_stop(d) \in Session /\ dtls_stop(d).fd = NoFd /\ dtls_stop(d).io = FALSE
         /\ dtls_stop(d).st = "DISABLED" /\ dtls_stop(d).sess = FALSE
<1>1. Stopped \in Session /\ Stopped.fd = NoFd /\ Stopped.io = FALSE /\ Stopped.st = "DISABLED" /\ Stopped.sess = FALSE
  BY DEF Stopped, Session
<1> HIDE DEF Stopped
<1>2. d.iofd \in Fds \cup {NoFd}
  BY DEF Session
<1> QED
  BY <1>1, <1>2 DEF dtls_stop, Session

\* Steps that touch no socket.
LEMMA FdFrame ==
  ASSUME FdInv, UNCHANGED <<act, openfd>>, dtls' \in [Slots -> Session],
         dtls'[act].st # "HANDSHAKE", \A i \in Slots : SameSession(dtls[i], dtls'[i])
  PROVE  FdInv'
<1>1. 0 \in Slots /\ act \in Slots
  BY TwoSlots DEF FdInv, FdTypes
<1>2. /\ openfd' = {dtls'[0].fd, dtls'[1 - 0].fd} \ {NoFd}
      /\ dtls'[0].fd # dtls'[1 - 0].fd \/ dtls'[0].fd = NoFd
      /\ \A j \in Slots : (~Usable(dtls[j]) => ~dtls[j].io) /\ (dtls[j].io => dtls[j].sess)
  BY <1>1, TwoSlots, SocketsOfTwo DEF FdInv, SameSession
<1>3. \A j \in Slots : (~Usable(dtls'[j]) => ~dtls'[j].io) /\ (dtls'[j].io => dtls'[j].sess)
  BY <1>2 DEF FdInv, SameSession
<1>4. SocketsExact'
  BY <1>1, <1>2, <1>3, TwoSlots DEF SocketsExact, Slots
<1> QED
  BY <1>1, <1>4 DEF FdInv, FdTypes, SameSession

\* The socket of slot i is replaced by a new one or closed; another slot may become
\* the active one.
LEMMA FdReplace ==
  ASSUME FdInv, NEW i \in Slots, NEW f \in Fds \cup {NoFd}, f \notin openfd,
         dtls' \in [Slots -> Session], act' \in Slots, dtls'[act'].st # "HANDSHAKE",
         dtls'[i].fd = f, SameSession(dtls[1 - i], dtls'[1 - i]),
         Usable(dtls'[i]) => dtls'[i].sess, dtls'[i].io => Usable(dtls'[i]) /\ dtls'[i].sess,
         openfd' = (CloseOf(dtls[i]) \cup {f}) \ {NoFd}
  PROVE  FdInv'
<1>0. i \in Slots /\ 1 - i \in Slots /\ 1 - i # i /\ \A j \in Slots : j = i \/ j = 1 - i
  BY TwoSlots
<1>1. /\ openfd = {dtls[i].fd, dtls[1 - i].fd} \ {NoFd}
      /\ dtls[i].fd # dtls[1 - i].fd \/ dtls[i].fd = NoFd
      /\ \A j \in Slots : (~Usable(dtls[j]) => ~dtls[j].io) /\ (dtls[j].io => dtls[j].sess)
  BY SocketsOfTwo DEF FdInv
<1>2. dtls'[1 - i].fd = dtls[1 - i].fd
  BY DEF SameSession
<1>3. openfd' = {dtls'[i].fd, dtls'[1 - i].fd} \ {NoFd}
  BY <1>1, <1>2 DEF CloseOf
<1>4. dtls'[i].fd # dtls'[1 - i].fd \/ dtls'[i].fd = NoFd
  BY <1>1, <1>2
<1>5. \A j \in Slots : (~Usable(dtls'[j]) => ~dtls'[j].io) /\ (dtls'[j].io => dtls'[j].sess)
                        /\ (Usable(dtls'[j]) => dtls'[j].sess)
  BY <1>0, <1>1 DEF FdInv, SameSession
<1>6. {dtls'[j].fd : j \in 0..1} = {dtls'[i].fd, dtls'[1 - i].fd}
  BY TwoSlots DEF Slots
<1>7. dtls'[0].fd # dtls'[1].fd \/ dtls'[0].fd = NoFd
  <2>1. i = 0 \/ i = 1
    BY TwoSlots
  <2> QED
    BY <1>4, <2>1
<1>8. SocketsExact'
  BY <1>3, <1>5, <1>6, <1>7 DEF SocketsExact, Slots
<1>9. openfd' \in SUBSET Fds
  BY <1>0, <1>2, <1>3 DEF FdInv, FdTypes, Session
<1> QED
  BY <1>5, <1>8, <1>9 DEF FdInv, FdTypes

\* parse_cstp_data's switch to the TLS channel changes no session otherwise.
LEMMA LeaveKeeps ==
  ASSUME act \in Slots, NEW ds \in [Slots -> Session], ds[act].st # "HANDSHAKE"
  PROVE  /\ LeaveUdp(ds) \in [Slots -> Session] /\ LeaveUdp(ds)[act].st # "HANDSHAKE"
         /\ \A i \in Slots : SameSession(ds[i], LeaveUdp(ds)[i]) /\ LeaveUdp(ds)[i].io = ds[i].io
<1>1. CASE ds[act].st = "ACTIVE"
  <2> DEFINE e == [ds EXCEPT ![act].st = "INACTIVE"]
  <2>1. /\ e \in [Slots -> Session] /\ \A i \in Slots : i # act => e[i] = ds[i]
        /\ e[act].st = "INACTIVE" /\ e[act].fd = ds[act].fd /\ e[act].sess = ds[act].sess /\ e[act].io = ds[act].io
    BY DEF Session
  <2>2. LeaveUdp(ds) = e
    BY <1>1 DEF LeaveUdp
  <2> HIDE DEF e
  <2> QED
    BY <1>1, <2>1, <2>2 DEF SameSession, Usable
<1>2. CASE ds[act].st # "ACTIVE"
  BY <1>2 DEF LeaveUdp, SameSession
<1> QED
  BY <1>1, <1>2

\* A packet for the TUN device may pause the active session.
LEMMA EnqueueKeepsFds ==
  ASSUME FdInv, NEW ds \in [Slots -> Session], ds[act].st # "HANDSHAKE",
         \A i \in Slots : SameSession(dtls[i], ds[i]), NEW full, tun_enqueue_write(ds, full),
         UNCHANGED <<act, openfd>>
  PROVE  FdInv'
<1>0. act \in Slots
  BY DEF FdInv, FdTypes
<1>1. CASE dtls' = ds
  BY <1>0, <1>1, FdFrame
<1>2. CASE dtls' = [ds EXCEPT ![act].io = FALSE]
  <2>1. /\ dtls' \in [Slots -> Session] /\ \A i \in Slots : i # act => dtls'[i] = ds[i]
        /\ dtls'[act].st = ds[act].st /\ dtls'[act].fd = ds[act].fd /\ dtls'[act].sess = ds[act].sess
        /\ dtls'[act].io = FALSE
    BY <1>0, <1>2 DEF Session
  <2>2. \A i \in Slots : SameSession(dtls[i], dtls'[i])
    BY <2>1 DEF SameSession, Usable
  <2> QED
    BY <2>1, <2>2, FdFrame
<1> QED
  BY <1>1, <1>2 DEF tun_enqueue_write

\* Closing the socket of slot i: dtls_stop.
LEMMA StopKeepsFds ==
  ASSUME FdInv, NEW i \in Slots, dtls' \in [Slots -> Session], act' \in Slots,
         dtls'[i] = dtls_stop(dtls[i]), SameSession(dtls[1 - i], dtls'[1 - i]),
         dtls'[act'].st # "HANDSHAKE", openfd' = CloseOf(dtls[i])
  PROVE  FdInv'
<1>1. dtls[i] \in Session
  BY DEF FdInv, FdTypes
<1>2. dtls'[i].fd = NoFd /\ dtls'[i].io = FALSE /\ ~Usable(dtls'[i])
  BY <1>1, StopType DEF Usable
<1>3. openfd' = (CloseOf(dtls[i]) \cup {NoFd}) \ {NoFd} /\ NoFd \notin openfd
  BY TunnelAssumption DEF TunnelAssumption, CloseOf, FdInv, FdTypes
<1> QED
  BY <1>2, <1>3, FdReplace

\* A ClientHello gives the inactive slot a new socket.
LEMMA HelloKeepsFds ==
  ASSUME FdInv, NEW f \in Fds \ openfd, StartSession(f), act' = act
  PROVE  FdInv'
<1> DEFINE i == 1 - act
<1>0. act \in Slots /\ i \in Slots /\ i # act /\ 1 - i = act
  BY TwoSlots DEF FdInv, FdTypes
<1>1. setup_dtls_connection(f) \in Session
  BY DEF setup_dtls_connection, Session
<1>2. dtls' \in [Slots -> Session] /\ dtls'[i] = setup_dtls_connection(f) /\ dtls'[act] = dtls[act]
  BY <1>0, <1>1 DEF StartSession, FdInv, FdTypes
<1>3. dtls'[i].fd = f /\ dtls'[i].sess = TRUE /\ dtls'[i].st = "HANDSHAKE"
  BY <1>2 DEF setup_dtls_connection
<1>4. openfd' = (CloseOf(dtls[i]) \cup {f}) \ {NoFd}
  BY TunnelAssumption DEF TunnelAssumption, StartSession, CloseOf, FdInv, FdTypes
<1> HIDE DEF i
<1>5. SameSession(dtls[1 - i], dtls'[1 - i])
  BY <1>0, <1>2 DEF SameSession
<1>6. dtls'[act'].st # "HANDSHAKE" /\ act' \in Slots
  BY <1>0, <1>2 DEF FdInv
<1> QED
  BY <1>0, <1>2, <1>3, <1>4, <1>5, <1>6, FdReplace DEF Usable

\* Roaming moves the active session to a new socket.
LEMMA RoamKeepsFds ==
  ASSUME FdInv, NEW f \in Fds, CmdUdpRoam(f)
  PROVE  FdInv'
<1>0. act \in Slots /\ 1 - act \in Slots /\ 1 - act # act /\ dtls \in [Slots -> Session] /\ f \notin openfd
  BY TwoSlots DEF FdInv, FdTypes, CmdUdpRoam
<1>1. dtls' = [dtls EXCEPT ![act] = [dtls[act] EXCEPT !.fd = f]]
  BY <1>0 DEF CmdUdpRoam
<1>2. /\ dtls' \in [Slots -> Session] /\ dtls'[act].fd = f /\ dtls'[act].st = dtls[act].st
      /\ dtls'[act].io = dtls[act].io /\ dtls'[act].sess = dtls[act].sess /\ dtls'[1 - act] = dtls[1 - act]
  BY <1>0, <1>1 DEF Session
<1>3. openfd' = (CloseOf(dtls[act]) \cup {f}) \ {NoFd} /\ act' = act
  BY TunnelAssumption DEF TunnelAssumption, CmdUdpRoam, CloseOf, FdInv, FdTypes
<1>4. SameSession(dtls[1 - act], dtls'[1 - act])
  BY <1>2 DEF SameSession
<1>5. dtls'[act'].st # "HANDSHAKE"
  BY <1>2, <1>3 DEF FdInv
<1>6. /\ Usable(dtls'[act]) => dtls'[act].sess
      /\ dtls'[act].io => Usable(dtls'[act]) /\ dtls'[act].sess
  BY <1>0, <1>2, SocketsOfTwo DEF FdInv, Usable
<1> QED
  BY <1>0, <1>2, <1>3, <1>4, <1>5, <1>6, FdReplace

-----------------------------------------------------------------------------
(* Readers.                                                                 *)

ReadInv ==
  /\ tun_pending \in BOOLEAN /\ write_on \in BOOLEAN /\ tls_on \in BOOLEAN
  /\ ReadersResume

\* Steps that leave the slot for the TUN device alone: a session that is usable
\* afterwards is watched, or is as it was.
LEMMA ReadFrame ==
  ASSUME ReadInv, Running, UNCHANGED <<tls_on, tun_pending, write_on>>,
         Usable(dtls'[act']) => \/ dtls'[act'].io
                                \/ Usable(dtls[act]) /\ dtls'[act'].io = dtls[act].io
  PROVE  ReadInv'
BY DEF ReadInv, ReadersResume

\* A packet for the TUN device pauses the readers only when it has to wait.
LEMMA EnqueueKeepsReaders ==
  ASSUME ReadInv, Running, NEW ds, NEW full \in BOOLEAN, tun_enqueue_write(ds, full), act' = act,
         Usable(ds[act]) => Usable(dtls[act]) /\ ds[act].io = dtls[act].io
  PROVE  ReadInv'
<1>1. CASE full = TRUE
  <2>1. tun_pending' = TRUE /\ write_on' = TRUE /\ tls_on' = FALSE
    BY <1>1, Zenon DEF tun_enqueue_write, ReadInv
  <2> QED
    BY <2>1 DEF ReadInv, ReadersResume
<1>2. CASE full = FALSE
  <2>1. tun_pending' = tun_pending /\ write_on' = write_on /\ tls_on' = tls_on /\ dtls' = ds
    BY <1>2 DEF tun_enqueue_write, ReadInv
  <2> QED
    BY <2>1, ReadFrame
<1> QED
  BY <1>1, <1>2

-----------------------------------------------------------------------------
ChannelInv == FdInv /\ ReadInv

\* The process exits, and nothing else changes.
LEMMA ExitKeepsChannels ==
  ASSUME ChannelInv, Running, NEW r, exit_worker_reason(r)
  PROVE  ChannelInv'
<1>1. UNCHANGED <<act, dtls, openfd, tls_on, tun_pending, write_on>>
  BY DEF exit_worker_reason
<1> QED
  BY <1>1 DEF ChannelInv, FdInv, FdTypes, SocketsExact, ReadInv, ReadersResume

\* A record of the TLS channel, read with the sessions ds.
LEMMA RecordKeepsChannels ==
  ASSUME ChannelInv, Running, NEW kind, NEW full \in BOOLEAN, NEW more, NEW a,
         NEW ds \in [Slots -> Session], ds[act].st # "HANDSHAKE",
         \A i \in Slots : SameSession(dtls[i], ds[i]) /\ ds[i].io = dtls[i].io,
         TlsRecord(kind, full, more, a, ds)
  PROVE  ChannelInv'
<1>0. act \in Slots /\ FdInv /\ ReadInv
  BY DEF ChannelInv, FdInv, FdTypes
<1>1. CASE tun_enqueue_write(LeaveUdp(ds), full) /\ UNCHANGED <<act, openfd>>
  <2> DEFINE e == LeaveUdp(ds)
  <2>1. /\ e \in [Slots -> Session] /\ e[act].st # "HANDSHAKE"
        /\ \A i \in Slots : SameSession(ds[i], e[i]) /\ e[i].io = ds[i].io
    BY <1>0, LeaveKeeps
  <2>2. tun_enqueue_write(e, full)
    BY <1>1
  <2> HIDE DEF e
  <2>3. \A i \in Slots : SameSession(dtls[i], e[i]) /\ e[i].io = dtls[i].io
    BY <2>1 DEF SameSession
  <2>4. FdInv'
    BY <1>0, <1>1, <2>1, <2>2, <2>3, EnqueueKeepsFds
  <2>5. ReadInv'
    BY <1>0, <1>1, <2>2, <2>3, EnqueueKeepsReaders DEF SameSession
  <2> QED
    BY <2>4, <2>5 DEF ChannelInv
<1>2. CASE dtls' = ds /\ UNCHANGED <<act, openfd, tls_on, tun_pending, write_on>>
  <2>1. FdInv'
    BY <1>0, <1>2, FdFrame
  <2>2. ReadInv'
    BY <1>0, <1>2, ReadFrame DEF SameSession
  <2> QED
    BY <2>1, <2>2 DEF ChannelInv
<1>3. ASSUME NEW r, exit_worker_reason(r)
      PROVE  ChannelInv'
  BY <1>3, ExitKeepsChannels
<1> QED
  BY <1>1, <1>2, <1>3 DEF TlsRecord

\* Giving up the DTLS channel changes no session otherwise.
LEMMA LeaveDtls ==
  ASSUME FdInv, NEW ds, ds = dtls \/ ds = LeaveUdp(dtls)
  PROVE  /\ ds \in [Slots -> Session] /\ ds[act].st # "HANDSHAKE"
         /\ \A i \in Slots : SameSession(dtls[i], ds[i]) /\ ds[i].io = dtls[i].io
<1>1. act \in Slots /\ dtls \in [Slots -> Session] /\ dtls[act].st # "HANDSHAKE"
  BY DEF FdInv, FdTypes
<1>2. CASE ds = dtls
  BY <1>1, <1>2 DEF SameSession
<1>3. CASE ds = LeaveUdp(dtls)
  BY <1>1, <1>3, LeaveKeeps
<1> QED
  BY <1>2, <1>3

\* A step that only gives up the DTLS channel.
LEMMA LeavingKeepsChannels ==
  ASSUME ChannelInv, Running, dtls' = dtls \/ dtls' = LeaveUdp(dtls),
         UNCHANGED <<act, openfd, tls_on, tun_pending, write_on>>
  PROVE  ChannelInv'
<1>0. act \in Slots /\ FdInv /\ ReadInv
  BY DEF ChannelInv, FdInv, FdTypes
<1>1. /\ dtls' \in [Slots -> Session] /\ dtls'[act].st # "HANDSHAKE"
      /\ \A i \in Slots : SameSession(dtls[i], dtls'[i]) /\ dtls'[i].io = dtls[i].io
  BY <1>0, LeaveDtls
<1>2. FdInv'
  BY <1>0, <1>1, FdFrame
<1>3. ReadInv'
  BY <1>0, <1>1, ReadFrame DEF SameSession
<1> QED
  BY <1>2, <1>3 DEF ChannelInv

\* dtls_mainloop ends session i.
LEMMA StopKeepsChannels ==
  ASSUME ChannelInv, Running, NEW i \in Slots, dtls' = [dtls EXCEPT ![i] = dtls_stop(@)],
         openfd' = CloseOf(dtls[i]), UNCHANGED <<act, tls_on, tun_pending, write_on>>
  PROVE  ChannelInv'
<1>0. act \in Slots /\ FdInv /\ ReadInv /\ dtls \in [Slots -> Session] /\ 1 - i \in Slots /\ 1 - i # i
  BY TwoSlots DEF ChannelInv, FdInv, FdTypes
<1>1. dtls_stop(dtls[i]) \in Session /\ dtls_stop(dtls[i]).st = "DISABLED"
  BY <1>0, StopType
<1>2. dtls' \in [Slots -> Session] /\ dtls'[i] = dtls_stop(dtls[i]) /\ \A j \in Slots : j # i => dtls'[j] = dtls[j]
  BY <1>0, <1>1
<1>3. SameSession(dtls[1 - i], dtls'[1 - i])
  BY <1>0, <1>2 DEF SameSession
<1>4. dtls'[act'].st # "HANDSHAKE"
  BY <1>0, <1>1, <1>2 DEF FdInv
<1>5. FdInv'
  BY <1>0, <1>2, <1>3, <1>4, StopKeepsFds
<1>6. Usable(dtls'[act']) => Usable(dtls[act]) /\ dtls'[act'].io = dtls[act].io
  BY <1>0, <1>1, <1>2 DEF Usable
<1>7. ReadInv'
  BY <1>0, <1>6, ReadFrame
<1> QED
  BY <1>5, <1>7 DEF ChannelInv

\* The new session takes over from the active one.
LEMMA HandshakeKeepsChannels ==
  ASSUME ChannelInv, NEW i \in Slots, DtlsHandshake(i)
  PROVE  ChannelInv'
<1>0. /\ act \in Slots /\ FdInv /\ ReadInv /\ dtls \in [Slots -> Session] /\ Running
      /\ dtls[i].st = "HANDSHAKE" /\ dtls[i].io
      /\ UNCHANGED <<tls_on, tun_pending, write_on>>
  BY DEF ChannelInv, FdInv, FdTypes, DtlsHandshake, Readable, SlotSame
<1>1. i = 1 - act /\ act = 1 - i /\ i # act
  BY <1>0, TwoSlots DEF FdInv
<1>2. CASE /\ dtls' = [dtls EXCEPT ![i] = dtls_stop(@)]
           /\ openfd' = CloseOf(dtls[i])
           /\ UNCHANGED act
  BY <1>0, <1>2, StopKeepsChannels
<1>3. CASE /\ act' = 1 - act
           /\ dtls' = [dtls EXCEPT ![i].st = "ACTIVE", ![1 - act'] = dtls_stop(@)]
           /\ openfd' = CloseOf(dtls[1 - act'])
  <2>1. act' = i /\ 1 - act' = act
    BY <1>1, <1>3
  <2>2. dtls_stop(dtls[act]) \in Session
    BY <1>0, StopType
  <2>3. /\ dtls' \in [Slots -> Session] /\ dtls'[act] = dtls_stop(dtls[act])
        /\ dtls'[i].st = "ACTIVE" /\ dtls'[i].fd = dtls[i].fd /\ dtls'[i].sess = dtls[i].sess
        /\ dtls'[i].io = dtls[i].io
    <3> DEFINE n == [dtls[i] EXCEPT !.st = "ACTIVE"]
    <3>1. /\ n \in Session /\ n.st = "ACTIVE" /\ n.fd = dtls[i].fd /\ n.sess = dtls[i].sess
          /\ n.io = dtls[i].io
      BY <1>0 DEF Session
    <3>2. dtls' = [dtls EXCEPT ![i] = n, ![act] = dtls_stop(dtls[act])]
      BY <1>0, <1>1, <1>3, <2>1
    <3> HIDE DEF n
    <3> QED
      BY <1>0, <1>1, <2>2, <3>1, <3>2
  <2>4. SameSession(dtls[1 - act], dtls'[1 - act])
    BY <1>0, <1>1, <2>3 DEF SameSession, Usable
  <2>5. dtls'[act'].st # "HANDSHAKE" /\ dtls'[act'].io
    BY <1>0, <2>1, <2>3
  <2>6. FdInv'
    BY <1>0, <1>3, <2>1, <2>3, <2>4, <2>5, StopKeepsFds
  <2>7. ReadInv'
    BY <1>0, <2>5, ReadFrame
  <2> QED
    BY <2>6, <2>7 DEF ChannelInv
<1> QED
  BY <1>2, <1>3 DEF DtlsHandshake

\* One record of a DTLS session.
LEMMA DtlsReadKeepsChannels ==
  ASSUME ChannelInv, NEW i \in Slots, NEW kind, NEW full \in BOOLEAN, DtlsRead(i, kind, full)
  PROVE  ChannelInv'
<1> DEFINE ds == [dtls EXCEPT ![i].st = "ACTIVE"]
<1>0. /\ act \in Slots /\ FdInv /\ ReadInv /\ dtls \in [Slots -> Session] /\ Running
      /\ dtls[i].st \in {"ACTIVE", "INACTIVE"}
  BY DEF ChannelInv, FdInv, FdTypes, DtlsRead, Readable
<1>1. /\ ds \in [Slots -> Session] /\ \A j \in Slots : j # i => ds[j] = dtls[j]
      /\ ds[i].st = "ACTIVE" /\ ds[i].fd = dtls[i].fd /\ ds[i].sess = dtls[i].sess /\ ds[i].io = dtls[i].io
  BY <1>0 DEF Session
<1>2. \/ tun_enqueue_write(ds, full) /\ UNCHANGED <<act, openfd>>
      \/ dtls' = ds /\ UNCHANGED <<act, openfd, tls_on, tun_pending, write_on>>
      \/ /\ dtls' = [dtls EXCEPT ![i] = dtls_stop(@)] /\ openfd' = CloseOf(dtls[i])
         /\ UNCHANGED <<act, tls_on, tun_pending, write_on>>
      \/ \E r : exit_worker_reason(r)
  BY DEF DtlsRead, SlotSame
<1> HIDE DEF ds
<1>3. ds[act].st # "HANDSHAKE" /\ \A j \in Slots : SameSession(dtls[j], ds[j]) /\ ds[j].io = dtls[j].io
  BY <1>0, <1>1 DEF FdInv, SameSession, Usable
<1>4. CASE tun_enqueue_write(ds, full) /\ UNCHANGED <<act, openfd>>
  <2>1. FdInv'
    BY <1>0, <1>1, <1>3, <1>4, EnqueueKeepsFds
  <2>2. ReadInv'
    BY <1>0, <1>3, <1>4, EnqueueKeepsReaders DEF SameSession
  <2> QED
    BY <2>1, <2>2 DEF ChannelInv
<1>5. CASE dtls' = ds /\ UNCHANGED <<act, openfd, tls_on, tun_pending, write_on>>
  <2>1. FdInv'
    BY <1>0, <1>1, <1>3, <1>5, FdFrame
  <2>2. ReadInv'
    BY <1>0, <1>3, <1>5, ReadFrame DEF SameSession
  <2> QED
    BY <2>1, <2>2 DEF ChannelInv
<1> QED
  BY <1>0, <1>2, <1>4, <1>5, StopKeepsChannels, ExitKeepsChannels

\* tun_write_watcher_cb starts the readers of the session that is active now.
LEMMA DrainKeepsChannels ==
  ASSUME ChannelInv, TunDrain
  PROVE  ChannelInv'
<1>0. /\ act \in Slots /\ FdInv /\ ReadInv /\ dtls \in [Slots -> Session] /\ Running
      /\ dtls' = ResumeReaders /\ UNCHANGED <<act, openfd>>
      /\ tun_pending' = FALSE /\ write_on' = FALSE /\ tls_on' = TRUE
  BY DEF ChannelInv, FdInv, FdTypes, TunDrain
<1>1. CASE ~Usable(dtls[act])
  <2>1. dtls' = dtls
    BY <1>0, <1>1 DEF ResumeReaders
  <2>2. FdInv'
    BY <1>0, <2>1, FdFrame DEF SameSession, FdInv
  <2>3. ReadInv'
    BY <1>0, <1>1, <2>1 DEF ReadInv, ReadersResume
  <2> QED
    BY <2>2, <2>3 DEF ChannelInv
<1>2. CASE Usable(dtls[act])
  <2>1. dtls' = [dtls EXCEPT ![act].io = TRUE]
    BY <1>0, <1>2 DEF ResumeReaders
  <2>2. /\ dtls' \in [Slots -> Session] /\ \A j \in Slots : j # act => dtls'[j] = dtls[j]
        /\ dtls'[act].st = dtls[act].st /\ dtls'[act].fd = dtls[act].fd /\ dtls'[act].sess = dtls[act].sess
        /\ dtls'[act].io = TRUE
    <3>1. [dtls[act] EXCEPT !.io = TRUE] \in Session
      BY <1>0 DEF Session
    <3> QED
      BY <1>0, <2>1, <3>1 DEF Session
  <2>3. dtls'[act].st # "HANDSHAKE" /\ \A j \in Slots : SameSession(dtls[j], dtls'[j])
    BY <1>0, <1>2, <2>2 DEF FdInv, SameSession, Usable
  <2>4. FdInv'
    BY <1>0, <2>2, <2>3, FdFrame
  <2>5. ReadInv'
    BY <1>0, <2>2 DEF ReadInv, ReadersResume
  <2> QED
    BY <2>4, <2>5 DEF ChannelInv
<1> QED
  BY <1>1, <1>2

\* Every step of the worker keeps ChannelInv.
LEMMA ChannelStep == ASSUME ChannelInv, [TnNext]_tnvars PROVE ChannelInv'
<1>0. act \in Slots /\ FdInv /\ ReadInv
  BY DEF ChannelInv, FdInv, FdTypes
<1>1. ASSUME NEW f \in Fds, CmdUdpHello(f)
      PROVE  ChannelInv'
  <2>1. CASE StartSession(f) /\ act' = act /\ SlotSame
    <3>1. FdInv'
      BY <1>0, <1>1, <2>1, HelloKeepsFds DEF CmdUdpHello
    <3>2. dtls'[act'] = dtls[act]
      BY <1>0, <2>1, TwoSlots DEF StartSession, FdInv, FdTypes
    <3>3. ReadInv'
      BY <1>0, <1>1, <2>1, <3>2, ReadFrame DEF CmdUdpHello, SlotSame
    <3> QED
      BY <3>1, <3>3 DEF ChannelInv
  <2> QED
    BY <1>1, <2>1, ExitKeepsChannels DEF CmdUdpHello
<1>2. ASSUME NEW f \in Fds, CmdUdpRoam(f)
      PROVE  ChannelInv'
  <2>1. FdInv'
    BY <1>0, <1>2, RoamKeepsFds
  <2>2. dtls'[act'].st = dtls[act].st /\ dtls'[act'].io = dtls[act].io
    BY <1>0, <1>2 DEF CmdUdpRoam, FdInv, FdTypes, Session
  <2>3. ReadInv'
    BY <1>0, <1>2, <2>2, ReadFrame DEF CmdUdpRoam, SlotSame, Usable
  <2> QED
    BY <2>1, <2>3 DEF ChannelInv
<1>3. CASE CmdEnds
  BY <1>3, ExitKeepsChannels DEF CmdEnds
<1>4. CASE TunRead
  <2>1. CASE /\ dtls' = (IF cfg.switch > 0 /\ age.recv > cfg.switch THEN LeaveUdp(dtls) ELSE dtls)
             /\ UNCHANGED <<act, openfd>> /\ SlotSame
    BY <1>4, <2>1, LeavingKeepsChannels DEF TunRead, SlotSame
  <2> QED
    BY <1>4, <2>1, ExitKeepsChannels DEF TunRead
<1>5. CASE Periodic
  <2> DEFINE ds == DpdUdp(Older)
  <2>1. ds = dtls \/ ds = LeaveUdp(dtls)
    BY DEF DpdUdp
  <2>2. ASSUME NEW kind, NEW full \in BOOLEAN, TlsRecord(kind, full, FALSE, Older, ds)
        PROVE  ChannelInv'
    <3>1. /\ ds \in [Slots -> Session] /\ ds[act].st # "HANDSHAKE"
          /\ \A i \in Slots : SameSession(dtls[i], ds[i]) /\ ds[i].io = dtls[i].io
      BY <1>0, <2>1, LeaveDtls
    <3> HIDE DEF ds
    <3> QED
      BY <1>5, <2>2, <3>1, RecordKeepsChannels DEF Periodic
  <2>3. CASE dtls' = ds /\ UNCHANGED <<act, openfd>> /\ SlotSame
    BY <1>5, <2>1, <2>3, LeavingKeepsChannels DEF Periodic, SlotSame
  <2> HIDE DEF ds
  <2>4. \/ exit_worker_reason(Timeout(Older))
        \/ \E kind \in {"data", "control"}, full \in BOOLEAN : TlsRecord(kind, full, FALSE, Older, ds)
        \/ dtls' = ds /\ UNCHANGED <<act, openfd>> /\ SlotSame
    BY <1>5 DEF Periodic, ds
  <2> QED
    BY <1>5, <2>2, <2>3, <2>4, ExitKeepsChannels DEF Periodic
<1>6. ASSUME NEW kind, NEW full \in BOOLEAN, NEW more, TlsRead(kind, full, more)
      PROVE  ChannelInv'
  <2>1. /\ dtls \in [Slots -> Session] /\ dtls[act].st # "HANDSHAKE"
        /\ \A i \in Slots : SameSession(dtls[i], dtls[i]) /\ dtls[i].io = dtls[i].io
    BY <1>0, LeaveDtls
  <2> QED
    BY <1>6, <2>1, RecordKeepsChannels DEF TlsRead
<1>7. CASE UNCHANGED tnvars
  BY <1>7 DEF tnvars, ChannelInv, FdInv, FdTypes, SocketsExact, ReadInv, ReadersResume, Running
<1> QED
  BY <1>1, <1>2, <1>3, <1>4, <1>5, <1>6, <1>7, HandshakeKeepsChannels, DtlsReadKeepsChannels,
     DrainKeepsChannels DEF TnNext, Slots

-----------------------------------------------------------------------------
\* The inductive invariant of the tunnel holds when the loop starts and is kept.
THEOREM TunnelInvariant == TnSpec => [](TimeInv /\ ChannelInv)
<1>1. TnInit => TimeInv
  <2> SUFFICES ASSUME TnInit PROVE TimeInv
    OBVIOUS
  <2>1. cfg \in Timeouts /\ age \in [AgeKeys -> Nat] /\ age.nc = 0 /\ age.start = 0 /\ age.tcp = 0
    BY DEF TnInit, AgeKeys
  <2>2. cfg.idle \in Nat /\ cfg.session \in Nat /\ cfg.dpd \in Nat
    BY <2>1, TunnelAssumption DEF TunnelAssumption
  <2> QED
    BY <2>1, <2>2 DEF TimeInv, KeptBy, DPD_MAX_TRIES
<1>2. TnInit => ChannelInv
  <2> SUFFICES ASSUME TnInit PROVE ChannelInv
    OBVIOUS
  <2>1. PICK st \in {"WAIT_FD", "DISABLED"} : dtls = [i \in 0..1 |-> [Stopped EXCEPT !.st = st]]
    BY DEF TnInit
  <2>2. \A i \in Slots : dtls[i] = [st |-> st, sess |-> FALSE, fd |-> NoFd, io |-> FALSE, iofd |-> NoFd]
    BY <2>1 DEF Stopped, Slots
  <2>3. dtls \in [Slots -> Session]
    BY <2>1, <2>2 DEF Slots, Session
  <2>4. act = 0 /\ act \in Slots /\ openfd = {}
    BY TwoSlots DEF TnInit
  <2>5. \A i \in Slots : /\ dtls[i].fd = NoFd /\ dtls[i].io = FALSE /\ dtls[i].sess = FALSE
                         /\ dtls[i].st = st /\ ~Usable(dtls[i]) /\ dtls[i].st # "HANDSHAKE"
    BY <2>2 DEF Usable
  <2>6. SocketsExact
    BY <2>4, <2>5, TwoSlots, SocketsOfTwo
  <2>7. FdInv
    BY <2>3, <2>4, <2>5, <2>6 DEF FdInv, FdTypes
  <2>8. tun_pending = FALSE /\ write_on = FALSE /\ tls_on = TRUE
    BY DEF TnInit
  <2>9. ReadInv
    BY <2>4, <2>5, <2>8 DEF ReadInv, ReadersResume
  <2> QED
    BY <2>7, <2>9 DEF ChannelInv
<1>3. (TimeInv /\ ChannelInv) /\ [TnNext]_tnvars => (TimeInv /\ ChannelInv)'
  BY TimeStep, ChannelStep
<1> QED
  BY <1>1, <1>2, <1>3, PTL DEF TnSpec

\* Whatever arrives on the TLS channel, the DTLS sessions, the TUN device and the
\* command socket, and in whatever order: every UDP socket of the worker is one of the
\* two sessions', no reader stays paused, and no timeout is exceeded
\* (handle_commands_from_main, dtls_mainloop, tun_enqueue_write, periodic_check).
THEOREM ChannelsAreKept == TnSpec => []ChannelsKept
<1>1. TimeInv /\ ChannelInv => ChannelsKept
  BY DEF TimeInv, KeptBy, ChannelInv, FdInv, ReadInv, ChannelsKept, TimeoutsKept
<1> QED
  BY <1>1, TunnelInvariant, PTL
=============================================================================
