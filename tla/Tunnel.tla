------------------------------- MODULE Tunnel -------------------------------
(***************************************************************************)
(* The event loop of a worker whose tunnel is up (worker-vpn.c): the TLS    *)
(* channel, the two DTLS sessions and their sockets, the one-packet slot    *)
(* for a TUN device that is not writable, dead peer detection and timeouts. *)
(* One step is one callback, and time advances by PERIODIC_CHECK_TIME.      *)
(* Bandwidth limits and compression decide only whether a packet is parsed. *)
(***************************************************************************)
EXTENDS Integers, FiniteSets

CONSTANTS
  Fds,           \* descriptors of UDP sockets; one is always free
  NoFd,          \* -1
  Timeouts       \* the configurations: dpd, idle, session and udp-to-tcp, 0 is off

ASSUME TunnelAssumption ==
  /\ NoFd \notin Fds
  /\ Timeouts \subseteq [dpd : Nat, idle : Nat, session : Nat, switch : Nat]

VARIABLES
  cfg,           \* one of Timeouts
  exited,        \* NONE while the loop runs, then the reason
  act,           \* dtls_active_session
  dtls,          \* the two DTLS sessions and their watchers
  openfd,        \* UDP sockets that are open in the worker
  tls_on,        \* tls_watcher is active
  tls_pending,   \* GnuTLS holds a decrypted record that was not read
  tun_pending,   \* a packet waits for the TUN device
  write_on,      \* tun_write_watcher is active
  age,           \* since last_msg_tcp, last_msg_udp, last_nc_msg, udp_recv_time, start
  dropped        \* a packet found the slot busy

tnvars == <<cfg, exited, act, dtls, openfd, tls_on, tls_pending, tun_pending,
            write_on, age, dropped>>

DPD_TRIES == 2
DPD_MAX_TRIES == 3

Stopped == [st |-> "DISABLED", sess |-> FALSE, fd |-> NoFd, io |-> FALSE, iofd |-> NoFd]

Running == exited = "NONE"
Usable(d) == d.st \notin {"DISABLED", "WAIT_FD"}

\* Time is counted up to one past the limit that it is compared with.
Cap(k) ==
  CASE k \in {"tcp", "udp"} -> IF cfg.dpd = 0 THEN 0 ELSE DPD_MAX_TRIES * cfg.dpd + 1
    [] k = "nc" -> IF cfg.idle = 0 THEN 0 ELSE cfg.idle + 1
    [] k = "recv" -> IF cfg.switch = 0 THEN 0 ELSE cfg.switch + 1
    [] k = "start" -> IF cfg.session = 0 THEN 0 ELSE cfg.session + 1
Older == [k \in DOMAIN age |-> IF age[k] < Cap(k) THEN age[k] + 1 ELSE age[k]]
Heard(ks) == [k \in DOMAIN age |-> IF k \in ks THEN 0 ELSE age[k]]

TunnelNoAge == UNCHANGED <<cfg, exited, age>>
SlotSame == UNCHANGED <<tls_on, tls_pending, tun_pending, write_on, dropped>>

\* cstp_send_terminate and exit_worker_reason: the process exits.
exit_worker_reason(r) ==
  /\ exited' = r
  /\ UNCHANGED <<cfg, act, dtls, openfd, tls_on, tls_pending, tun_pending, write_on, age,
                 dropped>>

\* dtls_stop; the socket is closed by CloseOf.
dtls_stop(d) == [Stopped EXCEPT !.iofd = d.iofd]
CloseOf(d) == openfd \ {d.fd}

\* setup_dtls_connection: the new session replaces the old one of the same slot, and
\* its watcher is set to the new socket.
setup_dtls_connection(f) ==
  [st |-> "HANDSHAKE", sess |-> TRUE, fd |-> f, io |-> TRUE, iofd |-> f]

\* handle_commands_from_main, command_watcher_cb: a ClientHello starts a session in the
\* inactive slot, and the watcher is invoked to set it up.
StartSession(f) ==
  /\ dtls' = [dtls EXCEPT ![1 - act] = setup_dtls_connection(f)]
  /\ openfd' = CloseOf(dtls[1 - act]) \cup {f}

CmdUdpHello(f) ==
  /\ Running /\ f \in Fds \ openfd
  /\ \/ exit_worker_reason("ERROR")      \* setup failed, or the message had no socket
     \/ /\ StartSession(f)
        /\ age' = Heard({"recv"})
        /\ UNCHANGED <<cfg, exited, act>> /\ SlotSame

\* A packet of the session came from another address: once recv_from_new_fd has
\* verified it the session moves to that socket.  The watcher is not changed.
CmdUdpRoam(f) ==
  /\ Running /\ f \in Fds \ openfd
  /\ dtls' = [dtls EXCEPT ![act].fd = f]
  /\ openfd' = CloseOf(dtls[act]) \cup {f}
  /\ age' = Heard({"recv"})
  /\ UNCHANGED <<cfg, exited, act>> /\ SlotSame

\* CMD_TERMINATE, an error of the command socket, or main has died.
CmdEnds ==
  /\ Running
  /\ \E r \in {"SERVER_DISCONNECT", "ERROR"} : exit_worker_reason(r)

\* The watcher of session i runs: an event of the socket that it was set to.
Readable(i) == Running /\ dtls[i].io /\ dtls[i].iofd = dtls[i].fd

\* dtls_mainloop, UP_HANDSHAKE: it fails, or the session becomes the active one and the
\* other one is stopped.
DtlsHandshake(i) ==
  /\ Readable(i) /\ dtls[i].st = "HANDSHAKE"
  /\ \/ /\ dtls' = [dtls EXCEPT ![i] = dtls_stop(@)]
        /\ openfd' = CloseOf(dtls[i])
        /\ UNCHANGED act
     \/ /\ act' = 1 - act
        /\ dtls' = [dtls EXCEPT ![i].st = "ACTIVE", ![1 - act'] = dtls_stop(@)]
        /\ openfd' = CloseOf(dtls[1 - act'])
  /\ TunnelNoAge /\ SlotSame

\* tun_enqueue_write: the packet is written, or it waits and the readers are paused, or
\* it finds the slot busy and is dropped.
tun_enqueue_write(ds, full) ==
  /\ full => ~tun_pending
  /\ tun_pending' = (tun_pending \/ full)
  /\ dropped' = (dropped \/ (tun_pending /\ ~full))
  /\ tls_on' = (tls_on /\ ~full)
  /\ write_on' = (write_on \/ full)
  /\ dtls' = IF full THEN [ds EXCEPT ![act].io = FALSE] ELSE ds

\* dtls_mainloop, UP_ACTIVE and UP_INACTIVE: one record.
DtlsRead(i, kind, full) ==
  /\ Readable(i) /\ dtls[i].st \in {"ACTIVE", "INACTIVE"}
  /\ LET ds == [dtls EXCEPT ![i].st = "ACTIVE"]
     IN \/ /\ kind = "data"
           /\ tun_enqueue_write(ds, full)
           /\ age' = Heard({"recv", "udp", "nc"})
           /\ UNCHANGED <<cfg, exited, act, openfd, tls_pending>>
        \/ /\ kind = "control"           \* DPD, keepalive, ICMP data or over bandwidth
           /\ dtls' = ds
           /\ age' = Heard({"recv", "udp"})
           /\ UNCHANGED <<cfg, exited, act, openfd>> /\ SlotSame
        \/ /\ kind = "eof"
           /\ dtls' = [dtls EXCEPT ![i] = dtls_stop(@)]
           /\ openfd' = CloseOf(dtls[i])
           /\ age' = Heard({"recv"})
           /\ UNCHANGED <<cfg, exited, act>> /\ SlotSame
        \/ /\ kind = "bye"               \* or a fatal error
           /\ \E r \in {"USER_DISCONNECT", "TEMP_DISCONNECT", "ERROR"} : exit_worker_reason(r)

\* parse_cstp_data: data on the TLS channel means that the client left the DTLS one.
LeaveUdp(ds) == IF ds[act].st = "ACTIVE" THEN [ds EXCEPT ![act].st = "INACTIVE"] ELSE ds

\* tls_mainloop: one record; the burst ends when the slot is taken or after READ_BURST_MAX
\* records, and may leave another one in GnuTLS.
TlsRecord(kind, full, more, ages, ds) ==
  \/ /\ kind = "data"
     /\ tun_enqueue_write(LeaveUdp(ds), full)
     /\ age' = [ages EXCEPT !.tcp = 0, !.nc = 0]
     /\ tls_pending' = more
     /\ UNCHANGED <<cfg, exited, act, openfd>>
  \/ /\ kind = "control"
     /\ age' = [ages EXCEPT !.tcp = 0]
     /\ tls_pending' = more
     /\ dtls' = ds
     /\ UNCHANGED <<cfg, exited, act, openfd, tls_on, tun_pending, write_on, dropped>>
  \/ /\ kind = "bye"
     /\ \E r \in {"USER_DISCONNECT", "TEMP_DISCONNECT", "ERROR"} : exit_worker_reason(r)

TlsRead(kind, full, more) ==
  /\ Running /\ tls_on
  /\ TlsRecord(kind, full, more, age, dtls)

\* tun_mainloop: a packet for the client, on DTLS unless nothing came from there for long.
TunRead ==
  /\ Running
  /\ \/ /\ dtls' = IF cfg.switch > 0 /\ age.recv > cfg.switch THEN LeaveUdp(dtls) ELSE dtls
        /\ age' = Heard({"nc"})
        /\ UNCHANGED <<cfg, exited, act, openfd>> /\ SlotSame
     \/ exit_worker_reason("ERROR")

\* Mutant: only the TLS watcher is started again.
ResumeTls == dtls

\* tun_write_watcher_cb, when the write succeeds: the readers go on.
ResumeReaders == IF Usable(dtls[act]) THEN [dtls EXCEPT ![act].io = TRUE] ELSE dtls

TunDrain ==
  /\ Running /\ write_on
  /\ tun_pending' = FALSE /\ write_on' = FALSE /\ tls_on' = TRUE
  /\ dtls' = ResumeReaders
  /\ UNCHANGED <<cfg, exited, act, openfd, tls_pending, age, dropped>>

\* periodic_check: the reason to end the session, if any.
Timeout(a) ==
  IF cfg.idle > 0 /\ a.nc > cfg.idle THEN "IDLE_TIMEOUT"
  ELSE IF cfg.session > 0 /\ a.start > cfg.session THEN "SESSION_TIMEOUT"
  ELSE IF cfg.dpd > 0 /\ a.tcp > DPD_MAX_TRIES * cfg.dpd THEN "DPD_TIMEOUT" ELSE "NONE"

\* periodic_check: UDP is given up before the TCP channel is checked.
DpdUdp(a) == IF cfg.dpd > 0 /\ a.udp > DPD_MAX_TRIES * cfg.dpd THEN LeaveUdp(dtls) ELSE dtls

\* periodic_check_watcher_cb, once every PERIODIC_CHECK_TIME.  A record that GnuTLS holds
\* is read by invoking the TLS watcher's callback.
Periodic ==
  /\ Running
  /\ IF Timeout(Older) # "NONE"
     THEN exit_worker_reason(Timeout(Older))
     ELSE \/ /\ tls_pending
             /\ \E kind \in {"data", "control"}, full \in BOOLEAN :
                  TlsRecord(kind, full, FALSE, Older, DpdUdp(Older))
          \/ /\ ~tls_pending
             /\ age' = Older
             /\ dtls' = DpdUdp(Older)
             /\ UNCHANGED <<cfg, exited, act, openfd>> /\ SlotSame

\* connect_handler: UDP is enabled or not, and the loop starts.
TnInit ==
  /\ cfg \in Timeouts /\ exited = "NONE" /\ act = 0
  /\ \E st \in {"WAIT_FD", "DISABLED"} : dtls = [i \in 0..1 |-> [Stopped EXCEPT !.st = st]]
  /\ openfd = {}
  /\ tls_on = TRUE /\ tls_pending = FALSE /\ tun_pending = FALSE /\ write_on = FALSE
  /\ age = [k \in {"tcp", "udp", "nc", "recv", "start"} |-> 0]
  /\ dropped = FALSE

TnNext ==
  \/ \E f \in Fds : CmdUdpHello(f) \/ CmdUdpRoam(f)
  \/ CmdEnds \/ TunRead \/ TunDrain \/ Periodic
  \/ \E i \in 0..1 : DtlsHandshake(i)
  \/ \E i \in 0..1, kind \in {"data", "control", "eof", "bye"}, full \in BOOLEAN :
       DtlsRead(i, kind, full)
  \/ \E kind \in {"data", "control", "bye"}, full, more \in BOOLEAN : TlsRead(kind, full, more)

TnSpec == TnInit /\ [][TnNext]_tnvars

-----------------------------------------------------------------------------
\* Every UDP socket of the worker belongs to one of the two sessions, and a session
\* that ended, failed or was replaced has neither a socket nor a running watcher, so
\* that reconnections leak nothing (worker-vpn.c:1653,
\* doc/requirements/internal/worker.md:598 REQ-WORKER-NET-007).
SocketsExact ==
  /\ openfd = {dtls[i].fd : i \in 0..1} \ {NoFd}
  /\ dtls[0].fd # dtls[1].fd \/ dtls[0].fd = NoFd
  /\ \A i \in 0..1 : (~Usable(dtls[i]) => ~dtls[i].io) /\ (dtls[i].io => dtls[i].sess)

\* No reader stays paused: while no packet waits, TLS and the usable DTLS session are
\* watched, and while one waits the device is watched; the sessions may have been
\* exchanged in between (worker-vpn.c:2826, 3244).
ReadersResume ==
  Running => IF tun_pending THEN write_on ELSE
               tls_on /\ (Usable(dtls[act]) => dtls[act].io) /\ ~write_on

\* A timeout ends the session at the first check after it, and traffic on the UDP
\* channel does not hide that the TCP one is dead (worker-vpn.c:1500-1582).
TimeoutsKept ==
  Running =>
    /\ cfg.idle > 0 => age.nc <= cfg.idle
    /\ cfg.session > 0 => age.start <= cfg.session
    /\ cfg.dpd > 0 => age.tcp <= DPD_MAX_TRIES * cfg.dpd

\* The watcher of a session watches the socket the session reads from, so that what
\* the client sends there is read (doc/requirements/internal/worker.md:598).
WatcherOnSocket == \A i \in 0..1 : dtls[i].io => dtls[i].iofd = dtls[i].fd

\* A packet never finds the slot busy (worker-vpn.c:2802 "readers should be paused when
\* a packet is pending; this path should never be reached").
SlotNeverBusy == ~dropped

\* The channels of a tunnel are kept in order: no socket leaks or is watched after it was
\* closed, no reader stays paused, no timeout is missed or invented (worker-vpn.c:1482, 1653, 2801).
ChannelsKept == SocketsExact /\ ReadersResume /\ TimeoutsKept
=============================================================================
