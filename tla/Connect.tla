------------------------------- MODULE Connect -------------------------------
(***************************************************************************)
(* What connect_handler (worker-vpn.c) settles with the client: DTLS, the   *)
(* address families, who renews the keys, the link MTU; and how the link    *)
(* MTU changes afterwards: discovery with full packets, the client's own    *)
(* discovery, the TCP path MTU.  MTUs are in units; headers are left out.   *)
(***************************************************************************)
EXTENDS Integers

CONSTANTS
  MinMtu,            \* MIN_MTU(ws)
  BufSize,           \* sizeof(ws->buffer)
  Slack,             \* what the buffer needs beyond the link MTU
  Overhead,          \* dtls_crypto_overhead + dtls_proto_overhead
  Mtu6,              \* 1280
  ConfMtus,          \* link MTUs of the server's or the user's configuration
  PeerMtus,          \* values of the client's headers, 0 is none
  PathMtus,          \* the largest packet that passes to the client over UDP
  MaxEvents          \* bound: events other than full packets

VARIABLES
  cphase,            \* "request", "up", "closed"
  path,              \* path MTU of the UDP channel
  reply,             \* what the client was told
  link_mtu, adv_link_mtu, last_good_mtu, last_bad_mtu,
  try_mtu,           \* MTU discovery is on
  setup,             \* a DTLS session was set up
  sent_mtu,          \* the last MTU main was told to give the TUN device
  events

mtus == <<link_mtu, adv_link_mtu, last_good_mtu, last_bad_mtu, try_mtu, sent_mtu>>
cnvars == <<cphase, path, reply, mtus, setup, events>>

CMin(a, b) == IF a < b THEN a ELSE b
CMax(a, b) == IF a > b THEN a ELSE b
DATA_MTU(m) == m - Overhead

\* The MTU variables as a record, for the functions that change several of them.
M == [link |-> link_mtu, adv |-> adv_link_mtu, good |-> last_good_mtu, bad |-> last_bad_mtu,
      try |-> try_mtu, sent |-> sent_mtu]
MtuIs(m) ==
  /\ link_mtu' = m.link /\ adv_link_mtu' = m.adv /\ last_good_mtu' = m.good
  /\ last_bad_mtu' = m.bad /\ try_mtu' = m.try /\ sent_mtu' = m.sent

\* link_mtu_set and data_mtu_send.
link_mtu_set(m, mtu) ==
  IF m.link = mtu \/ mtu > BufSize \/ mtu < MinMtu THEN m
  ELSE [m EXCEPT !.link = mtu, !.sent = DATA_MTU(mtu)]

disable_mtu_disc(m) == [link_mtu_set(m, m.adv) EXCEPT !.try = FALSE]

\* Mutant: the MTU that failed is not recorded.
NotOkForgets(m) ==
  LET c == IF m.good >= m.link THEN [m EXCEPT !.good = CMax((2 * m.link) \div 3, MinMtu)] ELSE m
  IN IF ~m.try THEN m
     ELSE IF m.good = MinMtu THEN link_mtu_set(disable_mtu_disc(m), MinMtu)
     ELSE link_mtu_set(c, c.good)

\* mtu_not_ok over IPv4.
mtu_not_ok(m) ==
  LET b == [m EXCEPT !.bad = m.link]
      c == IF b.good >= b.link THEN [b EXCEPT !.good = CMax((2 * b.link) \div 3, MinMtu)] ELSE b
  IN IF ~m.try THEN m
     ELSE IF m.good = MinMtu THEN link_mtu_set(disable_mtu_disc(b), MinMtu)
     ELSE link_mtu_set(c, c.good)

\* mtu_ok over IPv4.
mtu_ok(m) ==
  IF ~m.try \/ m.bad \in {m.link, m.link + 1} THEN m
  ELSE link_mtu_set([m EXCEPT !.good = m.link], (m.link + m.bad) \div 2)

mtu_discovery_init(m) ==
  [(IF m.link <= MinMtu THEN disable_mtu_disc(m) ELSE m)
     EXCEPT !.good = m.link, !.bad = m.link]

\* data_mtu_set: the client's probe was larger than what the worker sends.
data_mtu_set(m, data) == link_mtu_set(m, data + Overhead)

-----------------------------------------------------------------------------
\* The peer's MTU: a link MTU, or a plain one from old clients; too small ones are
\* ignored.
PeerMtu(conf, link, tunnel) ==
  IF link >= MinMtu THEN CMin(conf, link)
  ELSE IF link > 0 THEN conf
  ELSE IF tunnel > 0 /\ tunnel + Overhead >= MinMtu THEN CMin(conf, tunnel + Overhead)
  ELSE conf

\* calc_mtu_values: the link MTU becomes the negotiated one.
calc_mtu_values(mtu, try) ==
  [link |-> mtu, adv |-> mtu, good |-> 0, bad |-> 0, try |-> try, sent |-> DATA_MTU(mtu)]

\* cstp_transparent_rekey_configured: TLS 1.3 and rekey-method ssl.
Transparent(rq) == rq.tls13 /\ rq.method = "ssl"

\* The client is told a time that it never reaches.
AdvertisesFarFuture(rq) == Transparent(rq)

\* The rekey headers: time is "never", "far" or "real".
RekeyReply(rq) ==
  IF rq.rekey_time = 0 THEN [time |-> "never", method |-> "none"]
  ELSE IF AdvertisesFarFuture(rq) THEN [time |-> "far", method |-> "ssl"]
  ELSE [time |-> "real", method |-> IF rq.safe_reneg THEN rq.method ELSE "new-tunnel"]

\* Addresses are sent before the agent is looked at, routes and DNS after.
Ipv6Address(rq, mtu) == rq.has6 /\ rq.want6 /\ DATA_MTU(mtu) >= Mtu6
Ipv6Routes(rq, mtu) ==
  rq.want6 /\ rq.full_ipv6 /\ rq.agent # "openconnect-v3" /\ (rq.has6 => DATA_MTU(mtu) >= Mtu6)

Requests ==
  [has6 : BOOLEAN, want6 : BOOLEAN, full_ipv6 : BOOLEAN, agent : {"openconnect", "openconnect-v3"},
   udp : {TRUE}, secret : BOOLEAN, tls13 : BOOLEAN, safe_reneg : BOOLEAN, rekey_time : {0, 1},
   method : {"ssl", "new-tunnel"}]

\* connect_handler, up to worker_event_loop.
connect_handler(rq, conf, link, tunnel, try) ==
  LET mtu == PeerMtu(conf, link, tunnel)
  IN /\ reply' = [dtls |-> rq.udp /\ rq.secret, v6 |-> Ipv6Address(rq, mtu),
                  routes6 |-> Ipv6Routes(rq, mtu), rekey |-> RekeyReply(rq),
                  server |-> rq.rekey_time > 0 /\ Transparent(rq)]
     /\ cphase' = IF BufSize < mtu + Slack THEN "closed" ELSE "up"
     /\ MtuIs(calc_mtu_values(mtu, try))
     /\ UNCHANGED <<path, setup, events>>

Event == cphase = "up" /\ events < MaxEvents /\ events' = events + 1
MtuOnly == UNCHANGED <<cphase, path, reply>>

\* setup_dtls_connection and the rest of UP_SETUP.
DtlsSetup ==
  /\ reply.dtls /\ Event
  /\ MtuIs(mtu_discovery_init(link_mtu_set(M, adv_link_mtu)))
  /\ setup' = TRUE /\ MtuOnly

\* tun_mainloop, or the handshake: a packet of the full link MTU either passes or is
\* too large for the path.
FullPacket ==
  /\ cphase = "up" /\ setup
  /\ MtuIs(IF link_mtu > path THEN mtu_not_ok(M) ELSE mtu_ok(M))
  /\ UNCHANGED <<setup, events>> /\ MtuOnly

\* parse_data: a DPD packet of the client that is larger than the data MTU.
PeerProbe(data) ==
  /\ setup /\ Event /\ data > DATA_MTU(link_mtu)
  /\ MtuIs(data_mtu_set(M, data))
  /\ UNCHANGED setup /\ MtuOnly

\* periodic_check: the TCP connection's path MTU is smaller.
TcpPmtu(max) ==
  /\ reply.dtls /\ Event /\ 0 < max /\ max < link_mtu
  /\ MtuIs(link_mtu_set(M, max))
  /\ UNCHANGED setup /\ MtuOnly

NoReply == [dtls |-> FALSE, v6 |-> FALSE, routes6 |-> FALSE,
            rekey |-> [time |-> "never", method |-> "none"], server |-> FALSE]

CnInit ==
  /\ cphase = "request" /\ path \in PathMtus /\ reply = NoReply
  /\ link_mtu = 0 /\ adv_link_mtu = 0 /\ last_good_mtu = 0 /\ last_bad_mtu = 0
  /\ try_mtu = FALSE /\ setup = FALSE /\ sent_mtu = 0 /\ events = 0

CnNext ==
  \/ /\ cphase = "request"
     /\ \E rq \in Requests, conf \in ConfMtus, link, tunnel \in PeerMtus, try \in BOOLEAN :
          connect_handler(rq, conf, link, tunnel, try)
  \/ DtlsSetup \/ FullPacket
  \/ \E m \in PeerMtus : PeerProbe(m) \/ TcpPmtu(m)

-----------------------------------------------------------------------------
\* The TUN device always has the data MTU of the link, so that the kernel never hands
\* the worker a packet that the link cannot carry: each change of the link MTU reaches
\* main (worker-vpn.c:1199-1213).
TunFollowsLink == cphase = "up" => sent_mtu = DATA_MTU(link_mtu)

\* Whatever the client probes and the path does, the link MTU stays within what the
\* buffer holds and what the minimum allows (worker.h:308).
LinkMtuInRange == cphase = "up" => link_mtu \in MinMtu..BufSize

\* Keys are renewed by exactly one side: the client is told a real time, or the server
\* does it by itself and the client is told a time that never comes
\* (worker-vpn.c:1394-1406).
RekeyHasOneDriver ==
  reply.rekey.time # "never" => (reply.server <=> reply.rekey.time = "far")

\* MTU discovery ends: once nothing but full packets happens, the link MTU stops
\* changing (worker-vpn.c:1248, 1333; the handshake loop at 1771 relies on it).
MtuSettles == <>[][link_mtu' = link_mtu]_link_mtu

\* The link MTU never exceeds the one advertised (worker-vpn.c:2179 "This is the data
\* MTU we advertised to peer, we will never exceed this value").
AdvertisedIsCeiling == cphase = "up" => link_mtu <= adv_link_mtu

\* The MTU of a link stays in range, is what the tun device has, and discovery settles; the
\* keys of a session are renewed by one side (worker-vpn.c:1248, 1333, 2545).
LinkTermsKept == [](TunFollowsLink /\ LinkMtuInRange /\ RekeyHasOneDriver) /\ MtuSettles
=============================================================================
