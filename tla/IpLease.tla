------------------------------- MODULE IpLease -------------------------------
(***************************************************************************)
(* Main's address leases (ip-lease.c): the search for an address in both   *)
(* families, explicit addresses, session reuse, and the table of leases.    *)
(* Addresses are host parts; network and mask are fixed.  A request is one  *)
(* step of main, which waits for the answers to its pings.                  *)
(***************************************************************************)
EXTENDS Integers, FiniteSets

CONSTANTS
  LProcs,        \* procs
  Hosts4,        \* 2^n: addresses of the IPv4 network
  Hosts6,        \* addresses of the IPv6 network
  LowPart,       \* 2^32: the addresses that differ in the last four bytes only
  SubnetSize,    \* addresses of an ipv6-subnet-prefix subnet; 1 for /128
  Hash4, Hash6,  \* ip_from_seed, masked: host part to host part
  Seeds          \* seeds of users and explicit addresses

ASSUME LeaseAssumption == Seeds \subseteq Int /\ Hosts4 \in Nat /\ Hosts6 \in Nat

VARIABLES
  lease,         \* the leases of a proc in each family, or that it is gone
  lht            \* the hash table: family, sig and the proc that owns the lease

ipvars == <<lease, lht>>

FIXED_IPS == 5

NoLease == [kind |-> "none", rip |-> 0]
Gone == [st |-> "gone", v4 |-> NoLease, v6 |-> NoLease]
Fresh == [st |-> "new", v4 |-> NoLease, v6 |-> NoLease]
Failed == -1       \* ERR_NO_IP

\* A /31 network has no reserved addresses (RFC 3021).
P2p == Hosts4 = 2
lip4 == IF P2p THEN 0 ELSE 1
lip6 == 0
Sig6(a) == a - (a % SubnetSize)
Sig(fam, a) == IF fam = "v4" THEN a ELSE Sig6(a)

ip_lease_exists(fam, sig) == \E p \in LProcs : <<fam, sig, p>> \in lht

is_ipv4_ok(a) == ~ip_lease_exists("v4", a) /\ (P2p \/ a \notin {0, Hosts4 - 1})

\* Mutant: the address, not its subnet, is looked up.
Ipv6AddressFree(a) == Sig6(a) # lip6 /\ ~ip_lease_exists("v6", a)

is_ipv6_ok(a) == Sig6(a) # lip6 /\ ~ip_lease_exists("v6", Sig6(a))

\* The candidates of the loop: the seed, its hashes, then random addresses.  IPv6
\* clears the last candidate before it is hashed.
Fixed4(seed) ==
  LET rnd[k \in 0..FIXED_IPS] == IF k = 0 THEN seed ELSE Hash4[rnd[k - 1]] IN rnd
Fixed6(seed) == [k \in 0..FIXED_IPS |-> IF k = 0 THEN Hash6[seed % Hosts6] ELSE Hash6[0]]

\* Random candidates: the IPv6 one is written four bytes before the address, so that
\* its last four bytes stay zero.
Random4 == 0..Hosts4 - 1
Random6 == {a \in 0..Hosts6 - 1 : a % LowPart = 0}

\* The first fixed candidate that is good, or a random one, or none after all tries.
Search(fixed, random, good) ==
  LET k == {i \in DOMAIN fixed : fixed[i] \in good}
  IN IF k # {} THEN {fixed[i] : i \in {j \in k : \A n \in k : j <= n}}
     ELSE (good \cap random) \cup {Failed}

\* icmp_ping4, icmp_ping6: whether the host answers; none does if pings are off or fail.
icmp_ping4(a, busy) == a \in busy
icmp_ping6(a, busy) == a \in busy

\* get_ipv4_lease from the pool.
get_ipv4_lease(seed, busy) ==
  Search(Fixed4(seed), Random4,
         {a \in 0..Hosts4 - 1 : is_ipv4_ok(a) /\ a # lip4 /\ ~icmp_ping4(a, busy)})

\* The prefix of the new lease is still 0 when get_ipv6_lease compares it with 128.
Pings6 == 0 = 128

\* get_ipv6_lease from the pool.
get_ipv6_lease(seed, busy) ==
  Search(Fixed6(seed), Random6,
         {a \in 0..Hosts6 - 1 : is_ipv6_ok(a) /\ ~(Pings6 /\ icmp_ping6(a, busy))})

\* An address of the user's configuration; it is not entered into the table.
Explicit4(a) == IF is_ipv4_ok(a) /\ a # lip4 THEN {a} ELSE {Failed}
Explicit6(a) == IF is_ipv6_ok(a) THEN {a} ELSE {Failed}

\* The outcomes of one family: the lease that came with the session, no network, or
\* the result of the search.
Outcomes(fam, l, how, seed, busy) ==
  IF l # NoLease THEN {l}
  ELSE IF how = "off" THEN {NoLease}
  ELSE IF how = "pool"
  THEN {[kind |-> "pool", rip |-> a] :
          a \in IF fam = "v4" THEN get_ipv4_lease(seed, busy) ELSE get_ipv6_lease(seed, busy)}
  ELSE {[kind |-> "explicit", rip |-> a] :
          a \in IF fam = "v4" THEN Explicit4(seed) ELSE Explicit6(seed)}

Owned(l, fam, p) == IF l.kind = "pool" THEN {<<fam, Sig(fam, l.rip), p>>} ELSE {}

\* new_proc.
LeaseNew(p) ==
  /\ lease[p] = Gone
  /\ lease' = [lease EXCEPT ![p] = Fresh]
  /\ UNCHANGED lht

\* The copy that scripts read after the lease itself has moved.
Copy(l) == IF l.kind = "none" THEN NoLease ELSE [kind |-> "copy", rip |-> l.rip]

\* steal_ip_leases: the leases of old move to p, or stay when there is no old session.
steal_ip_leases(old, p) ==
  IF old = p THEN lease
  ELSE [lease EXCEPT
          ![p] = [st |-> lease[p].st, v4 |-> lease[old].v4, v6 |-> lease[old].v6],
          ![old] = [st |-> lease[old].st, v4 |-> Copy(lease[old].v4), v6 |-> Copy(lease[old].v6)]]

\* The entries move with the lease.
Moved(old, p) == {IF e[3] = old THEN <<e[1], e[2], p>> ELSE e : e \in lht}

\* unref_ip_lease: the destructor of a lease in the table removes its entry.
unref_ip_lease(ls) ==
  {<<fam, Sig(fam, ls[fam].rip), p>> : fam \in {f \in {"v4", "v6"} : ls[f].kind = "pool"},
                                       p \in LProcs}

\* get_ip_leases succeeds: IPv4 first, then IPv6, and at least one of them.
BothLeased(l, m) == l.rip # Failed /\ m.rip # Failed /\ <<l, m>> # <<NoLease, NoLease>>

\* handle_auth_cookie_req and accept_user: the session of old, if any, continues in p,
\* which then leases what it lacks.  On failure, here or in the rest of accept_user (ok
\* is FALSE), p is removed by the same handler and what it has is released.
get_ip_leases(p, old, how4, how6, seed, busy, ok) ==
  /\ lease[p] = Fresh
  /\ lease[old].st = "open" \/ old = p
  /\ LET had == steal_ip_leases(old, p)
     IN \E l \in Outcomes("v4", had[p].v4, how4, seed, busy) :
          \E m \in Outcomes("v6", had[p].v6, how6, seed, busy) :
            IF ok /\ BothLeased(l, m)
            THEN /\ lease' = [had EXCEPT ![p] = [st |-> "open", v4 |-> l, v6 |-> m]]
                 /\ lht' = Moved(old, p) \cup Owned(l, "v4", p) \cup Owned(m, "v6", p)
            ELSE /\ lease' = [had EXCEPT ![p] = Gone]
                 /\ lht' = Moved(old, p) \ unref_ip_lease(had[p])

\* remove_ip_leases, when the proc is removed.
remove_ip_leases(p) ==
  /\ lease[p] # Gone
  /\ lht' = lht \ unref_ip_lease(lease[p])
  /\ lease' = [lease EXCEPT ![p] = Gone]

IpInit == lease = [p \in LProcs |-> Gone] /\ lht = {}

IpNext ==
  \/ \E p \in LProcs : LeaseNew(p) \/ remove_ip_leases(p)
  \/ \E p, old \in LProcs, how4, how6 \in {"off", "pool", "explicit"}, seed \in Seeds, ok \in BOOLEAN :
       \E busy \in {{}, {seed}} : get_ip_leases(p, old, how4, how6, seed, busy, ok)

IpSpec == IpInit /\ [][IpNext]_ipvars

-----------------------------------------------------------------------------
\* The table has exactly the pool leases that procs own now: a lease that moves to
\* the next worker of a session is neither lost nor released by the proc that had
\* it, and one that is released is free again (ip-lease.c:577, main-proc.c:147).
LeaseTableExact ==
  lht = UNION {Owned(lease[p].v4, "v4", p) \cup Owned(lease[p].v6, "v6", p) : p \in LProcs}

\* No two procs own the same pool address or the same IPv6 subnet: a search
\* that finds nothing among the fixed candidates does not settle for a taken one (ip-lease.c:150, 174).
PoolLeasesDistinct ==
  \A p, q \in LProcs, fam \in {"v4", "v6"} :
    /\ p # q /\ lease[p][fam].kind = "pool" /\ lease[q][fam].kind = "pool"
    => Sig(fam, lease[p][fam].rip) # Sig(fam, lease[q][fam].rip)

\* Nobody is given the server's own address, nor the network or broadcast address of
\* a network that has them, be it from the pool, by configuration or by reuse
\* (doc/requirements/internal/main.md:281, REQ-MAIN-NET-004 and 006).
NoReservedAddress ==
  \A p \in LProcs :
    /\ lease[p].v4.kind # "none" =>
         lease[p].v4.rip # lip4 /\ (P2p \/ lease[p].v4.rip \notin {0, Hosts4 - 1})
    /\ lease[p].v6.kind # "none" => Sig6(lease[p].v6.rip) # lip6

\* An address that answers a ping is not leased from the pool (doc/sample.config:691
\* "Prior to leasing any IP from the pool ping it to verify that it is not in use").
BusyNotLeased ==
  \A seed \in Seeds, a \in 0..Hosts6 - 1 :
    a \notin get_ipv4_lease(seed, {a}) /\ a \notin get_ipv6_lease(seed, {a})

\* Addresses have one owner: the table is exact, no address or subnet of the pool is leased
\* twice, and none that is reserved is given out (ip-lease.c:105, 150, 174, 577).
AddressesOwned == LeaseTableExact /\ PoolLeasesDistinct /\ NoReservedAddress
=============================================================================
