------------------------------ MODULE ProcTable ------------------------------
(***************************************************************************)
(* Main's hash tables of procs (proc-search.c) and the forwarding of UDP   *)
(* packets to workers (main.c).  A table is a set of pairs of the key under *)
(* which a proc was inserted and the proc: an entry is found by the hash    *)
(* of its key, so a pair stays where it is when the proc's fields change.   *)
(***************************************************************************)
EXTENDS Integers, FiniteSets

CONSTANTS
  TProcs,     \* proc structures
  Addrs,      \* peer addresses, without the port
  Sids,       \* cookies
  NoAddr      \* dtls_remote_addr_len is 0

ASSUME AddrAssumption == NoAddr \notin Addrs

VARIABLES
  tp,         \* procs: status, addresses, cookie, a UDP socket was passed lately
  db_ip, db_dtls_ip, db_dtls_id, db_sid

ptvars == <<tp, db_ip, db_dtls_ip, db_dtls_id, db_sid>>

FreeProc == [st |-> "FREE", ip |-> NoAddr, dtls |-> NoAddr, sid |-> NoAddr, recent |-> FALSE]
Live(p) == tp[p].st # "FREE"

\* new_proc.
PtNew(p, a) ==
  /\ ~Live(p)
  /\ tp' = [tp EXCEPT ![p] = [st |-> "NEW", ip |-> a, dtls |-> NoAddr, sid |-> NoAddr, recent |-> FALSE]]
  /\ UNCHANGED <<db_ip, db_dtls_ip, db_dtls_id, db_sid>>

\* handle_auth_cookie_req and proc_table_add.  An insertion that runs out of memory
\* is undone; the DTLS id is fresh and stands for the proc.
proc_table_add(p, s, inserted) ==
  /\ tp[p].st = "NEW"
  /\ tp' = [tp EXCEPT ![p].sid = s, ![p].st = IF inserted THEN "PENDING" ELSE "FAILED"]
  /\ db_ip' = IF inserted THEN db_ip \cup {<<tp[p].ip, p>>} ELSE db_ip
  /\ db_dtls_id' = IF inserted THEN db_dtls_id \cup {<<p, p>>} ELSE db_dtls_id
  /\ db_sid' = IF inserted THEN db_sid \cup {<<s, p>>} ELSE db_sid
  /\ UNCHANGED db_dtls_ip

\* The session is accepted, at once or after the connect script.
PtAccept(p) ==
  /\ tp[p].st = "PENDING"
  /\ tp' = [tp EXCEPT ![p].st = "COMPLETED"]
  /\ UNCHANGED <<db_ip, db_dtls_ip, db_dtls_id, db_sid>>

\* Mutant: the entry of the old address is removed and none is added.
UpdateIpNoAdd(p, a) ==
  /\ Live(p) /\ a # tp[p].ip
  /\ tp' = [tp EXCEPT ![p].ip = a, ![p].dtls = IF @ = a THEN NoAddr ELSE @]
  /\ db_ip' = db_ip \ {<<tp[p].ip, p>>}
  /\ db_dtls_ip' = db_dtls_ip \ {<<a, p>>}
  /\ UNCHANGED <<db_dtls_id, db_sid>>

\* proc_table_update_ip, from SESSION_INFO behind a proxy: the entry is moved only if
\* there was one, and a DTLS entry of the same address is dropped.
proc_table_update_ip(p, a) ==
  LET removed == <<tp[p].ip, p>> \in db_ip
      same == tp[p].dtls = a /\ <<a, p>> \in db_dtls_ip
  IN /\ Live(p) /\ a # tp[p].ip
     /\ tp' = [tp EXCEPT ![p].ip = a, ![p].dtls = IF same THEN NoAddr ELSE @]
     /\ db_ip' = (db_ip \ {<<tp[p].ip, p>>}) \cup (IF removed THEN {<<a, p>>} ELSE {})
     /\ db_dtls_ip' = IF same THEN db_dtls_ip \ {<<a, p>>} ELSE db_dtls_ip
     /\ UNCHANGED <<db_dtls_id, db_sid>>

\* proc_table_update_dtls_ip; only an address that differs from the CSTP one is kept.
proc_table_update_dtls_ip(p, a, sent) ==
  LET others == db_dtls_ip \ {<<tp[p].dtls, p>>}
      kept == a # tp[p].ip
  IN /\ db_dtls_ip' = IF tp[p].dtls = a THEN db_dtls_ip
                      ELSE IF kept THEN others \cup {<<a, p>>} ELSE others
     /\ tp' = [tp EXCEPT ![p].dtls = IF @ = a \/ kept THEN a ELSE NoAddr, ![p].recent = sent]

\* proc_search_single_ip: any proc that the table offers first, the DTLS table first.
proc_search_single_ip(a) ==
  LET dtls == {p \in TProcs : <<a, p>> \in db_dtls_ip /\ a \in {tp[p].dtls, tp[p].ip}}
      cstp == {p \in TProcs : <<a, p>> \in db_ip /\ a \in {tp[p].dtls, tp[p].ip}}
  IN IF dtls # {} THEN dtls ELSE cstp

proc_search_dtls_id(id) == {p \in TProcs : <<id, p>> \in db_dtls_id}

\* forward_udp_to_owner of a well-formed client hello.  A packet of a proc that is not
\* authenticated, or that comes too soon after the last one, is dropped, and so is
\* one whose socket cannot be made; malformed packets change nothing.  The address
\* is recorded before the socket is sent.
UdpHello(id, a, sent) ==
  \E p \in proc_search_dtls_id(id) :
    /\ tp[p].st = "COMPLETED" /\ ~tp[p].recent
    /\ proc_table_update_dtls_ip(p, a, sent)
    /\ UNCHANGED <<db_ip, db_dtls_id, db_sid>>

\* forward_udp_to_owner of another packet.
UdpOther(a) ==
  \E p \in proc_search_single_ip(a) :
    /\ tp[p].st = "COMPLETED" /\ ~tp[p].recent
    /\ tp' = [tp EXCEPT ![p].recent = TRUE]
    /\ UNCHANGED <<db_ip, db_dtls_ip, db_dtls_id, db_sid>>

\* UDP_FD_RESEND_TIME passes.
UdpTime(p) ==
  /\ tp[p].recent
  /\ tp' = [tp EXCEPT ![p].recent = FALSE]
  /\ UNCHANGED <<db_ip, db_dtls_ip, db_dtls_id, db_sid>>

\* proc_table_del.
proc_table_del(p) ==
  /\ db_ip' = db_ip \ {<<tp[p].ip, p>>}
  /\ db_dtls_ip' = db_dtls_ip \ {<<tp[p].dtls, p>>}
  /\ db_dtls_id' = db_dtls_id \ {<<p, p>>}
  /\ db_sid' = db_sid \ {<<tp[p].sid, p>>}

\* The end of remove_proc: the structure is freed.
PtRemove(p) ==
  /\ Live(p)
  /\ proc_table_del(p)
  /\ tp' = [tp EXCEPT ![p] = FreeProc]

PtInit ==
  /\ tp = [p \in TProcs |-> FreeProc]
  /\ db_ip = {} /\ db_dtls_ip = {} /\ db_dtls_id = {} /\ db_sid = {}

PtNext ==
  \/ \E p \in TProcs, a \in Addrs : PtNew(p, a) \/ proc_table_update_ip(p, a)
  \/ \E id \in TProcs, a \in Addrs, sent \in BOOLEAN : UdpHello(id, a, sent)
  \/ \E p \in TProcs, s \in Sids, inserted \in BOOLEAN : proc_table_add(p, s, inserted)
  \/ \E p \in TProcs : PtAccept(p) \/ UdpTime(p) \/ PtRemove(p)
  \/ \E a \in Addrs : UdpOther(a)

PtSpec == PtInit /\ [][PtNext]_ptvars

-----------------------------------------------------------------------------
\* Every entry of every table is a live proc under the key it has now, after any
\* order of address changes, DTLS moves and removals: no entry dangles, a rehash
\* leaves each where it is found, and proc_table_del finds all of them
\* (proc-search.c:209, main-proc.c:152).
TablesCurrent ==
  /\ \A e \in db_ip : tp[e[2]].ip = e[1]
  /\ \A e \in db_dtls_ip : tp[e[2]].dtls = e[1]
  /\ \A e \in db_sid : tp[e[2]].sid = e[1]
  /\ \A e \in db_dtls_id : Live(e[2])

\* An authenticated proc can be found by its id, its cookie and its CSTP address, and
\* by its DTLS address while that differs (proc-search.c:127 "only add into table if
\* the previous entry was there").
AuthenticatedIsFound ==
  \A p \in TProcs : tp[p].st = "COMPLETED" =>
    /\ <<tp[p].ip, p>> \in db_ip /\ <<p, p>> \in db_dtls_id /\ <<tp[p].sid, p>> \in db_sid
    /\ tp[p].dtls # NoAddr => <<tp[p].dtls, p>> \in db_dtls_ip

\* A proc is in the DTLS table only under an address that its CSTP channel does not
\* have (proc-search.c:138 "to avoid keeping duplicate entries").
NoDuplicateAddress == \A p \in TProcs : tp[p].dtls # NoAddr => tp[p].dtls # tp[p].ip

\* A packet that is matched by its address reaches the only proc with that address
\* (proc-search.c:250 "returns a result only if there is a single IP matching").
SingleMatchOnly ==
  \A a \in Addrs : proc_search_single_ip(a) # {} =>
    Cardinality({p \in TProcs : tp[p].st = "COMPLETED" /\ a \in {tp[p].dtls, tp[p].ip}}) <= 1

\* The lookup tables follow the procs (proc_table_add, proc_table_update_ip,
\* proc_table_del): every key is current, an authenticated client is found by every key
\* it has, and an address is entered once.
ProcsFound == TablesCurrent /\ AuthenticatedIsFound /\ NoDuplicateAddress
=============================================================================
