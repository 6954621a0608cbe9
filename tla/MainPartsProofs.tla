--------------------------- MODULE MainPartsProofs ---------------------------
(***************************************************************************)
(* Three tables of main, for any number of procs and addresses: the lookup  *)
(* tables follow the procs (ProcTable), addresses have one owner, for every *)
(* network, subnet size and hash (IpLease), and a ban lasts for ban_time,   *)
(* for every limit, time, width and set of scores (BanList).                *)
(***************************************************************************)
EXTENDS ProcTable, IpLease, BanList, TLAPS

-----------------------------------------------------------------------------
(* The lookup tables (proc-search.c).  The tables alone do not say who is   *)
(* in them: the invariant adds that a proc is in all the tables from the    *)
(* moment its session is inserted until it is removed, and in none before.  *)

Record ==
  [st : {"FREE", "NEW", "PENDING", "COMPLETED", "FAILED"}, ip : Addrs \cup {NoAddr}, dtls : Addrs \cup {NoAddr},
   sid : Sids \cup {NoAddr}, recent : BOOLEAN]

ProcTypeOK == tp \in [TProcs -> Record]

\* proc_table_add has inserted the proc.
In(p) == tp[p].st \in {"PENDING", "COMPLETED"}

\* The contents of the tables.
TablesExact ==
  /\ \A e : e \in db_ip <=> \E p \in TProcs : In(p) /\ e = <<tp[p].ip, p>>
  /\ \A e : e \in db_dtls_id <=> \E p \in TProcs : In(p) /\ e = <<p, p>>
  /\ \A e : e \in db_sid <=> \E p \in TProcs : In(p) /\ e = <<tp[p].sid, p>>
  /\ \A e : e \in db_dtls_ip <=> \E p \in TProcs : In(p) /\ tp[p].dtls # NoAddr /\ e = <<tp[p].dtls, p>>

OnlyInHaveDtls == \A p \in TProcs : ~In(p) => tp[p].dtls = NoAddr

ProcInv == ProcTypeOK /\ TablesExact /\ OnlyInHaveDtls /\ NoDuplicateAddress

-----------------------------------------------------------------------------
\* A change of one proc, told by its fields, and of its entries in the four tables
\* keeps the tables exact (proc_table_add, proc_table_update_ip,
\* proc_table_update_dtls_ip, proc_table_del).
LEMMA OneProcChanges ==
  ASSUME ProcInv, NEW p \in TProcs, tp' \in [TProcs -> Record],
         \A q \in TProcs : q # p => tp'[q] = tp[q],
         \A e : e \in db_ip' <=> (e \in db_ip /\ e[2] # p) \/ (In(p)' /\ e = <<tp'[p].ip, p>>),
         \A e : e \in db_dtls_id' <=> (e \in db_dtls_id /\ e[2] # p) \/ (In(p)' /\ e = <<p, p>>),
         \A e : e \in db_sid' <=> (e \in db_sid /\ e[2] # p) \/ (In(p)' /\ e = <<tp'[p].sid, p>>),
         \A e : e \in db_dtls_ip' <=> \/ e \in db_dtls_ip /\ e[2] # p
                                      \/ In(p)' /\ tp'[p].dtls # NoAddr /\ e = <<tp'[p].dtls, p>>,
         ~In(p)' => tp'[p].dtls = NoAddr,
         tp'[p].dtls # NoAddr => tp'[p].dtls # tp'[p].ip
  PROVE  ProcInv'
<1>1. \A q \in TProcs : q # p => (In(q)' <=> In(q))
  BY DEF In
<1>2. ProcTypeOK' /\ OnlyInHaveDtls' /\ NoDuplicateAddress'
  BY <1>1 DEF ProcInv, ProcTypeOK, OnlyInHaveDtls, NoDuplicateAddress
<1>3. \A e : e \in db_ip' <=> \E q \in TProcs : In(q)' /\ e = <<tp'[q].ip, q>>
  BY <1>1 DEF ProcInv, TablesExact
<1>4. \A e : e \in db_dtls_id' <=> \E q \in TProcs : In(q)' /\ e = <<q, q>>
  BY <1>1 DEF ProcInv, TablesExact
<1>5. \A e : e \in db_sid' <=> \E q \in TProcs : In(q)' /\ e = <<tp'[q].sid, q>>
  BY <1>1 DEF ProcInv, TablesExact
<1>6. \A e : e \in db_dtls_ip' <=> \E q \in TProcs : In(q)' /\ tp'[q].dtls # NoAddr /\ e = <<tp'[q].dtls, q>>
  BY <1>1 DEF ProcInv, TablesExact
<1> QED
  BY <1>2, <1>3, <1>4, <1>5, <1>6 DEF ProcInv, TablesExact

\* The entries of a proc in the four tables.
LEMMA Entries ==
  ASSUME ProcInv, NEW p \in TProcs
  PROVE  /\ \A e : e \in db_ip /\ e[2] = p <=> In(p) /\ e = <<tp[p].ip, p>>
         /\ \A e : e \in db_dtls_id /\ e[2] = p <=> In(p) /\ e = <<p, p>>
         /\ \A e : e \in db_sid /\ e[2] = p <=> In(p) /\ e = <<tp[p].sid, p>>
         /\ \A e : e \in db_dtls_ip /\ e[2] = p <=> In(p) /\ tp[p].dtls # NoAddr /\ e = <<tp[p].dtls, p>>
BY DEF ProcInv, TablesExact

\* A record with fields of their types is a proc.
LEMMA IsRecord ==
  ASSUME NEW s \in {"FREE", "NEW", "PENDING", "COMPLETED", "FAILED"}, NEW i \in Addrs \cup {NoAddr},
         NEW d \in Addrs \cup {NoAddr}, NEW c \in Sids \cup {NoAddr}, NEW b \in BOOLEAN
  PROVE  [st |-> s, ip |-> i, dtls |-> d, sid |-> c, recent |-> b] \in Record
BY Zenon DEF Record

\* new_proc.
LEMMA NewKeeps == ASSUME ProcInv, NEW p \in TProcs, NEW a \in Addrs, PtNew(p, a) PROVE ProcInv'
<1> DEFINE r == [st |-> "NEW", ip |-> a, dtls |-> NoAddr, sid |-> NoAddr, recent |-> FALSE]
<1>1. r \in Record /\ ~(r.st \in {"PENDING", "COMPLETED"}) /\ r.dtls = NoAddr
  <2>1. r \in Record
    BY IsRecord
  <2> QED
    BY <2>1
<1>2. tp' = [tp EXCEPT ![p] = r]
  BY DEF PtNew
<1>3. tp \in [TProcs -> Record] /\ ~In(p)
  BY DEF ProcInv, ProcTypeOK, PtNew, Live, In
<1> HIDE DEF r
<1>4. /\ tp' \in [TProcs -> Record] /\ tp'[p] = r
      /\ \A q \in TProcs : q # p => tp'[q] = tp[q]
  BY <1>1, <1>2, <1>3
<1>5. ~In(p)'
  BY <1>1, <1>4 DEF In
<1>6. /\ \A e \in db_ip \cup db_dtls_id \cup db_sid \cup db_dtls_ip : e[2] # p
      /\ db_ip' = db_ip /\ db_dtls_id' = db_dtls_id /\ db_sid' = db_sid /\ db_dtls_ip' = db_dtls_ip
  BY <1>3, Entries DEF PtNew
<1>7. tp'[p].dtls = NoAddr
  BY <1>1, <1>4
<1> QED
  BY <1>4, <1>5, <1>6, <1>7, OneProcChanges

\* handle_auth_cookie_req with proc_table_add.
LEMMA AddKeeps ==
  ASSUME ProcInv, NEW p \in TProcs, NEW s \in Sids, NEW inserted \in BOOLEAN, proc_table_add(p, s, inserted)
  PROVE  ProcInv'
<1>1. tp \in [TProcs -> Record] /\ ~In(p) /\ tp[p].dtls = NoAddr
  BY DEF ProcInv, ProcTypeOK, proc_table_add, In, OnlyInHaveDtls
<1>2. /\ tp'[p].ip = tp[p].ip /\ tp'[p].dtls = NoAddr /\ tp'[p].sid = s
      /\ tp'[p].st = IF inserted THEN "PENDING" ELSE "FAILED"
      /\ \A q \in TProcs : q # p => tp'[q] = tp[q]
  BY <1>1 DEF proc_table_add, Record
<1>3. tp' \in [TProcs -> Record]
  BY <1>1 DEF proc_table_add, Record
<1>4. In(p)' <=> inserted
  BY <1>2 DEF In
<1>5. \A e \in db_ip \cup db_dtls_id \cup db_sid \cup db_dtls_ip : e[2] # p
  BY <1>1, Entries
<1>6. /\ \A e : e \in db_ip' <=> e \in db_ip \/ (inserted /\ e = <<tp[p].ip, p>>)
      /\ \A e : e \in db_dtls_id' <=> e \in db_dtls_id \/ (inserted /\ e = <<p, p>>)
      /\ \A e : e \in db_sid' <=> e \in db_sid \/ (inserted /\ e = <<s, p>>)
      /\ db_dtls_ip' = db_dtls_ip
  BY DEF proc_table_add
<1> QED
  BY <1>2, <1>3, <1>4, <1>5, <1>6, OneProcChanges

\* The steps that change no address, cookie or table.
LEMMA FieldsKeep ==
  ASSUME ProcInv, NEW p \in TProcs, tp' \in [TProcs -> Record],
         \A q \in TProcs : q # p => tp'[q] = tp[q],
         In(p)' <=> In(p),
         tp'[p].ip = tp[p].ip, tp'[p].dtls = tp[p].dtls, tp'[p].sid = tp[p].sid,
         UNCHANGED <<db_ip, db_dtls_ip, db_dtls_id, db_sid>>
  PROVE  ProcInv'
<1>1. \A q \in TProcs : (In(q)' <=> In(q)) /\ tp'[q].ip = tp[q].ip /\ tp'[q].dtls = tp[q].dtls /\ tp'[q].sid = tp[q].sid
  BY DEF In
<1> QED
  BY <1>1 DEF ProcInv, ProcTypeOK, TablesExact, OnlyInHaveDtls, NoDuplicateAddress

\* The session is accepted.
LEMMA AcceptKeeps == ASSUME ProcInv, NEW p \in TProcs, PtAccept(p) PROVE ProcInv'
<1>1. tp \in [TProcs -> Record]
  BY DEF ProcInv, ProcTypeOK
<1>2. /\ tp'[p].ip = tp[p].ip /\ tp'[p].dtls = tp[p].dtls /\ tp'[p].sid = tp[p].sid
      /\ tp'[p].st = "COMPLETED"
      /\ \A q \in TProcs : q # p => tp'[q] = tp[q]
  BY <1>1 DEF PtAccept, Record
<1>3. tp' \in [TProcs -> Record]
  BY <1>1 DEF PtAccept, Record
<1>4. In(p)' /\ In(p)
  BY <1>2 DEF PtAccept, In
<1> QED
  BY <1>2, <1>3, <1>4, FieldsKeep DEF PtAccept

\* The time of the last UDP socket is noted or forgotten.
LEMMA TimeKeeps ==
  ASSUME ProcInv, NEW p \in TProcs, NEW b \in BOOLEAN, tp' = [tp EXCEPT ![p].recent = b],
         UNCHANGED <<db_ip, db_dtls_ip, db_dtls_id, db_sid>>
  PROVE  ProcInv'
<1>1. tp \in [TProcs -> Record]
  BY DEF ProcInv, ProcTypeOK
<1>2. /\ tp'[p].ip = tp[p].ip /\ tp'[p].dtls = tp[p].dtls /\ tp'[p].sid = tp[p].sid
      /\ tp'[p].st = tp[p].st
      /\ \A q \in TProcs : q # p => tp'[q] = tp[q]
  BY <1>1 DEF Record
<1>3. tp' \in [TProcs -> Record]
  BY <1>1 DEF Record
<1>4. In(p)' <=> In(p)
  BY <1>2 DEF In
<1> QED
  BY <1>2, <1>3, <1>4, FieldsKeep

\* proc_table_update_ip.
LEMMA UpdateIpKeeps == ASSUME ProcInv, NEW p \in TProcs, NEW a \in Addrs, proc_table_update_ip(p, a) PROVE ProcInv'
<1> DEFINE same == tp[p].dtls = a /\ <<a, p>> \in db_dtls_ip
<1>1. tp \in [TProcs -> Record] /\ NoAddr \notin Addrs
  BY AddrAssumption DEF ProcInv, ProcTypeOK, AddrAssumption
<1>2. /\ tp'[p].ip = a /\ tp'[p].dtls = (IF same THEN NoAddr ELSE tp[p].dtls) /\ tp'[p].sid = tp[p].sid
      /\ tp'[p].st = tp[p].st
      /\ \A q \in TProcs : q # p => tp'[q] = tp[q]
  BY <1>1 DEF proc_table_update_ip, Record
<1>3. tp' \in [TProcs -> Record]
  <2> DEFINE d == IF same THEN NoAddr ELSE tp[p].dtls
  <2>1. d \in Addrs \cup {NoAddr}
    BY <1>1 DEF Record
  <2>2. tp' = [tp EXCEPT ![p].ip = a, ![p].dtls = d]
    BY DEF proc_table_update_ip
  <2> HIDE DEF d
  <2> DEFINE r == [tp[p] EXCEPT !.ip = a, !.dtls = d]
  <2>3. r \in Record
    BY <1>1, <2>1 DEF Record
  <2>4. tp' = [tp EXCEPT ![p] = r]
    BY <1>1, <2>2
  <2> HIDE DEF r
  <2> QED
    BY <1>1, <2>3, <2>4
<1>4. In(p)' <=> In(p)
  BY <1>2 DEF In
<1>5. same <=> tp[p].dtls = a
  BY <1>1, Entries DEF ProcInv, OnlyInHaveDtls
<1>6. db_dtls_id' = db_dtls_id /\ db_sid' = db_sid
  BY DEF proc_table_update_ip
<1>7. \A e : e \in db_ip' <=> (e \in db_ip /\ e[2] # p) \/ (In(p)' /\ e = <<tp'[p].ip, p>>)
  BY <1>2, <1>4, Entries DEF proc_table_update_ip
<1>8. \A e : e \in db_dtls_ip' <=> \/ e \in db_dtls_ip /\ e[2] # p
                                   \/ In(p)' /\ tp'[p].dtls # NoAddr /\ e = <<tp'[p].dtls, p>>
  <2>1. CASE same
    <3>1. \A e : e \in db_dtls_ip' <=> e \in db_dtls_ip /\ e # <<a, p>>
      BY <2>1 DEF proc_table_update_ip
    <3>2. tp'[p].dtls = NoAddr
      BY <1>2, <2>1
    <3> QED
      BY <2>1, <3>1, <3>2, Entries
  <2>2. CASE ~same
    <3>1. db_dtls_ip' = db_dtls_ip
      BY <2>2 DEF proc_table_update_ip
    <3>2. tp'[p].dtls = tp[p].dtls
      BY <1>2, <2>2
    <3> QED
      BY <1>4, <3>1, <3>2, Entries
  <2> QED
    BY <2>1, <2>2
<1>9. \A e : e \in db_dtls_id' <=> (e \in db_dtls_id /\ e[2] # p) \/ (In(p)' /\ e = <<p, p>>)
  BY <1>4, <1>6, Entries
<1>10. \A e : e \in db_sid' <=> (e \in db_sid /\ e[2] # p) \/ (In(p)' /\ e = <<tp'[p].sid, p>>)
  BY <1>2, <1>4, <1>6, Entries
<1>11. ~In(p)' => tp'[p].dtls = NoAddr
  BY <1>2, <1>4 DEF ProcInv, OnlyInHaveDtls
<1>12. tp'[p].dtls # NoAddr => tp'[p].dtls # tp'[p].ip
  BY <1>2, <1>5
<1> QED
  BY <1>2, <1>3, <1>7, <1>8, <1>9, <1>10, <1>11, <1>12, OneProcChanges

\* forward_udp_to_owner of a client hello, with proc_table_update_dtls_ip.
LEMMA HelloKeeps ==
  ASSUME ProcInv, NEW id \in TProcs, NEW a \in Addrs, NEW sent \in BOOLEAN, UdpHello(id, a, sent) PROVE ProcInv'
<1>1. tp \in [TProcs -> Record] /\ NoAddr \notin Addrs
  BY AddrAssumption DEF ProcInv, ProcTypeOK, AddrAssumption
<1>2. PICK p \in TProcs : /\ tp[p].st = "COMPLETED" /\ proc_table_update_dtls_ip(p, a, sent)
                          /\ UNCHANGED <<db_ip, db_dtls_id, db_sid>>
  BY DEF UdpHello, proc_search_dtls_id
<1> DEFINE dtls == IF tp[p].dtls = a \/ a # tp[p].ip THEN a ELSE NoAddr
<1>3. /\ tp'[p].ip = tp[p].ip /\ tp'[p].dtls = dtls /\ tp'[p].sid = tp[p].sid
      /\ tp'[p].st = tp[p].st
      /\ \A q \in TProcs : q # p => tp'[q] = tp[q]
  BY <1>1, <1>2 DEF proc_table_update_dtls_ip, Record
<1>4. tp' \in [TProcs -> Record]
  <2>1. dtls \in Addrs \cup {NoAddr}
    OBVIOUS
  <2>2. tp' = [tp EXCEPT ![p].dtls = dtls, ![p].recent = sent]
    BY <1>2 DEF proc_table_update_dtls_ip
  <2> HIDE DEF dtls
  <2> DEFINE r == [tp[p] EXCEPT !.dtls = dtls, !.recent = sent]
  <2>3. r \in Record
    BY <1>1, <2>1 DEF Record
  <2>4. tp' = [tp EXCEPT ![p] = r]
    BY <1>1, <2>2
  <2> HIDE DEF r
  <2> QED
    BY <1>1, <2>3, <2>4
<1>5. In(p)' /\ In(p)
  BY <1>2, <1>3 DEF In
<1>6. \A e : e \in db_dtls_ip' <=> (e \in db_dtls_ip /\ e[2] # p) \/ (dtls # NoAddr /\ e = <<dtls, p>>)
  <2>1. CASE tp[p].dtls = a
    <3>1. db_dtls_ip' = db_dtls_ip /\ dtls = a
      BY <1>2, <2>1 DEF proc_table_update_dtls_ip
    <3> QED
      BY <1>1, <1>5, <2>1, <3>1, Entries
  <2>2. CASE tp[p].dtls # a
    <3>1. \A e : e \in db_dtls_ip' <=> (e \in db_dtls_ip /\ e # <<tp[p].dtls, p>>) \/ (a # tp[p].ip /\ e = <<a, p>>)
      BY <1>2, <2>2 DEF proc_table_update_dtls_ip
    <3>2. \A e : e \in db_dtls_ip /\ e # <<tp[p].dtls, p>> <=> e \in db_dtls_ip /\ e[2] # p
      BY <1>5, Entries
    <3> QED
      BY <1>1, <2>2, <3>1, <3>2
  <2> QED
    BY <2>1, <2>2
<1>7. \A e : e \in db_ip' <=> (e \in db_ip /\ e[2] # p) \/ (In(p)' /\ e = <<tp'[p].ip, p>>)
  BY <1>2, <1>3, <1>5, Entries
<1>8. \A e : e \in db_dtls_id' <=> (e \in db_dtls_id /\ e[2] # p) \/ (In(p)' /\ e = <<p, p>>)
  BY <1>2, <1>5, Entries
<1>9. \A e : e \in db_sid' <=> (e \in db_sid /\ e[2] # p) \/ (In(p)' /\ e = <<tp'[p].sid, p>>)
  BY <1>2, <1>3, <1>5, Entries
<1>10. dtls # NoAddr => dtls # tp[p].ip
  BY <1>1 DEF ProcInv, NoDuplicateAddress
<1> HIDE DEF dtls
<1> QED
  BY <1>3, <1>4, <1>5, <1>6, <1>7, <1>8, <1>9, <1>10, OneProcChanges

\* The end of remove_proc, with proc_table_del.
LEMMA DelKeeps == ASSUME ProcInv, NEW p \in TProcs, PtRemove(p) PROVE ProcInv'
<1>1. tp \in [TProcs -> Record]
  BY DEF ProcInv, ProcTypeOK
<1>2. FreeProc \in Record /\ FreeProc.st = "FREE" /\ FreeProc.dtls = NoAddr
  BY IsRecord DEF FreeProc
<1>3. /\ tp' \in [TProcs -> Record] /\ tp'[p] = FreeProc
      /\ \A q \in TProcs : q # p => tp'[q] = tp[q]
  BY <1>1, <1>2 DEF PtRemove
<1>4. ~In(p)' /\ tp'[p].dtls = NoAddr
  BY <1>2, <1>3 DEF In
<1>5. /\ \A e : e \in db_ip' <=> e \in db_ip /\ e # <<tp[p].ip, p>>
      /\ \A e : e \in db_dtls_id' <=> e \in db_dtls_id /\ e # <<p, p>>
      /\ \A e : e \in db_sid' <=> e \in db_sid /\ e # <<tp[p].sid, p>>
      /\ \A e : e \in db_dtls_ip' <=> e \in db_dtls_ip /\ e # <<tp[p].dtls, p>>
  BY DEF PtRemove, proc_table_del
<1>6. /\ \A e : e \in db_ip /\ e # <<tp[p].ip, p>> <=> e \in db_ip /\ e[2] # p
      /\ \A e : e \in db_dtls_id /\ e # <<p, p>> <=> e \in db_dtls_id /\ e[2] # p
      /\ \A e : e \in db_sid /\ e # <<tp[p].sid, p>> <=> e \in db_sid /\ e[2] # p
      /\ \A e : e \in db_dtls_ip /\ e # <<tp[p].dtls, p>> <=> e \in db_dtls_ip /\ e[2] # p
  BY Entries
<1> QED
  BY <1>3, <1>4, <1>5, <1>6, OneProcChanges

-----------------------------------------------------------------------------
\* For any number of clients, addresses and cookies, in any order of logins, address
\* changes behind a proxy, UDP packets and removals: no entry of a lookup table is
\* stale, an authenticated proc is found by each of its keys, and no proc is in the
\* DTLS table under its CSTP address.
THEOREM ProcsAreFound == PtSpec => []ProcsFound
<1>1. PtInit => ProcInv
  <2> SUFFICES ASSUME PtInit PROVE ProcInv
    OBVIOUS
  <2>1. FreeProc \in Record /\ FreeProc.st = "FREE" /\ FreeProc.dtls = NoAddr
    BY IsRecord DEF FreeProc
  <2>2. ProcTypeOK /\ \A p \in TProcs : ~In(p) /\ tp[p].dtls = NoAddr
    BY <2>1 DEF PtInit, ProcTypeOK, In
  <2> QED
    BY <2>2 DEF PtInit, ProcInv, TablesExact, OnlyInHaveDtls, NoDuplicateAddress
<1>2. ProcInv /\ [PtNext]_ptvars => ProcInv'
  <2> SUFFICES ASSUME ProcInv, [PtNext]_ptvars PROVE ProcInv'
    OBVIOUS
  <2>1. ASSUME NEW p \in TProcs, UdpTime(p) PROVE ProcInv'
    BY <2>1, TimeKeeps DEF UdpTime
  <2>2. ASSUME NEW a \in Addrs, UdpOther(a) PROVE ProcInv'
    <3>1. PICK p \in TProcs : /\ tp' = [tp EXCEPT ![p].recent = TRUE]
                              /\ UNCHANGED <<db_ip, db_dtls_ip, db_dtls_id, db_sid>>
      BY <2>2 DEF UdpOther, proc_search_single_ip
    <3> QED
      BY <3>1, TimeKeeps
  <2>3. CASE UNCHANGED ptvars
    BY <2>3 DEF ptvars, ProcInv, ProcTypeOK, TablesExact, In, OnlyInHaveDtls, NoDuplicateAddress
  <2> QED
    BY <2>1, <2>2, <2>3, NewKeeps, UpdateIpKeeps, HelloKeeps, AddKeeps, AcceptKeeps, DelKeeps DEF PtNext
<1>3. ProcInv => ProcsFound
  <2> SUFFICES ASSUME ProcInv PROVE ProcsFound
    OBVIOUS
  <2>1. TablesCurrent
    BY DEF ProcInv, TablesExact, TablesCurrent, In, Live
  <2>2. AuthenticatedIsFound
    BY DEF ProcInv, TablesExact, AuthenticatedIsFound, In
  <2> QED
    BY <2>1, <2>2 DEF ProcInv, ProcsFound
<1> QED
  BY <1>1, <1>2, <1>3, PTL DEF PtSpec

-----------------------------------------------------------------------------
(* The leases (ip-lease.c).                                                 *)

Leases == [kind : {"none", "pool", "explicit", "copy"}, rip : Int]
ProcLeases == [st : {"gone", "new", "open"}, v4 : Leases, v6 : Leases]

LeaseTypeOK == lease \in [LProcs -> ProcLeases]

\* What an entry of the table stands for.
Means(ls, p, e) ==
  \/ ls[p].v4.kind = "pool" /\ e = <<"v4", ls[p].v4.rip, p>>
  \/ ls[p].v6.kind = "pool" /\ e = <<"v6", Sig6(ls[p].v6.rip), p>>

\* The three conjuncts for any leases and table.
Exact(ls, ht) == \A e : e \in ht <=> \E p \in LProcs : Means(ls, p, e)

Distinct(ls) ==
  \A p, q \in LProcs : p # q =>
    /\ ls[p].v4.kind = "pool" /\ ls[q].v4.kind = "pool" => ls[p].v4.rip # ls[q].v4.rip
    /\ ls[p].v6.kind = "pool" /\ ls[q].v6.kind = "pool" => Sig6(ls[p].v6.rip) # Sig6(ls[q].v6.rip)

Allowed4(l) == l.kind # "none" => l.rip # lip4 /\ (P2p \/ l.rip \notin {0, Hosts4 - 1})
Allowed6(l) == l.kind # "none" => Sig6(l.rip) # lip6
Unreserved(ls) == \A p \in LProcs : Allowed4(ls[p].v4) /\ Allowed6(ls[p].v6)

Good(ls, ht) == Exact(ls, ht) /\ Distinct(ls) /\ Unreserved(ls)

LeaseInv == LeaseTypeOK /\ Good(lease, lht)

-----------------------------------------------------------------------------
\* The invariant is what the model states, written without unions.
LEMMA GoodIsOwned == LeaseTypeOK => (Good(lease, lht) <=> AddressesOwned)
<1> SUFFICES ASSUME LeaseTypeOK PROVE Good(lease, lht) <=> AddressesOwned
  OBVIOUS
<1>1. Exact(lease, lht) <=> LeaseTableExact
  BY DEF Exact, Means, LeaseTableExact, Owned, Sig
<1>2. Distinct(lease) <=> PoolLeasesDistinct
  BY DEF Distinct, PoolLeasesDistinct, Sig, LeaseTypeOK, ProcLeases, Leases
<1>3. Unreserved(lease) <=> NoReservedAddress
  BY DEF Unreserved, Allowed4, Allowed6, NoReservedAddress
<1> QED
  BY <1>1, <1>2, <1>3 DEF Good, AddressesOwned

\* What a search returns is good, or a failure (get_ipv4_lease, get_ipv6_lease).
LEMMA SearchIsGood ==
  ASSUME NEW fixed, NEW random, NEW good
  PROVE  Search(fixed, random, good) \subseteq good \cup {Failed}
BY DEF Search

\* A new lease of IPv4 is free and not reserved, or refused.
LEMMA NewLease4 ==
  ASSUME NEW l, NEW how \in {"off", "pool", "explicit"}, NEW seed \in Seeds, NEW busy,
         NEW m \in Outcomes("v4", l, how, seed, busy), m # l
  PROVE  /\ l = NoLease
         /\ m \in Leases
         /\ m.kind \in {"pool", "explicit"}
         /\ m.rip # Failed => Allowed4(m) /\ ~ip_lease_exists("v4", m.rip)
<1>1. CASE l # NoLease
  BY <1>1 DEF Outcomes
<1>2. CASE l = NoLease /\ how = "off"
  BY <1>2 DEF Outcomes
<1>3. CASE l = NoLease /\ how = "pool"
  <2>1. PICK a \in get_ipv4_lease(seed, busy) : m = [kind |-> "pool", rip |-> a]
    BY <1>3 DEF Outcomes
  <2>2. a = Failed \/ (a \in 0..Hosts4 - 1 /\ is_ipv4_ok(a) /\ a # lip4)
    BY <2>1, SearchIsGood DEF get_ipv4_lease
  <2>3. a \in Int
    BY <2>2, LeaseAssumption DEF LeaseAssumption, Failed
  <2> QED
    BY <1>3, <2>1, <2>2, <2>3 DEF Leases, Allowed4, is_ipv4_ok
<1>4. CASE l = NoLease /\ how = "explicit"
  <2>0. seed \in Int /\ Failed \in Int
    BY LeaseAssumption DEF LeaseAssumption, Failed
  <2>1. PICK a \in Explicit4(seed) : m = [kind |-> "explicit", rip |-> a]
    BY <1>4 DEF Outcomes
  <2>2. a = Failed \/ (a = seed /\ is_ipv4_ok(a) /\ a # lip4)
    BY <2>1 DEF Explicit4
  <2>3. a \in Int
    BY <2>0, <2>2
  <2> QED
    BY <1>4, <2>1, <2>2, <2>3 DEF Leases, Allowed4, is_ipv4_ok
<1> QED
  BY <1>1, <1>2, <1>3, <1>4

\* A new lease of IPv6 is of a free subnet that is not the server's, or refused.
LEMMA NewLease6 ==
  ASSUME NEW l, NEW how \in {"off", "pool", "explicit"}, NEW seed \in Seeds, NEW busy,
         NEW m \in Outcomes("v6", l, how, seed, busy), m # l
  PROVE  /\ l = NoLease
         /\ m \in Leases
         /\ m.kind \in {"pool", "explicit"}
         /\ m.rip # Failed => Allowed6(m) /\ ~ip_lease_exists("v6", Sig6(m.rip))
<1>1. CASE l # NoLease
  BY <1>1 DEF Outcomes
<1>2. CASE l = NoLease /\ how = "off"
  BY <1>2 DEF Outcomes
<1>3. CASE l = NoLease /\ how = "pool"
  <2>1. PICK a \in get_ipv6_lease(seed, busy) : m = [kind |-> "pool", rip |-> a]
    BY <1>3 DEF Outcomes
  <2>2. a = Failed \/ (a \in 0..Hosts6 - 1 /\ is_ipv6_ok(a))
    BY <2>1, SearchIsGood DEF get_ipv6_lease
  <2>3. a \in Int
    BY <2>2, LeaseAssumption DEF LeaseAssumption, Failed
  <2> QED
    BY <1>3, <2>1, <2>2, <2>3 DEF Leases, Allowed6, is_ipv6_ok
<1>4. CASE l = NoLease /\ how = "explicit"
  <2>0. seed \in Int /\ Failed \in Int
    BY LeaseAssumption DEF LeaseAssumption, Failed
  <2>1. PICK a \in Explicit6(seed) : m = [kind |-> "explicit", rip |-> a]
    BY <1>4 DEF Outcomes
  <2>2. a = Failed \/ (a = seed /\ is_ipv6_ok(a))
    BY <2>1 DEF Explicit6
  <2>3. a \in Int
    BY <2>0, <2>2
  <2> QED
    BY <1>4, <2>1, <2>2, <2>3 DEF Leases, Allowed6, is_ipv6_ok
<1> QED
  BY <1>1, <1>2, <1>3, <1>4

\* A session that continues takes its leases along, and what stays behind is a copy
\* that owns nothing (steal_ip_leases).
LEMMA LeaseStealKeeps ==
  ASSUME LeaseInv, NEW p \in LProcs, NEW old \in LProcs, lease[p] = Fresh
  PROVE  LET had == steal_ip_leases(old, p)
         IN /\ had \in [LProcs -> ProcLeases]
            /\ \A q \in LProcs : q # p /\ q # old => had[q] = lease[q]
            /\ had[p] = [st |-> "new", v4 |-> lease[old].v4, v6 |-> lease[old].v6]
            /\ old # p => /\ had[old].v4.kind # "pool" /\ had[old].v6.kind # "pool"
                          /\ had[old].v4 = Copy(lease[old].v4) /\ had[old].v6 = Copy(lease[old].v6)
<1> DEFINE had == steal_ip_leases(old, p)
<1>1. lease \in [LProcs -> ProcLeases]
  BY DEF LeaseInv, LeaseTypeOK
<1>2. \A l \in Leases : Copy(l) \in Leases /\ Copy(l).kind # "pool"
  <2> SUFFICES ASSUME NEW l \in Leases PROVE Copy(l) \in Leases /\ Copy(l).kind # "pool"
    OBVIOUS
  <2>1. CASE l.kind = "none"
    BY <2>1 DEF Copy, NoLease, Leases
  <2>2. CASE l.kind # "none"
    BY <2>2 DEF Copy, Leases
  <2> QED
    BY <2>1, <2>2
<1>3. CASE old = p
  <2>1. had = lease
    BY <1>1, <1>3 DEF steal_ip_leases, ProcLeases
  <2> QED
    BY <1>1, <1>3, <2>1 DEF Fresh
<1>4. CASE old # p
  <2>0. lease[p].st = "new"
    BY DEF Fresh
  <2>1. had = [q \in LProcs |-> IF q = p THEN [st |-> "new", v4 |-> lease[old].v4, v6 |-> lease[old].v6]
                                ELSE IF q = old
                                THEN [st |-> lease[old].st, v4 |-> Copy(lease[old].v4), v6 |-> Copy(lease[old].v6)]
                                ELSE lease[q]]
    BY <1>1, <1>4, <2>0 DEF steal_ip_leases
  <2>2. lease[old].v4 \in Leases /\ lease[old].v6 \in Leases /\ lease[old].st \in {"gone", "new", "open"}
    BY <1>1 DEF ProcLeases
  <2>3. Copy(lease[old].v4) \in Leases /\ Copy(lease[old].v6) \in Leases
    BY <1>2, <2>2
  <2>4. had \in [LProcs -> ProcLeases]
    BY <1>1, <2>1, <2>2, <2>3 DEF ProcLeases
  <2> QED
    BY <1>2, <1>4, <2>1, <2>2, <2>4
<1> QED
  BY <1>3, <1>4

\* A proc that is removed takes its own entries out of the table and no other
\* (unref_ip_lease).
LEMMA LeaseRemoveKeeps ==
  ASSUME NEW ls \in [LProcs -> ProcLeases], NEW ht, Good(ls, ht), NEW p \in LProcs
  PROVE  /\ [ls EXCEPT ![p] = Gone] \in [LProcs -> ProcLeases]
         /\ Good([ls EXCEPT ![p] = Gone], ht \ unref_ip_lease(ls[p]))
<1> DEFINE ns == [ls EXCEPT ![p] = Gone]
           nt == ht \ unref_ip_lease(ls[p])
<1>1. Gone \in ProcLeases /\ Gone.v4 = NoLease /\ Gone.v6 = NoLease
  BY DEF Gone, NoLease, ProcLeases, Leases
<1>2. ns[p] = Gone /\ \A q \in LProcs : q # p => ns[q] = ls[q]
  OBVIOUS
<1>3. ns \in [LProcs -> ProcLeases]
  BY <1>1
<1>4. \A e : e \in unref_ip_lease(ls[p]) <=>
              \/ ls[p].v4.kind = "pool" /\ \E q \in LProcs : e = <<"v4", ls[p].v4.rip, q>>
              \/ ls[p].v6.kind = "pool" /\ \E q \in LProcs : e = <<"v6", Sig6(ls[p].v6.rip), q>>
  <2>1. ls[p]["v4"] = ls[p].v4 /\ ls[p]["v6"] = ls[p].v6
    OBVIOUS
  <2> QED
    BY <2>1 DEF unref_ip_lease, Sig
<1> HIDE DEF ns, nt
<1>5. Exact(ns, nt)
  <2> SUFFICES ASSUME NEW e PROVE e \in nt <=> \E q \in LProcs : Means(ns, q, e)
    BY DEF Exact
  <2>1. ~Means(ns, p, e)
    BY <1>1, <1>2 DEF Means, NoLease
  <2>2. \A q \in LProcs : q # p => (Means(ns, q, e) <=> Means(ls, q, e))
    BY <1>2 DEF Means
  <2>3. Means(ls, p, e) => e \in unref_ip_lease(ls[p])
    BY <1>4 DEF Means
  <2>4. ASSUME NEW q \in LProcs, q # p, Means(ls, q, e) PROVE e \notin unref_ip_lease(ls[p])
    BY <1>4, <2>4 DEF Means, Good, Distinct
  <2>5. e \in nt <=> (\E q \in LProcs : Means(ls, q, e)) /\ e \notin unref_ip_lease(ls[p])
    BY DEF nt, Good, Exact
  <2> QED
    BY <2>1, <2>2, <2>3, <2>4, <2>5
<1>6. Distinct(ns)
  BY <1>1, <1>2 DEF Good, Distinct, NoLease
<1>7. Unreserved(ns)
  BY <1>1, <1>2 DEF Good, Unreserved, Allowed4, Allowed6, NoLease
<1> QED
  BY <1>3, <1>5, <1>6, <1>7 DEF Good, ns, nt

\* The table still says who owns what after the leases of a session have moved.
LEMMA StealIsGood ==
  ASSUME LeaseInv, NEW p \in LProcs, NEW old \in LProcs, lease[p] = Fresh
  PROVE  Good(steal_ip_leases(old, p), Moved(old, p))
<1> DEFINE had == steal_ip_leases(old, p)
           mt == Moved(old, p)
<1>1. /\ had \in [LProcs -> ProcLeases]
      /\ \A q \in LProcs : q # p /\ q # old => had[q] = lease[q]
      /\ had[p] = [st |-> "new", v4 |-> lease[old].v4, v6 |-> lease[old].v6]
      /\ old # p => /\ had[old].v4.kind # "pool" /\ had[old].v6.kind # "pool"
                    /\ had[old].v4 = Copy(lease[old].v4) /\ had[old].v6 = Copy(lease[old].v6)
  BY LeaseStealKeeps
<1>2. lease[p].v4 = NoLease /\ lease[p].v6 = NoLease
  BY DEF Fresh
<1>3. had[p].v4 = lease[old].v4 /\ had[p].v6 = lease[old].v6
  BY <1>1
<1>4. Good(lease, lht)
  BY DEF LeaseInv
<1>5. \A e : e \in mt <=> \E d \in lht : e = IF d[3] = old THEN <<d[1], d[2], p>> ELSE d
  BY DEF Moved
<1> HIDE DEF had, mt
<1>6. Exact(had, mt)
  <2> SUFFICES ASSUME NEW e PROVE e \in mt <=> \E q \in LProcs : Means(had, q, e)
    BY DEF Exact
  <2>1. \A d : d \in lht <=> \E q \in LProcs : Means(lease, q, d)
    BY <1>4 DEF Good, Exact
  <2>2. \A d, q : Means(lease, q, d) => d[3] = q
    BY DEF Means
  <2>3. ASSUME e \in mt PROVE \E q \in LProcs : Means(had, q, e)
    <3>1. PICK d \in lht : e = IF d[3] = old THEN <<d[1], d[2], p>> ELSE d
      BY <1>5, <2>3
    <3>2. PICK q \in LProcs : Means(lease, q, d)
      BY <2>1
    <3>3. q # p \/ q = old
      BY <1>2, <3>2 DEF Means, NoLease
    <3>4. CASE q = old
      <4>1. e = <<d[1], d[2], p>>
        BY <2>2, <3>1, <3>2, <3>4
      <4> QED
        BY <1>3, <3>2, <3>4, <4>1 DEF Means
    <3>5. CASE q # old
      <4>1. e = d
        BY <2>2, <3>1, <3>2, <3>5
      <4> QED
        BY <1>1, <3>2, <3>3, <3>5, <4>1 DEF Means
    <3> QED
      BY <3>4, <3>5
  <2>4. ASSUME NEW q \in LProcs, Means(had, q, e) PROVE e \in mt
    <3>1. CASE q = p
      <4>1. CASE lease[old].v4.kind = "pool" /\ e = <<"v4", lease[old].v4.rip, p>>
        <5>1. <<"v4", lease[old].v4.rip, old>> \in lht
          BY <2>1, <4>1 DEF Means
        <5> QED
          BY <1>5, <4>1, <5>1
      <4>2. CASE lease[old].v6.kind = "pool" /\ e = <<"v6", Sig6(lease[old].v6.rip), p>>
        <5>1. <<"v6", Sig6(lease[old].v6.rip), old>> \in lht
          BY <2>1, <4>2 DEF Means
        <5> QED
          BY <1>5, <4>2, <5>1
      <4> QED
        BY <1>3, <2>4, <3>1, <4>1, <4>2 DEF Means
    <3>2. CASE q # p
      <4>1. q # old
        BY <1>1, <2>4, <3>2 DEF Means
      <4>2. Means(lease, q, e)
        BY <1>1, <2>4, <3>2, <4>1 DEF Means
      <4> QED
        BY <1>5, <2>1, <2>2, <4>1, <4>2
    <3> QED
      BY <3>1, <3>2
  <2> QED
    BY <2>3, <2>4
<1>7. Distinct(had)
  <2> SUFFICES ASSUME NEW q \in LProcs, NEW r \in LProcs, q # r
               PROVE  /\ had[q].v4.kind = "pool" /\ had[r].v4.kind = "pool" => had[q].v4.rip # had[r].v4.rip
                      /\ had[q].v6.kind = "pool" /\ had[r].v6.kind = "pool" =>
                           Sig6(had[q].v6.rip) # Sig6(had[r].v6.rip)
    BY DEF Distinct
  <2>1. CASE q = p
    BY <1>1, <1>3, <1>4, <2>1 DEF Good, Distinct
  <2>2. CASE r = p
    BY <1>1, <1>3, <1>4, <2>2 DEF Good, Distinct
  <2>3. CASE q # p /\ r # p
    BY <1>1, <1>4, <2>3 DEF Good, Distinct
  <2> QED
    BY <2>1, <2>2, <2>3
<1>8. Unreserved(had)
  <2>1. \A l \in Leases : (Allowed4(l) => Allowed4(Copy(l))) /\ (Allowed6(l) => Allowed6(Copy(l)))
    BY DEF Allowed4, Allowed6, Copy, NoLease, Leases
  <2>2. lease[old].v4 \in Leases /\ lease[old].v6 \in Leases
    BY DEF LeaseInv, LeaseTypeOK, ProcLeases
  <2> QED
    BY <1>1, <1>3, <1>4, <2>1, <2>2 DEF Good, Unreserved
<1> QED
  BY <1>6, <1>7, <1>8 DEF Good, had, mt

\* A proc that lacked a lease gets one, and the table with it (get_ip_leases).
LEMMA LeaseAddKeeps ==
  ASSUME NEW ls \in [LProcs -> ProcLeases], NEW ht, Good(ls, ht), NEW p \in LProcs,
         NEW l \in Leases, NEW m \in Leases,
         l # ls[p].v4 => /\ ls[p].v4 = NoLease /\ Allowed4(l)
                         /\ \A q \in LProcs : <<"v4", l.rip, q>> \notin ht,
         m # ls[p].v6 => /\ ls[p].v6 = NoLease /\ Allowed6(m)
                         /\ \A q \in LProcs : <<"v6", Sig6(m.rip), q>> \notin ht
  PROVE  LET ns == [ls EXCEPT ![p] = [st |-> "open", v4 |-> l, v6 |-> m]]
         IN /\ ns \in [LProcs -> ProcLeases]
            /\ Good(ns, ht \cup Owned(l, "v4", p) \cup Owned(m, "v6", p))
<1> DEFINE new == [st |-> "open", v4 |-> l, v6 |-> m]
           ns == [ls EXCEPT ![p] = new]
           nt == ht \cup Owned(l, "v4", p) \cup Owned(m, "v6", p)
<1>1. new \in ProcLeases /\ new.v4 = l /\ new.v6 = m
  BY DEF ProcLeases
<1>2. ns[p] = new /\ \A q \in LProcs : q # p => ns[q] = ls[q]
  OBVIOUS
<1>3. ns \in [LProcs -> ProcLeases]
  BY <1>1
<1>4. \A e : e \in nt <=> \/ e \in ht
                          \/ l.kind = "pool" /\ e = <<"v4", l.rip, p>>
                          \/ m.kind = "pool" /\ e = <<"v6", Sig6(m.rip), p>>
  BY DEF Owned, Sig
<1>5. \A q \in LProcs : /\ ls[q].v4.kind = "pool" => <<"v4", ls[q].v4.rip, q>> \in ht
                        /\ ls[q].v6.kind = "pool" => <<"v6", Sig6(ls[q].v6.rip), q>> \in ht
  BY DEF Good, Exact, Means
<1>6. ns[p].v4 = l /\ ns[p].v6 = m
  BY <1>1, <1>2
<1> HIDE DEF new, ns, nt
<1>7. Exact(ns, nt)
  <2> SUFFICES ASSUME NEW e PROVE e \in nt <=> \E q \in LProcs : Means(ns, q, e)
    BY DEF Exact
  <2>1. e \in ht <=> \E q \in LProcs : Means(ls, q, e)
    BY DEF Good, Exact
  <2>2. \A q \in LProcs : q # p => (Means(ns, q, e) <=> Means(ls, q, e))
    BY <1>2 DEF Means
  <2>3. Means(ns, p, e) <=> \/ l.kind = "pool" /\ e = <<"v4", l.rip, p>>
                            \/ m.kind = "pool" /\ e = <<"v6", Sig6(m.rip), p>>
    BY <1>6 DEF Means
  <2>4. Means(ls, p, e) => Means(ns, p, e)
    BY <1>6 DEF Means, NoLease
  <2> QED
    BY <1>4, <2>1, <2>2, <2>3, <2>4
<1>8. Distinct(ns)
  <2>1. \A q \in LProcs : q # p /\ ls[q].v4.kind = "pool" /\ l.kind = "pool" => ls[q].v4.rip # l.rip
    BY <1>5 DEF Good, Distinct
  <2>2. \A q \in LProcs : q # p /\ ls[q].v6.kind = "pool" /\ m.kind = "pool" => Sig6(ls[q].v6.rip) # Sig6(m.rip)
    BY <1>5, ZenonT(60) DEF Good, Distinct
  <2> QED
    BY <1>2, <1>6, <2>1, <2>2 DEF Good, Distinct
<1>9. Unreserved(ns)
  <2>1. Allowed4(l) /\ Allowed6(m)
    BY DEF Good, Unreserved
  <2> QED
    BY <1>2, <1>6, <2>1 DEF Good, Unreserved
<1> QED
  BY <1>3, <1>7, <1>8, <1>9 DEF Good, ns, nt, new

\* The leases a cookie request ends with, granted or refused, keep the invariant.
LEMMA CookieKeeps ==
  ASSUME LeaseInv, NEW p \in LProcs, NEW old \in LProcs,
         NEW how4 \in {"off", "pool", "explicit"}, NEW how6 \in {"off", "pool", "explicit"},
         NEW seed \in Seeds, NEW busy, NEW ok, get_ip_leases(p, old, how4, how6, seed, busy, ok)
  PROVE  LeaseInv'
<1> DEFINE had == steal_ip_leases(old, p)
           mt == Moved(old, p)
<1>1. lease[p] = Fresh
  BY DEF get_ip_leases
<1>2. PICK l \in Outcomes("v4", had[p].v4, how4, seed, busy), m \in Outcomes("v6", had[p].v6, how6, seed, busy) :
        \/ /\ BothLeased(l, m)
           /\ lease' = [had EXCEPT ![p] = [st |-> "open", v4 |-> l, v6 |-> m]]
           /\ lht' = mt \cup Owned(l, "v4", p) \cup Owned(m, "v6", p)
        \/ /\ lease' = [had EXCEPT ![p] = Gone]
           /\ lht' = mt \ unref_ip_lease(had[p])
  BY DEF get_ip_leases
<1>3. had \in [LProcs -> ProcLeases] /\ Good(had, mt)
  BY <1>1, LeaseStealKeeps, StealIsGood
<1>4. had[p].v4 \in Leases /\ had[p].v6 \in Leases
  BY <1>3 DEF ProcLeases
<1>5. \A fam, sig : ~ip_lease_exists(fam, sig) => \A q \in LProcs : <<fam, sig, q>> \notin mt
  <2> SUFFICES ASSUME NEW fam, NEW sig, NEW q \in LProcs, <<fam, sig, q>> \in mt
               PROVE  \E r \in LProcs : <<fam, sig, r>> \in lht
    BY DEF ip_lease_exists
  <2>1. PICK d \in lht : <<fam, sig, q>> = IF d[3] = old THEN <<d[1], d[2], p>> ELSE d
    BY DEF Moved
  <2>2. PICK r \in LProcs : Means(lease, r, d)
    BY DEF LeaseInv, Good, Exact
  <2>3. d = <<d[1], d[2], r>> /\ d[3] = r
    BY <2>2 DEF Means
  <2>4. d[1] = fam /\ d[2] = sig
    BY <2>1, <2>3
  <2> QED
    BY <2>3, <2>4
<1> HIDE DEF had, mt
<1>6. CASE /\ lease' = [had EXCEPT ![p] = Gone]
           /\ lht' = mt \ unref_ip_lease(had[p])
  <2>1. lease' \in [LProcs -> ProcLeases] /\ Good(lease', lht')
    BY <1>3, <1>6, LeaseRemoveKeeps
  <2> QED
    BY <2>1 DEF LeaseInv, LeaseTypeOK, Good, Exact, Distinct, Unreserved, Means, Allowed4, Allowed6
<1>7. CASE /\ BothLeased(l, m)
           /\ lease' = [had EXCEPT ![p] = [st |-> "open", v4 |-> l, v6 |-> m]]
           /\ lht' = mt \cup Owned(l, "v4", p) \cup Owned(m, "v6", p)
  <2>1. l \in Leases /\ (l # had[p].v4 => /\ had[p].v4 = NoLease /\ Allowed4(l)
                                          /\ \A q \in LProcs : <<"v4", l.rip, q>> \notin mt)
    BY <1>4, <1>5, <1>7, NewLease4 DEF BothLeased
  <2>2. m \in Leases /\ (m # had[p].v6 => /\ had[p].v6 = NoLease /\ Allowed6(m)
                                          /\ \A q \in LProcs : <<"v6", Sig6(m.rip), q>> \notin mt)
    BY <1>4, <1>5, <1>7, NewLease6 DEF BothLeased
  <2>3. lease' \in [LProcs -> ProcLeases] /\ Good(lease', lht')
    BY <1>3, <1>7, <2>1, <2>2, LeaseAddKeeps, ZenonT(60)
  <2> QED
    BY <2>3 DEF LeaseInv, LeaseTypeOK, Good, Exact, Distinct, Unreserved, Means, Allowed4, Allowed6
<1> QED
  BY <1>2, <1>6, <1>7

\* In every network, with any number of procs, hashes and requests: the table holds
\* exactly the pool leases of live procs, no two procs lease the same address or the
\* same subnet, and none leases an address of the server or a reserved one.
THEOREM AddressesHaveOneOwner == IpSpec => []AddressesOwned
<1>1. IpInit => LeaseInv
  <2> SUFFICES ASSUME IpInit PROVE LeaseInv
    OBVIOUS
  <2>1. Gone \in ProcLeases /\ Gone.v4 = NoLease /\ Gone.v6 = NoLease
    BY DEF Gone, NoLease, ProcLeases, Leases
  <2>2. \A p \in LProcs : lease[p].v4 = NoLease /\ lease[p].v6 = NoLease
    BY <2>1 DEF IpInit
  <2>3. LeaseTypeOK
    BY <2>1 DEF IpInit, LeaseTypeOK
  <2> QED
    BY <2>2, <2>3 DEF IpInit, LeaseInv, Good, Exact, Distinct, Unreserved, Means, Allowed4, Allowed6, NoLease
<1>2. LeaseInv /\ [IpNext]_ipvars => LeaseInv'
  <2> SUFFICES ASSUME LeaseInv, [IpNext]_ipvars PROVE LeaseInv'
    OBVIOUS
  <2>1. ASSUME NEW p \in LProcs, LeaseNew(p) PROVE LeaseInv'
    <3>1. Fresh \in ProcLeases /\ Fresh.v4 = NoLease /\ Fresh.v6 = NoLease
      BY DEF Fresh, NoLease, ProcLeases, Leases
    <3>2. lease[p].v4 = NoLease /\ lease[p].v6 = NoLease
      BY <2>1 DEF LeaseNew, Gone
    <3>3. \A q \in LProcs : lease'[q].v4 = lease[q].v4 /\ lease'[q].v6 = lease[q].v6
      BY <2>1, <3>1, <3>2 DEF LeaseNew, LeaseInv, LeaseTypeOK
    <3>4. LeaseTypeOK'
      BY <2>1, <3>1 DEF LeaseNew, LeaseInv, LeaseTypeOK
    <3> QED
      BY <2>1, <3>3, <3>4 DEF LeaseNew, LeaseInv, Good, Exact, Distinct, Unreserved, Means, Allowed4, Allowed6
  <2>2. ASSUME NEW p \in LProcs, remove_ip_leases(p) PROVE LeaseInv'
    <3>1. lease' \in [LProcs -> ProcLeases] /\ Good(lease', lht')
      BY <2>2, LeaseRemoveKeeps DEF remove_ip_leases, LeaseInv, LeaseTypeOK
    <3> QED
      BY <3>1 DEF LeaseInv, LeaseTypeOK, Good, Exact, Distinct, Unreserved, Means, Allowed4, Allowed6
  <2>3. CASE UNCHANGED ipvars
    BY <2>3 DEF ipvars, LeaseInv, LeaseTypeOK, Good, Exact, Distinct, Unreserved, Means, Allowed4, Allowed6
  <2> QED
    BY <2>1, <2>2, <2>3, CookieKeeps DEF IpNext
<1>3. LeaseInv => AddressesOwned
  BY GoodIsOwned DEF LeaseInv
<1> QED
  BY <1>1, <1>2, <1>3, PTL DEF IpSpec

-----------------------------------------------------------------------------
(* The banned addresses (main-ban.c).                                       *)

\* The inductive invariant: what an address was told and what its entry says
\* agree to the second.
Agrees(e, o) ==
  /\ o > 0 => Rejects(e) /\ e.left = o
  /\ Rejects(e) => e.left <= o

BanInv == TypeOK /\ \A a \in Addr : Agrees(list[a], owed[a])

\* The saturating sum of main-ban.c:188 stays in the width and never loses
\* points already there.
LEMMA SumBounds ==
  ASSUME NEW x \in 0..(Width - 1), NEW y \in 0..(Width - 1)
  PROVE  Sum(x, y) \in 0..(Width - 1) /\ Sum(x, y) >= x
<1>1. Width \in Nat /\ Width > 0
  BY BanAssumption
<1>2. (x + y) % Width \in 0..(Width - 1)
  BY <1>1
<1>3. QED
  BY <1>1, <1>2 DEF Sum

\* A record with the fields of an entry, in range, is an entry.
LEMMA MakeEntry ==
  ASSUME NEW s \in 0..(Width - 1), NEW l \in -1..BanTime, NEW g \in 0..(ResetTime + 1)
  PROVE  LET e == [score |-> s, left |-> l, age |-> g]
         IN e \in Entry /\ e.score = s /\ e.left = l /\ e.age = g
BY DEF Entry

\* The fields of an entry are in range.
LEMMA EntryFields ==
  ASSUME NEW e \in Entry
  PROVE  /\ e.score \in 0..(Width - 1) /\ e.left \in -1..BanTime
         /\ e.age \in 0..(ResetTime + 1)
BY DEF Entry

\* What Reset leaves: an entry in which a score at the limit is an active ban.
LEMMA ResetEntry ==
  ASSUME NEW e \in Entry
  PROVE  /\ Reset(e) \in Entry
         /\ Reset(e).left = e.left
         /\ Reset(e).score >= MaxScore => e.left >= 0 /\ e.score >= MaxScore
         /\ Rejects(e) => Reset(e) = e
<1>0. MaxScore \in Nat \ {0} /\ Width \in Nat /\ Width > 0 /\ ResetTime \in Nat
      /\ BanTime \in Nat
  BY BanAssumption
<1> DEFINE z == [score |-> 0, left |-> e.left, age |-> 0]
<1>1. e.score \in 0..(Width - 1) /\ e.left \in -1..BanTime /\ e.age \in 0..(ResetTime + 1)
  BY EntryFields
<1>3. z \in Entry /\ z.score = 0 /\ z.left = e.left
  BY <1>0, <1>1, MakeEntry
<1>4. Reset(e) = IF (e.left < 0 /\ e.score >= MaxScore)
                      \/ (e.age > ResetTime /\ ~(e.score >= MaxScore)) THEN z ELSE e
  BY DEF Reset, IS_BANNED
<1> HIDE DEF z
<1>5. QED
  BY <1>0, <1>1, <1>3, <1>4 DEF Rejects, IS_BANNED

\* add_ip_to_ban_list: an active ban keeps its end; a new one ends after
\* ban_time.
LEMMA AddEntry ==
  ASSUME NEW e \in Entry, NEW y \in 0..(Width - 1)
  PROVE  /\ Add(e, y) \in Entry
         /\ Rejects(e) => Rejects(Add(e, y)) /\ Add(e, y).left = e.left
         /\ ~Rejects(e) => Add(e, y).left = BanTime
<1> DEFINE r == Reset(e)
<1>0. MaxScore \in Nat \ {0} /\ Width \in Nat /\ BanTime \in Nat
  BY BanAssumption
<1>1. /\ r \in Entry /\ r.left = e.left
      /\ r.score >= MaxScore => e.left >= 0 /\ e.score >= MaxScore
      /\ Rejects(e) => r = e
  BY ResetEntry
<1>2. Add(e, y) = [score |-> Sum(r.score, y),
                   left |-> IF r.score < MaxScore THEN BanTime ELSE r.left,
                   age |-> r.age]
  BY DEF Add
<1> HIDE DEF r
<1>3. /\ r.score \in 0..(Width - 1)
      /\ Sum(r.score, y) \in 0..(Width - 1) /\ Sum(r.score, y) >= r.score
      /\ r.left \in -1..BanTime /\ r.age \in 0..(ResetTime + 1)
  BY <1>1, SumBounds, EntryFields, SMTT(30)
<1>4. /\ Add(e, y) \in Entry
      /\ Add(e, y).score = Sum(r.score, y)
      /\ Add(e, y).left = IF r.score < MaxScore THEN BanTime ELSE r.left
  BY <1>0, <1>2, <1>3, MakeEntry
<1>5. QED
  BY <1>0, <1>1, <1>3, <1>4 DEF Rejects, IS_BANNED, Entry

\* Points from any caller keep the agreement: they begin a ban or leave it.
LEMMA AddPointsInv ==
  ASSUME BanInv, NEW a \in Addr, NEW y \in 0..(Width - 1), AddPoints(a, y)
  PROVE  BanInv'
<1> DEFINE e == Add(list[a], y)
<1>0. list[a] \in Entry /\ owed[a] \in 0..BanTime /\ Agrees(list[a], owed[a])
      /\ BanTime \in Nat
  BY BanAssumption DEF BanInv, TypeOK
<1>1. /\ e \in Entry
      /\ Rejects(list[a]) => Rejects(e) /\ e.left = list[a].left
      /\ ~Rejects(list[a]) => e.left = BanTime
  BY <1>0, AddEntry
<1>2. /\ list' = [list EXCEPT ![a] = e]
      /\ owed' = IF IS_BANNED(e) /\ ~Rejects(list[a])
                 THEN [owed EXCEPT ![a] = BanTime] ELSE owed
  BY DEF AddPoints
<1> HIDE DEF e
<1>3. TypeOK'
  BY <1>0, <1>1, <1>2 DEF BanInv, TypeOK
<1>4. Agrees(list'[a], owed'[a])
  <2>1. list'[a] = e
    BY <1>2 DEF BanInv, TypeOK
  <2>2. CASE Rejects(list[a])
    BY <1>0, <1>1, <1>2, <2>1, <2>2 DEF Agrees
  <2>3. CASE ~Rejects(list[a])
    <3>1. owed[a] = 0
      BY <1>0, <2>3 DEF Agrees
    <3>2. owed'[a] = IF IS_BANNED(e) THEN BanTime ELSE 0
      BY <1>2, <2>3, <3>1 DEF BanInv, TypeOK
    <3>3. QED
      BY <1>0, <1>1, <2>1, <2>3, <3>2 DEF Agrees, Rejects, IS_BANNED, Entry
  <2>4. QED
    BY <2>2, <2>3
<1>5. ASSUME NEW b \in Addr, b # a PROVE Agrees(list'[b], owed'[b])
  BY <1>2, <1>5 DEF BanInv, TypeOK
<1>6. QED
  BY <1>3, <1>4, <1>5 DEF BanInv

\* The administrator's unban clears what the address was told with the entry.
LEMMA UnbanInv ==
  ASSUME BanInv, NEW a \in Addr, Unban(a)
  PROVE  BanInv'
<1>0. MaxScore \in Nat \ {0} /\ Width \in Nat /\ BanTime \in Nat /\ Width > 0
  BY BanAssumption
<1> DEFINE e == [score |-> 0, left |-> -1, age |-> list[a].age]
<1>a. e \in Entry /\ e.score = 0
  BY <1>0, EntryFields, MakeEntry DEF BanInv, TypeOK
<1>b. list' = [list EXCEPT ![a] = e] /\ owed' = [owed EXCEPT ![a] = 0]
  BY DEF Unban
<1> HIDE DEF e
<1>1. TypeOK'
  BY <1>0, <1>a, <1>b DEF BanInv, TypeOK
<1>2. ASSUME NEW b \in Addr PROVE Agrees(list'[b], owed'[b])
  BY <1>0, <1>a, <1>b DEF BanInv, TypeOK, Agrees, Rejects, IS_BANNED
<1>3. QED
  BY <1>1, <1>2 DEF BanInv

\* cleanup_banned_entries removes no entry whose ban has a second left.
LEMMA CleanupInv ==
  ASSUME BanInv, Cleanup
  PROVE  BanInv'
<1>0. MaxScore \in Nat \ {0} /\ Width \in Nat /\ Width > 0 /\ BanTime \in Nat
      /\ ResetTime \in Nat
  BY BanAssumption
<1>1. NoEntry \in Entry /\ ~Rejects(NoEntry)
  BY <1>0 DEF NoEntry, Entry, Rejects
<1>2. TypeOK'
  BY <1>1 DEF BanInv, TypeOK, Cleanup
<1>3. ASSUME NEW b \in Addr PROVE Agrees(list'[b], owed'[b])
  <2>1. list[b] \in Entry /\ owed[b] \in 0..BanTime /\ Agrees(list[b], owed[b])
    BY DEF BanInv, TypeOK
  <2>2. list'[b] = (IF Idle(list[b]) THEN NoEntry ELSE list[b]) /\ owed'[b] = owed[b]
    BY DEF Cleanup
  <2>3. QED
    BY <1>0, <1>1, <2>1, <2>2 DEF Agrees, Idle, Entry
<1>4. QED
  BY <1>2, <1>3 DEF BanInv

\* A second takes one from both sides of the agreement.
LEMMA TickInv ==
  ASSUME BanInv, Tick
  PROVE  BanInv'
<1>0. BanTime \in Nat /\ ResetTime \in Nat /\ MaxScore \in Nat /\ Width \in Nat
  BY BanAssumption
<1>1. ASSUME NEW b \in Addr
      PROVE  /\ list'[b] \in Entry /\ owed'[b] \in 0..BanTime
             /\ Agrees(list'[b], owed'[b])
  <2>1. list[b] \in Entry /\ owed[b] \in 0..BanTime /\ Agrees(list[b], owed[b])
    BY DEF BanInv, TypeOK
  <2>2. /\ list'[b] = Older(list[b])
        /\ owed'[b] = IF owed[b] > 0 THEN owed[b] - 1 ELSE 0
    BY DEF Tick
  <2>3. /\ Older(list[b]) \in Entry
        /\ Older(list[b]).score = list[b].score
        /\ Older(list[b]).left = IF list[b].left >= 0 THEN list[b].left - 1
                                                     ELSE list[b].left
    BY <1>0, <2>1, EntryFields, MakeEntry DEF Older
  <2>4. QED
    BY <1>0, <2>1, <2>2, <2>3 DEF Agrees, Rejects, IS_BANNED, Entry
<1>2. TypeOK'
  BY <1>1 DEF Tick, TypeOK
<1>3. QED
  BY <1>1, <1>2 DEF BanInv

\* Every step keeps the invariant.
LEMMA StepInv ==
  ASSUME BanInv, [Next]_vars
  PROVE  BanInv'
<1>1. ASSUME NEW a \in Addr, Score(a) PROVE BanInv'
  <2>1. PICK y \in Points : AddPoints(a, y)
    BY <1>1 DEF Score
  <2>2. y \in 0..(Width - 1)
    BY BanAssumption
  <2>3. QED
    BY <2>1, <2>2, AddPointsInv
<1>2. ASSUME NEW a \in Addr, Connect(a) PROVE BanInv'
  <2>1. ConnectPoints \in 0..(Width - 1) /\ AddPoints(a, ConnectPoints)
    BY <1>2, BanAssumption DEF Connect
  <2>2. QED
    BY <2>1, AddPointsInv
<1>3. ASSUME NEW a \in Addr, Unban(a) PROVE BanInv'
  BY <1>3, UnbanInv
<1>4. CASE Cleanup
  BY <1>4, CleanupInv
<1>5. CASE Tick
  BY <1>5, TickInv
<1>6. CASE UNCHANGED vars
  BY <1>6 DEF BanInv, TypeOK, vars
<1>7. QED
  BY <1>1, <1>2, <1>3, <1>4, <1>5, <1>6 DEF Next

\* The invariant holds of every behaviour of the ban list.
LEMMA Inductive == Spec => []BanInv
<1>1. Init => BanInv
  <2>1. NoEntry \in Entry /\ ~Rejects(NoEntry)
    BY BanAssumption DEF NoEntry, Entry, Rejects
  <2>2. QED
    BY <2>1, BanAssumption DEF Init, BanInv, TypeOK, Agrees
<1>2. BanInv /\ [Next]_vars => BanInv'
  BY StepInv
<1>3. QED
  BY <1>1, <1>2, PTL DEF Spec

\* Scores stay in the width of the field and times in their ranges.
THEOREM TypeCorrect == Spec => []TypeOK
<1>1. BanInv => TypeOK
  BY DEF BanInv
<1>2. QED
  BY <1>1, Inductive, PTL

\* add_ip_to_ban_list, check_if_banned and cleanup_banned_entries together keep
\* a ban for all of ban_time.
THEOREM BansAreKept == Spec => []BanKept
<1>1. BanInv => BanKept
  BY DEF BanInv, Agrees, BanKept
<1>2. QED
  BY <1>1, Inductive, PTL

\* Attempts made during a ban never prolong it.
THEOREM BansAreNotProlonged == Spec => []BanNotProlonged
<1>1. BanInv => BanNotProlonged
  BY DEF BanInv, Agrees, BanNotProlonged
<1>2. QED
  BY <1>1, Inductive, PTL
=============================================================================
