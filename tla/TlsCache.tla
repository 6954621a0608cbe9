------------------------------ MODULE TlsCache ------------------------------
(***************************************************************************)
(* sec-mod's cache of TLS sessions (sec-mod-resume.c), filled and read by  *)
(* the database callbacks of workers (worker-resume.c).  Each request is a  *)
(* message that nobody waits for, except a fetch.                           *)
(***************************************************************************)
EXTENDS Integers, FiniteSets

CONSTANTS
  TcSlots,        \* bound: cache entries in memory
  Ids,          \* session ids
  Peers,        \* client addresses
  Vhosts,       \* named virtual hosts
  Default,      \* the default virtual host, whose name is NULL
  Limits        \* MAX(2 * max-clients, DEFAULT_MAX_CACHED_TLS_SESSIONS) of each configuration

VARIABLES
  cache,        \* entries: session id, virtual host, address, expired; or free
  entries,      \* tls_db.entries
  limit,        \* of the current configuration
  tcReply         \* the answer to the last fetch, and to whom

tcvars == <<cache, entries, limit, tcReply>>

FreeSlot == [id |-> "none", vhost |-> "none", addr |-> "none", expired |-> FALSE]
tls_cache_st(i, v, a) == [id |-> i, vhost |-> v, addr |-> a, expired |-> FALSE]
Used == {s \in TcSlots : cache[s].id # "none"}
FAILED == [ok |-> FALSE]

Room(n) == n < limit

\* handle_resume_store_req: another entry even if the id has one; the table may be
\* out of memory.
handle_resume_store_req(i, v, a, added) ==
  /\ Room(entries)
  /\ IF added
     THEN \E s \in TcSlots \ Used :
            /\ cache' = [cache EXCEPT ![s] = tls_cache_st(i, v, a)]
            /\ entries' = entries + 1
     ELSE UNCHANGED <<cache, entries>>
  /\ UNCHANGED <<limit, tcReply>>

\* handle_resume_delete_req: the first entry of the id.
handle_resume_delete_req(i) ==
  /\ \E s \in Used : cache[s].id = i /\ cache' = [cache EXCEPT ![s] = FreeSlot]
  /\ entries' = entries - 1
  /\ UNCHANGED <<limit, tcReply>>

\* The comparison of virtual hosts: names that differ are told apart, and so are two
\* pointers, of which only NULL is equal to the one in the cache.
SameVhost(v, w) == v = Default /\ w = Default

\* An entry that answers a fetch.
Answers(s, i, v, a) == cache[s].id = i /\ SameVhost(v, cache[s].vhost) /\ cache[s].addr = a

\* handle_resume_fetch_req: the entries of the id are tried in the table's order, and
\* one of another virtual host ends the search.
handle_resume_fetch_req(i, v, a) ==
  LET stops == {s \in Used : cache[s].id = i /\ ~SameVhost(v, cache[s].vhost)}
      hits == {s \in Used : Answers(s, i, v, a)}
  IN /\ \/ \E s \in hits : tcReply' = [ok |-> TRUE, data |-> cache[s], i |-> i, v |-> v, a |-> a]
        \/ (stops # {} \/ hits = {}) /\ tcReply' = FAILED
     /\ UNCHANGED <<cache, entries, limit>>

\* Time passes for an entry (gnutls_db_check_entry_time).
TlsAge(s) ==
  /\ s \in Used /\ ~cache[s].expired
  /\ cache' = [cache EXCEPT ![s].expired = TRUE]
  /\ UNCHANGED <<entries, limit, tcReply>>

\* Mutant: the walk ends at an entry that is still fresh.
ExpireUntilFresh ==
  IF \E s \in Used : ~cache[s].expired THEN {} ELSE {s \in Used : cache[s].expired}

Expired == {s \in Used : cache[s].expired}

\* expire_tls_sessions, from the maintenance alarm.
expire_tls_sessions ==
  /\ Expired # {}
  /\ cache' = [s \in TcSlots |-> IF s \in Expired THEN FreeSlot ELSE cache[s]]
  /\ entries' = entries - Cardinality(Expired)
  /\ UNCHANGED <<limit, tcReply>>

\* A reload changes max-clients.
TlsReload(n) ==
  /\ n # limit
  /\ limit' = n
  /\ UNCHANGED <<cache, entries, tcReply>>

TcInit ==
  /\ cache = [s \in TcSlots |-> FreeSlot] /\ entries = 0
  /\ limit = (CHOOSE n \in Limits : TRUE) /\ tcReply = FAILED

TcNext ==
  \/ \E i \in Ids, v \in Vhosts \cup {Default}, a \in Peers :
       \/ \E added \in BOOLEAN : handle_resume_store_req(i, v, a, added)
       \/ handle_resume_fetch_req(i, v, a)
  \/ \E i \in Ids : handle_resume_delete_req(i)
  \/ \E s \in TcSlots : TlsAge(s)
  \/ expire_tls_sessions
  \/ \E n \in Limits : TlsReload(n)

-----------------------------------------------------------------------------
\* The counter is the number of entries, through failed insertions, deletions and
\* expiry, so that the cache does not fill up with nothing in it
\* (sec-mod-resume.c:60, sec-mod-resume.c:170).
EntriesExact == entries = Cardinality(Used)

\* The cache grows only up to the limit of the configuration in force; a limit that
\* was lowered is reached again by deletions and expiry alone (sec-mod-resume.c:135).
CacheBounded == [][ entries' > entries => entries' <= limit ]_tcvars

\* A session is resumed only by the address and the virtual host that stored it, and
\* under its own id (sec-mod-resume.c:84).
ResumedByOwner ==
  tcReply.ok => /\ tcReply.data.id = tcReply.i
              /\ tcReply.data.vhost = tcReply.v
              /\ tcReply.data.addr = tcReply.a

\* Again and again no entry is past its lifetime: each maintenance removes every one
\* that is, whatever was stored or fetched meanwhile (sec-mod-resume.c:181).
ExpiredSessionsGo == []<>(\A s \in TcSlots : ~cache[s].expired)

\* The cache is counted, bounded and emptied of what has expired, and answers only those who
\* stored (sec-mod-resume.c).
CacheKept ==
  [](EntriesExact /\ ResumedByOwner) /\ CacheBounded /\ ExpiredSessionsGo
=============================================================================
