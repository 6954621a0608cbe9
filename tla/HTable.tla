------------------------------- MODULE HTable -------------------------------
(***************************************************************************)
(* ccan/htable, under every hash table of main and sec-mod: open           *)
(* addressing with tombstones.  An entry at the bucket of its hash is       *)
(* marked perfect, and a lookup compares the mark.  The hash bits stored    *)
(* in the spare bits of a pointer are a filter that equal hashes pass, and  *)
(* are left out; pointers are aligned, so the mark is never given up.       *)
(***************************************************************************)
EXTENDS Integers, FiniteSets

CONSTANTS
  Elems,       \* pointers
  HashOf,      \* the hash of each
  MaxBits      \* bound: the table is not doubled further (memory runs out)

VARIABLES
  tab, bits, elems, deleted,   \* struct htable
  members                      \* what was added and not deleted

htvars == <<tab, bits, elems, deleted, members>>

EMPTY == [kind |-> "empty"]
DELETED == [kind |-> "deleted"]
Entry(e, perfect) == [kind |-> "entry", e |-> e, perfect |-> perfect]

Size(b) == 2^b
max(b) == IF b = 0 THEN 0 ELSE (3 * Size(b)) \div 4
max_with_deleted(b) == IF b = 0 THEN 0 ELSE (9 * Size(b)) \div 10
At(b, h, k) == (h + k) % Size(b)
Valid(x) == x.kind = "entry"

\* ht_add: the first slot, from the bucket on, without a valid entry.
ht_add(t, b, e) ==
  LET free(k) == ~Valid(t[At(b, HashOf[e], k)])
      k == CHOOSE k \in 0..Size(b) - 1 : free(k) /\ \A j \in 0..k - 1 : ~free(j)
  IN [t EXCEPT ![At(b, HashOf[e], k)] = Entry(e, k = 0)]

\* double_table: every entry moves to a table of twice the size.
double_table ==
  LET new == [i \in 0..Size(bits + 1) - 1 |-> EMPTY]
      step[i \in 0..Size(bits)] ==
        IF i = 0 THEN new
        ELSE IF Valid(tab[i - 1]) THEN ht_add(step[i - 1], bits + 1, tab[i - 1].e)
        ELSE step[i - 1]
  IN step[Size(bits)]

\* Mutant: the walk starts at slot 0, wherever a run of entries wraps around.
RehashFromZero(t, b) ==
  LET step[i \in 0..Size(b)] ==
        IF i = 0 THEN t
        ELSE LET u == step[i - 1]
                 x == u[i - 1]
                 cleared == [u EXCEPT ![i - 1] = EMPTY]
             IN IF x = DELETED THEN cleared
                ELSE IF Valid(x) /\ ~x.perfect THEN ht_add(cleared, b, x.e)
                ELSE u
  IN step[Size(b)]

\* rehash_table: tombstones go, and entries away from their bucket are added again,
\* from the first empty slot on.
rehash_table(t, b) ==
  LET start == CHOOSE i \in 0..Size(b) - 1 : t[i] = EMPTY /\ \A j \in 0..i - 1 : t[j] # EMPTY
      step[i \in 0..Size(b)] ==
        IF i = 0 THEN t
        ELSE LET u == step[i - 1]
                 h == At(b, start, i - 1)
                 cleared == [u EXCEPT ![h] = EMPTY]
             IN IF u[h] = DELETED THEN cleared
                ELSE IF Valid(u[h]) /\ ~u[h].perfect THEN ht_add(cleared, b, u[h].e)
                ELSE u
  IN step[Size(b)]

TooFull(n, d, b) == n + 1 + d > max_with_deleted(b)

\* htable_add.
htable_add(e) ==
  LET grow == elems + 1 > max(bits)
      b == IF grow THEN bits + 1 ELSE bits
      t == IF grow THEN double_table ELSE tab
      d == IF grow THEN 0 ELSE deleted
      full == TooFull(elems, d, b)
  IN /\ e \notin members
     /\ b <= MaxBits
     /\ tab' = ht_add(IF full THEN rehash_table(t, b) ELSE t, b, e)
     /\ deleted' = IF full THEN 0 ELSE d
     /\ bits' = b
     /\ elems' = elems + 1
     /\ members' = members \cup {e}

\* htable_firstval and htable_nextval: the slots a lookup for e stops at.
Hits(e) ==
  {k \in 0..Size(bits) - 1 :
     /\ tab[At(bits, HashOf[e], k)] = Entry(e, k = 0)
     /\ \A j \in 0..k - 1 : tab[At(bits, HashOf[e], j)] # EMPTY}

\* htable_del, of a pointer that may not be there.
htable_del(e) ==
  /\ Hits(e) # {}
  /\ \E k \in Hits(e) : tab' = [tab EXCEPT ![At(bits, HashOf[e], k)] = DELETED]
  /\ elems' = elems - 1 /\ deleted' = deleted + 1
  /\ members' = members \ {e}
  /\ UNCHANGED bits

\* htable_clear.
htable_clear ==
  /\ members # {}
  /\ tab' = [i \in {0} |-> EMPTY] /\ bits' = 0 /\ elems' = 0 /\ deleted' = 0 /\ members' = {}

HtInit ==
  /\ tab = [i \in {0} |-> EMPTY] /\ bits = 0 /\ elems = 0 /\ deleted = 0
  /\ members = {}

HtNext ==
  \/ \E e \in Elems : htable_add(e) \/ htable_del(e)
  \/ htable_clear

-----------------------------------------------------------------------------
\* Every pointer that was added and not deleted is found, exactly once, and no other:
\* through collisions, wrapped runs, tombstones, doubling and cleaning
\* (htable.c:176 "Beware wrap cases").
MembersAreFound ==
  \A e \in Elems : Cardinality(Hits(e)) = IF e \in members THEN 1 ELSE 0

\* Some slot is empty, so that a lookup of what is not there ends, and so does the
\* search of rehash_table for its first slot (htable.c:75, htable.c:177).
LookupEnds == bits > 0 => \E i \in 0..Size(bits) - 1 : tab[i] = EMPTY

\* The hash table keeps its members: each is found in every history of additions, removals
\* and rehashing in place, and a search that finds nothing ends (htable.c:171, 242).
MembersKept == MembersAreFound /\ LookupEnds
=============================================================================
