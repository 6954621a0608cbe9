------------------------------- MODULE BanList ------------------------------
(***************************************************************************)
(* Main's ban list: scores per address, added by sec-mod (failed logins),  *)
(* by workers (http and kkdcp requests) and by every connection; bans that *)
(* begin at max_ban_score and end after ban_time; the reset of old scores; *)
(* the administrator's unban; the removal of idle entries.                 *)
(*                                                                         *)
(* An address is the key of the list (an IPv6 address is cut to its /64).  *)
(* Times are relative and stop where no comparison tells more: left is     *)
(* expires - now, -1 once it is past; age is now - last_reset.  An address *)
(* without an entry is one without score whose age is past ban_reset_time: *)
(* the next points start both afresh, as talloc_zero and last_reset = now  *)
(* do for a new entry.                                                     *)
(***************************************************************************)
EXTENDS Integers

CONSTANTS
  Addr,            \* addresses
  Local,           \* addresses of the server's own interfaces
  MaxScore,        \* max_ban_score, not 0
  BanTime,         \* ban_time
  ResetTime,       \* ban_reset_time
  ConnectPoints,   \* ban_points_connect
  Points,          \* scores sec-mod and workers send
  Width            \* number of values of e->score, an unsigned integer

ASSUME BanAssumption ==
  /\ Local \subseteq Addr
  /\ MaxScore \in Nat \ {0} /\ BanTime \in Nat /\ ResetTime \in Nat
  /\ Width \in Nat /\ MaxScore < Width
  /\ ConnectPoints \in 0..(Width - 1) /\ Points \subseteq 0..(Width - 1)

VARIABLES
  list,   \* s->ban_db
  owed    \* for how long an address was told it is banned (history)

vars == <<list, owed>>

Entry == [score: 0..(Width - 1), left: -1..BanTime, age: 0..(ResetTime + 1)]

NoEntry == [score |-> 0, left |-> -1, age |-> ResetTime + 1]

IS_BANNED(e) == e.score >= MaxScore

\* check_if_banned after it has added its points
Rejects(e) == e.left >= 0 /\ IS_BANNED(e)

-----------------------------------------------------------------------------
\* Mutant: the reset interval lifts an active ban.
ResetByAge(e) ==
  IF (e.left < 0 /\ IS_BANNED(e)) \/ e.age > ResetTime
  THEN [score |-> 0, left |-> e.left, age |-> 0] ELSE e

\* The score is forgotten after a ban, or after the reset interval without one.
Reset(e) ==
  IF (e.left < 0 /\ IS_BANNED(e)) \/ (e.age > ResetTime /\ ~IS_BANNED(e))
  THEN [score |-> 0, left |-> e.left, age |-> 0] ELSE e

\* The sum, unless the unsigned addition overflows.
Sum(score, points) ==
  IF (score + points) % Width > score THEN (score + points) % Width ELSE score

\* Mutant: every attempt starts the ban anew.
AddExtending(e, points) ==
  LET r == Reset(e)
  IN [score |-> Sum(r.score, points), left |-> BanTime, age |-> r.age]

\* add_ip_to_ban_list: only an entry that is not banned yet has its expiration
\* moved.
Add(e, points) ==
  LET r == Reset(e)
  IN [score |-> Sum(r.score, points),
      left |-> IF r.score < MaxScore THEN BanTime ELSE r.left,
      age |-> r.age]

\* The history: the caller is told that the address is banned (-1) although it
\* was not before.
AddPoints(a, points) ==
  LET e == Add(list[a], points)
  IN /\ list' = [list EXCEPT ![a] = e]
     /\ owed' = IF IS_BANNED(e) /\ ~Rejects(list[a])
                THEN [owed EXCEPT ![a] = BanTime] ELSE owed

\* CMD_SECM_BAN_IP and CMD_BAN_IP
Score(a) == \E points \in Points : AddPoints(a, points)

\* check_if_banned, for a new connection or a PROXY header: a local address is
\* not looked up.
Connect(a) == a \notin Local /\ AddPoints(a, ConnectPoints)

\* remove_ip_from_ban_list: the entry stays.
Unban(a) ==
  /\ list' = [list EXCEPT ![a] = [score |-> 0, left |-> -1, age |-> @.age]]
  /\ owed' = [owed EXCEPT ![a] = 0]

\* cleanup_banned_entries
Idle(e) == e.left <= 0 /\ e.age > ResetTime

Cleanup ==
  /\ list' = [a \in Addr |-> IF Idle(list[a]) THEN NoEntry ELSE list[a]]
  /\ UNCHANGED owed

Older(e) ==
  [score |-> e.score,
   left |-> IF e.left >= 0 THEN e.left - 1 ELSE e.left,
   age |-> IF e.age <= ResetTime THEN e.age + 1 ELSE e.age]

\* A second passes.
Tick ==
  /\ list' = [a \in Addr |-> Older(list[a])]
  /\ owed' = [a \in Addr |-> IF owed[a] > 0 THEN owed[a] - 1 ELSE 0]

Init == list = [a \in Addr |-> NoEntry] /\ owed = [a \in Addr |-> 0]

Next ==
  \/ \E a \in Addr : Score(a) \/ Connect(a) \/ Unban(a)
  \/ Cleanup
  \/ Tick

Spec == Init /\ [][Next]_vars

\* The clock runs.
FairSpec == Spec /\ WF_vars(Tick)

-----------------------------------------------------------------------------
(* Properties *)

\* Types; the score stays in its width.
TypeOK == list \in [Addr -> Entry] /\ owed \in [Addr -> 0..BanTime]

\* An active ban is not lifted early: for ban_time seconds from the answer
\* "banned" every connection of the address is refused, whatever is scored,
\* reset or cleaned up meanwhile, unless the administrator unbans it
\* (main-ban.c:170, 188, 356).
BanKept == \A a \in Addr : owed[a] > 0 => Rejects(list[a])

\* A ban is not prolonged by the attempts made during it: an address is refused
\* no longer than ban_time after it was banned (main-ban.c:178).
BanNotProlonged == \A a \in Addr : Rejects(list[a]) => list[a].left <= owed[a]

\* A banned address that polls the server for ever is let in again.
BanEnds == \A a \in Addr : Rejects(list[a]) ~> ~Rejects(list[a])
=============================================================================
