---------------------------- MODULE WorkerPoints ----------------------------
(***************************************************************************)
(* How the points of one connection reach the ban list: the connection     *)
(* itself, and the KKDCP requests a worker serves, which it reports to     *)
(* main at once when they weigh as much as a wrong password and otherwise  *)
(* adds up until it exits.  One reset interval is considered: no time      *)
(* passes and nobody is unbanned.                                          *)
(***************************************************************************)
EXTENDS BanList

CONSTANTS
  Worker,        \* worker slots
  KkdcpPoints,   \* ban_points_kkdcp
  WrongPoints,   \* ban_points_wrong_password
  MaxDue         \* bound: an address earns no points beyond this

VARIABLES
  ws,    \* worker_st: the address, ban_points, and whether the worker runs
  due    \* points an address has earned (history)

pvars == <<list, owed, ws, due>>

\* listen_watcher_cb: check_if_banned, then fork.
Accept(w, a) ==
  /\ ~ws[w].run /\ due[a] < MaxDue
  /\ IF a \in Local THEN UNCHANGED <<list, owed, due>>
     ELSE /\ Connect(a)
          /\ due' = [due EXCEPT ![a] = @ + ConnectPoints]
  /\ ws' = IF a \notin Local /\ Rejects(list'[a]) THEN ws
           ELSE [ws EXCEPT ![w] = [run |-> TRUE, addr |-> a, points |-> 0]]

\* post_kkdcp_handler: ws_add_score_to_ip(ws, ban_points_kkdcp, 0, 0).  A worker
\* that is told its address is banned exits at once.
Post(w) ==
  /\ ws[w].run /\ due[ws[w].addr] < MaxDue
  /\ due' = [due EXCEPT ![ws[w].addr] = @ + KkdcpPoints]
  /\ IF KkdcpPoints < WrongPoints
     THEN /\ ws' = [ws EXCEPT ![w].points = @ + KkdcpPoints]
          /\ UNCHANGED <<list, owed>>
     ELSE /\ AddPoints(ws[w].addr, KkdcpPoints)
          /\ ws' = [ws EXCEPT ![w].points = @ + KkdcpPoints,
                              ![w].run = ~IS_BANNED(list'[ws[w].addr])]

\* exit_worker_reason: ws_add_score_to_ip(ws, 0, 1, reason) sends its argument,
\* zero, as the score.
Exit(w) ==
  /\ ws[w].run
  /\ IF ws[w].points > 0 THEN AddPoints(ws[w].addr, 0) ELSE UNCHANGED <<list, owed>>
  /\ ws' = [ws EXCEPT ![w].run = FALSE]
  /\ UNCHANGED due

PInit ==
  /\ Init
  /\ ws \in [Worker -> {[run |-> FALSE, addr |-> a, points |-> 0] : a \in Addr}]
  /\ due = [a \in Addr |-> 0]

PNext ==
  \E w \in Worker : Post(w) \/ Exit(w) \/ \E a \in Addr : Accept(w, a)

PSpec == PInit /\ [][PNext]_pvars

-----------------------------------------------------------------------------
\* Every point counts in the end: once the workers of an address have exited,
\* the list holds all its points, or the address is banned
\* (doc/sample.config:449 "a KKDCP POST is 1 point, and a connection is 1 point.
\* Note that due to different processes being involved the count of points will
\* not be real-time precise").
PointsCounted ==
  \A a \in Addr :
    (\A w \in Worker : ws[w].run => ws[w].addr # a)
      => list[a].score >= due[a] \/ IS_BANNED(list[a])
=============================================================================
