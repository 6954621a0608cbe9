----------------------------- MODULE UserDevice -----------------------------
(***************************************************************************)
(* What main sets up for an accepted user and takes down again: the tun     *)
(* device with its addresses (tun.c), the utmp record and the connect and   *)
(* disconnect scripts (main-user.c), the server-side routes (route-add.c)   *)
(* and the reply that hands the device to the worker (main-worker-cmd.c,    *)
(* main-auth.c).  Every step may fail.  A device lives in the kernel while  *)
(* main or the worker has it open; a name becomes free with the device.     *)
(* libev reaps a script and calls its watcher before the other events of an *)
(* iteration, so that reaping and handling are one step.                    *)
(***************************************************************************)
EXTENDS Integers, Sequences, FiniteSets, SequencesExt

CONSTANTS
  UdProcs,   \* workers that present a cookie
  CookieOf,  \* the cookie each presents
  TunNames,  \* a set of numbers: %d of the device name
  NoTun,     \* an empty name, a closed descriptor
  UdConfs    \* the configurations: script, restrict, utmp, iroutes, prefix

VARIABLES
  udConf,
  udProc,   \* proc_st and its script
  udAlive,  \* the workers that run
  udDev,    \* the kernel's devices by name
  udUtmp,   \* the procs with a USER_PROCESS record
  udChain   \* a cookie was found at two procs at once (history)

udvars == <<udConf, udProc, udAlive, udDev, udUtmp, udChain>>

NewProc ==
  [stat |-> "INACTIVE", name |-> NoTun, fd |-> NoTun, ip4 |-> {}, ip6 |-> {}, hashed |-> FALSE,
   applied |-> FALSE, script |-> "none", ended |-> "none", on |-> 0, off |-> 0]

------------------------------ (* the kernel *) -----------------------------
NoDevice == [open |-> {}, ip4 |-> {}, ip6 |-> FALSE, peer |-> {}, routes |-> {}]

\* the last close removes a device that is not persistent
Close(dev, n, who) ==
  IF n = NoTun THEN dev
  ELSE [dev EXCEPT ![n] = IF @.open \subseteq {who} THEN NoDevice ELSE [@ EXCEPT !.open = @ \ {who}]]

FreeNames(dev) == {n \in TunNames : dev[n] = NoDevice}

-------------------------------- (* tun.c *) --------------------------------
\* os_set_ipv6_addr: the server's address and a route to the client's prefix
os_set_ipv6_addr(d, c) == [d EXCEPT !.ip6 = TRUE, !.peer = {<<a, udConf.prefix>> : a \in c.ip6}]

\* set_network_info: IPv4 first; a device without IPv6 goes on with the other.
set_network_info(c, works6) ==
  LET d == [NoDevice EXCEPT !.open = {"main"}, !.ip4 = c.ip4]
  IN IF works6 THEN os_set_ipv6_addr(d, c) ELSE d

Lowest(names) == CHOOSE n \in names : \A m \in names : n <= m

\* what a failed open_tun leaves in the kernel: the descriptor is closed
OpenFailed(dev, out) == dev

\* open_tun and os_open_tun for proc p.  The name is of the lease once TUNSETIFF gave it, also
\* when a later step fails and the device is closed; the leases stay with the proc.
open_tun(p, c, dev, out) ==
  LET free == FreeNames(dev)
      full == [c EXCEPT !.ip4 = IF @ = {} THEN {p} ELSE @, !.ip6 = IF @ = {} THEN {p} ELSE @]
      n == Lowest(free)
  IN IF out = "refused" THEN [ok |-> FALSE, c |-> c, dev |-> dev]
     ELSE IF out = "busy" \/ free = {} THEN [ok |-> FALSE, c |-> full, dev |-> dev]
     ELSE IF out = "no4" THEN [ok |-> FALSE, c |-> [full EXCEPT !.name = n], dev |-> OpenFailed(dev, out)]
     ELSE [ok |-> TRUE, c |-> [full EXCEPT !.name = n, !.fd = n, !.ip6 = IF out = "no6" THEN {} ELSE @],
           dev |-> [dev EXCEPT ![n] = set_network_info(full, out = "ok")]]

\* reset_ipv4_addr: by the server's address
reset_ipv4_addr(d, old) == IF old.ip4 = {} THEN d ELSE [d EXCEPT !.ip4 = {}]

\* os_reset_ipv6_addr: the route to the client goes, with length 128, only after the address
os_reset_ipv6_addr(d, old) ==
  IF old.ip6 = {} \/ ~d.ip6 THEN d
  ELSE [d EXCEPT !.ip6 = FALSE, !.peer = @ \ {<<a, 128>> : a \in old.ip6}]

\* reset_tun: of the device that has the name now
reset_tun(dev, old) ==
  IF old.name = NoTun THEN dev
  ELSE [dev EXCEPT ![old.name] = os_reset_ipv6_addr(reset_ipv4_addr(@, old), old)]

\* close_tun
close_tun(dev, c) == Close(dev, c.fd, "main")

----------------------------- (* route-add.c *) -----------------------------
\* apply_iroutes when n of the commands succeed: the routes, or those added are removed again.
apply_iroutes(dev, c, n) ==
  IF n = Len(udConf.iroutes) THEN [dev EXCEPT ![c.name].routes = @ \cup ToSet(udConf.iroutes)]
  ELSE [dev EXCEPT ![c.name].routes = @ \ {udConf.iroutes[j] : j \in 1..n}]

\* remove_iroutes: by the name of the device
remove_iroutes(dev, c) ==
  IF c.applied /\ c.name # NoTun THEN [dev EXCEPT ![c.name].routes = @ \ ToSet(udConf.iroutes)] ELSE dev

----------------------- (* main-user.c, main-proc.c *) ----------------------
\* call_script for a connection: a user restricted to routes or ports has the firewall script
RunsScript == udConf.script \/ udConf.restrict

\* user_connected: event, utmp record and script
user_connected(c) == [c EXCEPT !.on = @ + 1]

\* add_utmp_entry, remove_utmp_entry
add_utmp_entry(p) == IF udConf.utmp THEN udUtmp \cup {p} ELSE udUtmp
remove_utmp_entry(p, utmp) == IF udConf.utmp THEN utmp \ {p} ELSE utmp

Ending == {"zero", "nonzero", "signal"}

\* remove_proc runs user_disconnected for a completed proc, and for one whose script it had to
\* wait for when WEXITSTATUS is zero, which it also is for a signal.
LeavesOnRemove(c) == IF c.script = "none" THEN c.stat = "COMPLETED" ELSE c.script \in {"zero", "signal"}

\* remove_proc(p) of proc c, whose script, if any, has ended
Removed(c) ==
  [NewProc EXCEPT !.stat = "GONE", !.on = c.on, !.off = c.off + (IF LeavesOnRemove(c) THEN 1 ELSE 0),
                  !.ended = IF LeavesOnRemove(c) THEN c.ended ELSE "none"]

RemoveFrom(p, c, dev, utmp) ==
  /\ udProc' = [udProc EXCEPT ![p] = Removed(c)]
  /\ udDev' = close_tun(remove_iroutes(dev, c), c)
  /\ udUtmp' = IF LeavesOnRemove(c) THEN remove_utmp_entry(p, utmp) ELSE utmp

\* the end of handle_script_exit: the parent keeps no descriptor, accepted or not
CloseLease(dev, c, accepted) == Close(dev, c.fd, "main")

\* handle_script_exit: the reply, with the device when the code is zero, then the routes, of
\* which n can be added.
handle_script_exit(p, c, dev, zero, sent, n) ==
  LET accepted == zero /\ sent /\ n = Len(udConf.iroutes)
      given == IF zero /\ sent THEN [dev EXCEPT ![c.name].open = @ \cup {p}] ELSE dev
      routed == IF zero /\ sent THEN apply_iroutes(given, c, n) ELSE given
  IN [ok |-> sent /\ (zero => accepted),
      c |-> [c EXCEPT !.stat = IF accepted THEN "COMPLETED" ELSE "FAILED", !.fd = NoTun, !.script = "none",
                      !.applied = accepted /\ udConf.iroutes # <<>>],
      dev |-> CloseLease(routed, c, accepted)]

\* the caller removes the proc when handle_script_exit fails
Settle(p, r, utmp) ==
  IF r.ok THEN udProc' = [udProc EXCEPT ![p] = r.c] /\ udDev' = r.dev /\ udUtmp' = utmp
  ELSE RemoveFrom(p, r.c, r.dev, utmp)

--------------------------------- (* steps *) -------------------------------
Hashed(p) == {q \in UdProcs \ {p} : udProc[q].hashed /\ CookieOf[q] = CookieOf[p]}

\* Mutant: the device of the replaced proc keeps its addresses.
StealOnly(dev, old) == dev

\* StealLeases: old keeps a copy of what moves.
StealLeases(dev, old) == reset_tun(dev, old)

\* the ways accept_user ends: check_multiple_users or get_ip_leases refuse, os_open_tun (busy) or
\* set_network_info fail
UdOutcomes == {"ok", "refused", "busy", "no4", "no6"}

\* accept_user and handle_cookie_auth_res: with a script that can be forked the answer waits for
\* it; otherwise the proc is answered at once.
accept_user(p, c, dev, out, forks, sent, n) ==
  LET o == open_tun(p, c, dev, out)
      user == IF o.ok THEN user_connected(o.c) ELSE o.c
      utmp == IF o.ok THEN add_utmp_entry(p) ELSE udUtmp
  IN IF o.ok /\ RunsScript /\ forks
     THEN /\ udProc' = [udProc EXCEPT ![p] = [user EXCEPT !.stat = "FAILED", !.script = "running"]]
          /\ udDev' = o.dev /\ udUtmp' = utmp
     ELSE Settle(p, handle_script_exit(p, user, o.dev, o.ok /\ ~RunsScript, sent, n), utmp)

\* AUTH_COOKIE_REQ whose session sec-mod has opened: a proc found by the cookie is replaced, its
\* worker killed.
CookieRequest(p) ==
  /\ p \in udAlive /\ udProc[p].stat = "INACTIVE"
  /\ \E old \in Hashed(p) \cup (IF Hashed(p) = {} THEN {p} ELSE {}) :
       LET o == udProc[old]
           c == [udProc[p] EXCEPT !.hashed = TRUE, !.ip4 = o.ip4, !.ip6 = o.ip6]
       IN \E out \in UdOutcomes, forks, sent \in BOOLEAN, n \in 0..Len(udConf.iroutes) :
            accept_user(p, c, StealLeases(udDev, o), out, forks, sent, n)
  /\ udChain' = (udChain \/ Cardinality(Hashed(p)) > 1)
  /\ UNCHANGED <<udConf, udAlive>>

\* The script ends by itself.
ScriptEnds(p, how) ==
  /\ udProc[p].script = "running"
  /\ udProc' = [udProc EXCEPT ![p].script = how, ![p].ended = how]
  /\ UNCHANGED <<udConf, udAlive, udDev, udUtmp, udChain>>

\* script_child_watcher_cb: a signal counts as a failure here
ScriptEvent(p) ==
  /\ udProc[p].script \in Ending
  /\ \E sent \in BOOLEAN, n \in 0..Len(udConf.iroutes) :
       /\ sent => p \in udAlive
       /\ Settle(p, handle_script_exit(p, udProc[p], udDev, udProc[p].script = "zero", sent, n), udUtmp)
  /\ UNCHANGED <<udConf, udAlive, udChain>>

\* remove_proc after an end of file, an error or a timeout: a script that runs is sent SIGTERM
\* and waited for; it dies of it or handles it.
remove_proc(p) ==
  /\ udProc[p].stat # "GONE"
  /\ \E how \in IF udProc[p].script = "running" THEN Ending ELSE {udProc[p].script} :
       RemoveFrom(p, [udProc[p] EXCEPT !.script = how, !.ended = IF how = "none" THEN @ ELSE how], udDev, udUtmp)
  /\ UNCHANGED <<udConf, udAlive, udChain>>

\* a worker ends, killed or not
WorkerExits(p) ==
  /\ p \in udAlive /\ udAlive' = udAlive \ {p}
  /\ udDev' = [n \in TunNames |-> IF p \in udDev[n].open THEN Close(udDev, n, p)[n] ELSE udDev[n]]
  /\ UNCHANGED <<udConf, udProc, udUtmp, udChain>>

UdInit ==
  /\ udConf \in UdConfs
  /\ udProc = [p \in UdProcs |-> NewProc] /\ udAlive = UdProcs
  /\ udDev = [n \in TunNames |-> NoDevice] /\ udUtmp = {} /\ udChain = FALSE

UdNext ==
  \E p \in UdProcs :
    \/ CookieRequest(p) \/ ScriptEvent(p) \/ remove_proc(p) \/ WorkerExits(p)
    \/ \E how \in Ending : ScriptEnds(p, how)

------------------------------ (* properties *) -----------------------------
\* main keeps a device open for a proc whose script it waits for and for no other, whatever
\* failed on the way: descriptors do not add up in the parent (main-worker-cmd.c:130, "The parent
\* doesn't need to keep the tunfd").
TunOnlyWhileWaiting ==
  \A n \in TunNames : "main" \in udDev[n].open <=>
    \E p \in UdProcs : udProc[p].fd = n /\ udProc[p].script # "none"

\* A route of the server leads to the device of a user it was applied for: none stays when one
\* of several commands failed, or when the user has left (apply_iroutes, remove_iroutes).
RoutesHaveUsers ==
  \A n \in TunNames : udDev[n].routes # {} => \E p \in UdProcs : udProc[p].name = n /\ udProc[p].applied

\* the device of a proc main has, while main or the worker has it open
DeviceOf(p) == LET n == udProc[p].name
               IN IF n # NoTun /\ (udProc[p].fd = n \/ p \in udDev[n].open) THEN udDev[n] ELSE NoDevice

\* The devices of two procs never have the address of one client, although a worker that was
\* replaced still holds its device when the client is back on another; unless the cookie was
\* found at two procs (StealLeases).
OneDevicePerAddress ==
  udChain \/ \A p, q \in UdProcs : p # q => DeviceOf(p).ip4 \cap DeviceOf(q).ip4 = {}

\* An accepted user is disconnected once: from acceptance to removal no disconnect script has
\* run, and the removal runs exactly one, so that utmp, the events and the scripts agree on who
\* is online (main-proc.c:123).
AcceptedLeavesOnce ==
  [][ \A p \in UdProcs :
        /\ udProc[p].stat = "COMPLETED" =>
             udProc[p].off = 0 /\ (udProc'[p].stat = "GONE" => udProc'[p].off = 1)
        /\ udProc'[p].off <= udProc'[p].on ]_udvars

\* src/main-proc.c:126 says of a connect script that is running when the proc is removed: "wait
\* for it to finish and if it returns zero run the disconnect script".
DisconnectAfterZero ==
  \A p \in UdProcs : RunsScript /\ udProc[p].off > 0 => udProc[p].ended = "zero"

\* doc/sample.config:562: "Register the connected clients to utmp."  A user that main removed,
\* refused by the connect script or by a route that cannot be added, is not connected.
OnlyConnectedListed == \A p \in udUtmp : udProc[p].stat # "GONE"

\* src/ip-lease.c:107: "here we reset the old tun device, and assign the old addresses to a new
\* device": of a replaced proc's device no route leads to an address another device has.
OldDeviceIsReset ==
  udChain \/ \A p, q \in UdProcs : p # q => DeviceOf(p).peer \cap DeviceOf(q).peer = {}

\* What main sets up for a user goes when the user goes, and not before: the device, its
\* routes and address, and the scripts (user_connected, remove_proc, steal_ip_leases).
DevicesFollowUsers ==
  /\ [](TunOnlyWhileWaiting /\ RoutesHaveUsers /\ OneDevicePerAddress)
  /\ AcceptedLeavesOnce
=============================================================================
