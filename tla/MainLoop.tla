------------------------------ MODULE MainLoop ------------------------------
(***************************************************************************)
(* Main's event loop: listening sockets and the pauses of accept, procs,   *)
(* the configuration objects that procs keep across a reload, the snapshot *)
(* from which workers read their configuration, the death of sec-mod, and  *)
(* shutdown.  A callback is one step; only the reload is split where it    *)
(* reads the configuration file, which an administrator may be editing.    *)
(* There is one virtual host: the others have objects and counts of their  *)
(* own and are handled in the same loops.                                  *)
(***************************************************************************)
EXTENDS Integers, FiniteSets

CONSTANTS
  Tcp, Udp,      \* listening addresses
  Procs,         \* slots of main's proc list
  Instances,     \* sec-mod processes
  MlNone,          \* no sec-mod process
  MaxGen,        \* bound: configuration objects created
  LimitOf,       \* max-clients in each version of the file, 0 for no limit
  BadVersions,   \* versions that do not parse
  RateLimit,     \* rate-limit-ms is set
  DrainOf        \* server-drain-ms is set, in each version

ASSUME LoopAssumption ==
  /\ MaxGen \in Nat \ {0} /\ IsFiniteSet(Procs) /\ MlNone \notin Instances
  /\ Tcp \cap Udp = {} /\ 1 \in DOMAIN LimitOf /\ DOMAIN LimitOf \subseteq Nat

VARIABLES
  phase,     \* START, RUN, DRAIN (graceful_shutdown_watcher active), DONE
  busy,      \* where the reload handler is: no, parse, snap
  lst,       \* listeners: open, io watcher active, resume_accept timer active
  proc,      \* procs: status, object its configuration points into, worker's version
  gen,       \* the current configuration object
  cfg,       \* objects: NONE, CURRENT, ATTIC, FREED
  use,       \* usage_count of an object
  ver,       \* version of the file in main's configuration
  snap,      \* version in the snapshot
  file,      \* version on disk
  sec,       \* sec-mod processes: UP, DEAD, REAPED
  term       \* SIGTERM or SIGINT is pending

mlvars == <<phase, busy, lst, proc, gen, cfg, use, ver, snap, file, sec, term>>

Listeners == Tcp \cup Udp
Gens == 1..MaxGen
Versions == DOMAIN LimitOf

Closed == [open |-> FALSE, io |-> FALSE, timer |-> FALSE]
Listening == [open |-> TRUE, io |-> TRUE, timer |-> FALSE]
Paused == [open |-> TRUE, io |-> FALSE, timer |-> TRUE]

\* An OPEN session is PENDING while its connect script runs; inst is its sec-mod.
NoProc == [st |-> "NONE", inst |-> MlNone, gen |-> 0, ver |-> 0]
NewProc == [NoProc EXCEPT !.st = "NEW", !.ver = snap]
active_sid(p) == proc[p].st \in {"PENDING", "OPEN"}

active_clients == Cardinality({p \in Procs : proc[p].st # "NONE"})
max_clients == LimitOf[ver]
resume_threshold == (max_clients * 9) \div 10
Reached(n) == max_clients > 0 /\ n >= max_clients

\* Main takes an event.
MlIdle == phase \in {"RUN", "DRAIN"} /\ busy = "no"

-----------------------------------------------------------------------------
\* main up to ev_run: the file is parsed and copied, listen_ports binds what it
\* can (bound) and needs a TCP socket, sec-mod is forked.
Startup(bound) ==
  /\ phase = "START" /\ ver \notin BadVersions
  /\ IF bound \cap Tcp = {}
     THEN phase' = "DONE" /\ UNCHANGED lst
     ELSE /\ phase' = "RUN"
          /\ lst' = [l \in Listeners |-> IF l \in bound THEN Listening ELSE Closed]
  /\ UNCHANGED <<busy, proc, gen, cfg, use, ver, snap, file, sec, term>>

\* The end of listen_watcher_cb with n clients: accept stops at the limit, and may
\* stop when rate limiting finds sec-mod's queue long.
PauseAccept(l, n) ==
  \/ lst' = IF Reached(n) THEN [lst EXCEPT ![l] = Paused] ELSE lst
  \/ RateLimit /\ lst' = [lst EXCEPT ![l] = Paused]

\* listen_watcher_cb on a TCP socket.  Its early returns (accept fails, the limit
\* is reached, TCP wrappers or the ban list refuse, no socket pair) change nothing.
\* Then fork fails, or a worker starts, with the descriptors of the snapshot
\* (set_env_from_ws).
Accept(l, p, forked) ==
  /\ MlIdle /\ l \in Tcp /\ lst[l].io
  /\ ~Reached(active_clients)
  /\ proc[p].st = "NONE"
  /\ proc' = IF forked THEN [proc EXCEPT ![p] = NewProc] ELSE proc
  /\ PauseAccept(l, active_clients + (IF forked THEN 1 ELSE 0))
  /\ UNCHANGED <<phase, busy, gen, cfg, use, ver, snap, file, sec, term>>

\* listen_watcher_cb on a UDP socket: forward_udp_to_owner (see UdpForward), and
\* then the same pauses.
UdpPacket(l) ==
  /\ MlIdle /\ l \in Udp /\ lst[l].io
  /\ PauseAccept(l, active_clients)
  /\ UNCHANGED <<phase, busy, proc, gen, cfg, use, ver, snap, file, sec, term>>

\* Mutant: no threshold is taken for one that is never met.
ResumeBelow(l) ==
  /\ MlIdle /\ lst[l].open /\ lst[l].timer
  /\ active_clients < resume_threshold
  /\ lst' = [lst EXCEPT ![l] = Listening]
  /\ UNCHANGED <<phase, busy, proc, gen, cfg, use, ver, snap, file, sec, term>>

\* resume_accept_cb, with its hysteresis.
ResumeAccept(l) ==
  /\ MlIdle /\ lst[l].open /\ lst[l].timer
  /\ resume_threshold = 0 \/ active_clients < resume_threshold
  /\ lst' = [lst EXCEPT ![l] = Listening]
  /\ UNCHANGED <<phase, busy, proc, gen, cfg, use, ver, snap, file, sec, term>>

-----------------------------------------------------------------------------
\* handle_auth_cookie_req with a cookie of instance i: refused before or after
\* apply_default_config has counted the object, or opened.
SessionOpen(p, i, counted, st) ==
  /\ MlIdle /\ proc[p].st = "NEW"
  /\ st # "FAILED" => counted
  /\ counted => sec[i] = "UP"
  /\ proc' = [proc EXCEPT ![p].st = st, ![p].inst = i, ![p].gen = IF counted THEN gen ELSE 0]
  /\ use' = IF counted THEN [use EXCEPT ![gen] = @ + 1] ELSE use
  /\ UNCHANGED <<phase, busy, lst, gen, cfg, ver, snap, file, sec, term>>

\* script_child_watcher_cb of a script that succeeded.
ScriptDone(p) ==
  /\ MlIdle /\ proc[p].st = "PENDING"
  /\ proc' = [proc EXCEPT ![p].st = "OPEN"]
  /\ UNCHANGED <<phase, busy, lst, gen, cfg, use, ver, snap, file, sec, term>>

\* remove_proc's accounting: the pointer to the count is followed.
Released(P) ==
  [g \in Gens |-> use[g] - Cardinality({p \in P : proc[p].gen = g})]

\* remove_proc outside of shutdown: an open session is closed in sec-mod, and a
\* sec-mod that does not answer ends main.
remove_procs(P) ==
  /\ proc' = [p \in Procs |-> IF p \in P THEN NoProc ELSE proc[p]]
  /\ use' = Released(P)
  /\ phase' = IF \E p \in P : active_sid(p) /\ sec[proc[p].inst] # "UP" THEN "DONE" ELSE phase

\* worker_child_watcher_cb, a bad command, or a failed script.
RemoveProc(p) ==
  /\ MlIdle /\ proc[p].st # "NONE"
  /\ remove_procs({p})
  /\ UNCHANGED <<busy, lst, gen, cfg, ver, snap, file, sec, term>>

-----------------------------------------------------------------------------
\* An administrator saves another version of the file.
Edit(v) ==
  /\ phase # "DONE" /\ v = file + 1 /\ v \in Versions
  /\ file' = v
  /\ UNCHANGED <<phase, busy, lst, proc, gen, cfg, use, ver, snap, sec, term>>

\* Mutant: the object is freed although it is in use.
ArchiveFrees == [cfg EXCEPT ![gen] = "FREED", ![gen + 1] = "CURRENT"]

\* archive_cfg and cfg_new: a used object goes to the attic, an unused one is freed.
archive_cfg == [cfg EXCEPT ![gen] = IF use[gen] = 0 THEN "FREED" ELSE "ATTIC", ![gen + 1] = "CURRENT"]

\* reload_sig_watcher_cb up to the parsing of the file in main.  A sec-mod that
\* does not answer, or that exits on a bad file, leads to SIGTERM.
ReloadBegin ==
  /\ MlIdle /\ gen < MaxGen
  /\ sec' = [i \in Instances |-> IF sec[i] = "UP" /\ file \in BadVersions THEN "DEAD" ELSE sec[i]]
  /\ term' = (term \/ \E i \in Instances : sec'[i] # "UP")
  /\ cfg' = archive_cfg
  /\ gen' = gen + 1
  /\ busy' = "parse"
  /\ UNCHANGED <<phase, lst, proc, use, ver, snap, file>>

\* parse_cfg_file in main: ini_parse and the checks; a bad file ends the server.
ReloadParse ==
  /\ busy = "parse"
  /\ ver' = file
  /\ busy' = "snap"
  /\ phase' = IF file \in BadVersions THEN "DONE" ELSE phase
  /\ UNCHANGED <<lst, proc, gen, cfg, use, snap, file, sec, term>>

\* parse_cfg_file in main: snapshot_create replaces the copy of the file.
ReloadSnapshot ==
  /\ busy = "snap" /\ phase # "DONE"
  /\ snap' = file
  /\ busy' = "no"
  /\ UNCHANGED <<phase, lst, proc, gen, cfg, use, ver, file, sec, term>>

\* clear_old_configs.
clear_old_configs == [g \in Gens |-> IF cfg[g] = "ATTIC" /\ use[g] = 0 THEN "FREED" ELSE cfg[g]]

\* perform_maintenance: the attic, and kill_children_auth_timeout for procs that
\* are late (L).
Maintenance(L) ==
  /\ MlIdle /\ L \subseteq {p \in Procs : proc[p].st \in {"NEW", "FAILED", "PENDING"}}
  /\ cfg' = clear_old_configs
  /\ remove_procs(L)
  /\ UNCHANGED <<busy, lst, gen, ver, snap, file, sec, term>>

-----------------------------------------------------------------------------
\* A sec-mod process dies.
SecModDies(i) ==
  /\ phase # "DONE" /\ sec[i] = "UP"
  /\ sec' = [sec EXCEPT ![i] = "DEAD"]
  /\ UNCHANGED <<phase, busy, lst, proc, gen, cfg, use, ver, snap, file, term>>

\* sec_mod_child_watcher_cb, or sec_mod_watcher_cb on the closed socket.
SecModReaped(i) ==
  /\ MlIdle /\ sec[i] = "DEAD"
  /\ sec' = [sec EXCEPT ![i] = "REAPED"]
  /\ term' = TRUE
  /\ UNCHANGED <<phase, busy, lst, proc, gen, cfg, use, ver, snap, file>>

\* SIGTERM, SIGINT, or occtl stop.
Signal ==
  /\ phase \in {"RUN", "DRAIN"} /\ ~term
  /\ term' = TRUE
  /\ UNCHANGED <<phase, busy, lst, proc, gen, cfg, use, ver, snap, file, sec>>

\* terminate_server and kill_children: every proc is removed without closing its
\* session, sec-mod is told to exit; the wait is bounded and the loop is left.
terminate_server ==
  /\ proc' = [p \in Procs |-> NoProc]
  /\ use' = Released(Procs)
  /\ phase' = "DONE"
  /\ UNCHANGED <<busy, lst, gen, cfg, ver, snap, file, sec>>

\* term_sig_watcher_cb: without a drain time the server terminates; with one, the
\* first signal closes the listeners.  Their resume timers are not stopped.
TermSignal ==
  /\ MlIdle /\ term
  /\ term' = FALSE
  /\ \/ ~DrainOf[ver] /\ terminate_server
     \/ /\ DrainOf[ver] /\ phase = "RUN"
        /\ phase' = "DRAIN"
        /\ lst' = [l \in Listeners |-> [Closed EXCEPT !.timer = lst[l].timer]]
        /\ UNCHANGED <<busy, proc, gen, cfg, use, ver, snap, file, sec>>
     \/ /\ DrainOf[ver] /\ phase = "DRAIN"
        /\ UNCHANGED <<phase, busy, lst, proc, gen, cfg, use, ver, snap, file, sec>>

\* The timer of a listener that was released while paused still fires; the callback
\* reads released memory.  It may do nothing, or end main.
StrayTimer(l) ==
  /\ MlIdle /\ ~lst[l].open /\ lst[l].timer
  /\ \/ lst' = [lst EXCEPT ![l] = Closed] /\ UNCHANGED phase
     \/ phase' = "DONE" /\ UNCHANGED lst
  /\ UNCHANGED <<busy, proc, gen, cfg, use, ver, snap, file, sec, term>>

\* graceful_shutdown_watcher_cb.
DrainEnds ==
  /\ MlIdle /\ phase = "DRAIN"
  /\ terminate_server /\ UNCHANGED term

-----------------------------------------------------------------------------
MlInit ==
  /\ phase = "START" /\ busy = "no"
  /\ lst = [l \in Listeners |-> Closed]
  /\ proc = [p \in Procs |-> NoProc]
  /\ gen = 1 /\ cfg = [g \in Gens |-> IF g = 1 THEN "CURRENT" ELSE "NONE"]
  /\ use = [g \in Gens |-> 0]
  /\ file = 1 /\ ver = 1 /\ snap = 1
  /\ sec = [i \in Instances |-> "UP"] /\ term = FALSE

Loop ==
  \/ \E l \in Listeners : UdpPacket(l) \/ StrayTimer(l)
  \/ \E l \in Tcp, p \in Procs, forked \in BOOLEAN : Accept(l, p, forked)
  \/ \E p \in Procs, i \in Instances, counted \in BOOLEAN :
       \E st \in {"FAILED", "PENDING", "OPEN"} : SessionOpen(p, i, counted, st)
  \/ \E p \in Procs : ScriptDone(p) \/ RemoveProc(p)

MlNext ==
  \/ \E bound \in SUBSET Listeners : Startup(bound)
  \/ Loop
  \/ \E l \in Listeners : ResumeAccept(l)
  \/ \E v \in Versions : Edit(v)
  \/ ReloadBegin \/ ReloadParse \/ ReloadSnapshot
  \/ \E L \in SUBSET Procs : Maintenance(L)
  \/ \E i \in Instances : SecModDies(i) \/ SecModReaped(i)
  \/ Signal \/ TermSignal \/ DrainEnds

MlSpec == MlInit /\ [][MlNext]_mlvars

\* libev serves its timers, signals and child watchers, and a handler that was
\* entered ends; nothing is assumed of clients, workers and administrators.
Fairness ==
  /\ WF_mlvars(ReloadParse \/ ReloadSnapshot)
  /\ WF_mlvars(Maintenance({}))
  /\ \A l \in Listeners : WF_mlvars(ResumeAccept(l))
  /\ \A i \in Instances : WF_mlvars(SecModReaped(i))
  /\ WF_mlvars(TermSignal) /\ WF_mlvars(DrainEnds)

MlFairSpec == MlSpec /\ Fairness

-----------------------------------------------------------------------------
(* Properties *)

LoopTypeOK ==
  /\ phase \in {"START", "RUN", "DRAIN", "DONE"} /\ busy \in {"no", "parse", "snap"}
  /\ lst \in [Listeners -> [open : BOOLEAN, io : BOOLEAN, timer : BOOLEAN]]
  /\ proc \in [Procs -> [st : {"NONE", "NEW", "PENDING", "OPEN", "FAILED"},
                        inst : Instances \cup {MlNone}, gen : 0..MaxGen, ver : Versions \cup {0}]]
  /\ gen \in Gens /\ cfg \in [Gens -> {"NONE", "CURRENT", "ATTIC", "FREED"}]
  /\ use \in [Gens -> 0..Cardinality(Procs)]
  /\ ver \in Versions /\ snap \in Versions /\ file \in Versions
  /\ sec \in [Instances -> {"UP", "DEAD", "REAPED"}] /\ term \in BOOLEAN

\* A proc keeps pointers into the configuration that was current when its session
\* was opened.  However reloads, maintenance and removals interleave, that object is
\* not freed under it, and its usage count is the number of such procs
\* (config.c:2483 archive_cfg, config.c:2678 clear_old_configs).
ConfigInUseKept ==
  /\ \A p \in Procs : proc[p].gen # 0 => cfg[proc[p].gen] \in {"CURRENT", "ATTIC"}
  /\ \A g \in Gens : use[g] = Cardinality({p \in Procs : proc[p].gen = g})

\* An archived configuration that nobody uses is freed by maintenance; one that is
\* in use cannot block the others (config.c:2685).
AtticDrains ==
  \A g \in 1..(MaxGen - 1) : (cfg[g] = "ATTIC" /\ use[g] = 0) ~> (cfg[g] = "FREED" \/ phase = "DONE")

\* A listener that accept was paused on has its timer armed, and one that accepts
\* has not: no pause, resume, limit or rate-limit order leaves a socket that nobody
\* will serve again (main.c:1349, main.c:1373).
PausedHasTimer ==
  \A l \in Listeners : lst[l].open => (lst[l].io <=> ~lst[l].timer)

\* A listener is served, or the server is at nine tenths of its limit or more.
ServedOrFull(l) ==
  \/ lst[l].io \/ ~lst[l].open \/ phase = "DONE"
  \/ resume_threshold > 0 /\ active_clients >= resume_threshold

\* A paused listener accepts again, unless the server stays at nine tenths of its
\* limit: after any sequence of pauses and reloads of max-clients (main.c:1115).
AcceptResumes == \A l \in Listeners : []<>ServedOrFull(l)

\* A worker is forked with the configuration that main works with, or with what the
\* file held when main had just read it; never with an older one, and never with an
\* edit that no reload has taken up (config.c:1653 "Worker always reads from
\* snapshot").
WorkerConfigIsLoaded ==
  [][ \A p \in Procs : proc[p].st = "NONE" /\ proc'[p].st = "NEW" =>
        proc'[p].ver >= ver /\ proc'[p].ver = snap ]_mlvars

\* A termination request, or the death of a sec-mod process, ends the server, with
\* or without a drain time, whatever main was doing (main.c:1000, main.c:1037).
TerminationCompletes ==
  (phase = "RUN" /\ (term \/ \E i \in Instances : sec[i] = "DEAD")) ~> (phase = "DONE")

\* main makes progress: old configurations are freed, a paused listener has its timer and
\* accepts again, termination ends, and workers start with the configuration that was loaded.
LoopGoesOn ==
  AtticDrains /\ []PausedHasTimer /\ AcceptResumes /\ TerminationCompletes /\ WorkerConfigIsLoaded
=============================================================================
