------------------------------- MODULE Config -------------------------------
(***************************************************************************)
(* The configuration file and what the processes hold of it (config.c):     *)
(* main and sec-mod parse it at start and at every reload, a worker parses   *)
(* main's snapshot once.  A file is a sequence of lines; a line gives one    *)
(* option of the default or of a named virtual host.  One option stands for  *)
(* each kind the parser tells apart:                                         *)
(*   port, occtl        global, non-reloadable (occtl has a default)         *)
(*   cert, auth, eauth  of a virtual host, non-reloadable                    *)
(*   device             global, reloadable                                   *)
(*   dpd, expose        scalars, reloadable (dpd has a default)              *)
(*   network, route     reloadable, mandatory and repeated                   *)
(***************************************************************************)
EXTENDS Integers, Sequences, FiniteSets, SequencesExt

CONSTANTS Files,     \* the files the administrator may write
          MaxAuth,   \* MAX_AUTH_METHODS
          MaxEdits   \* bound on the changes of the file

VARIABLES
  cfFile,    \* the file on disk
  cfSnap,    \* main's snapshot of it
  cfMain, cfSec, cfWorker,  \* what main, sec-mod and the newest worker hold
  cfPhase,   \* "idle", or "main" between sec-mod's and main's reload
  cfEdits,
  cfStart,   \* what main held after it started (history)
  cfHad      \* the virtual hosts the process that reloads had before (history)

cfvars == <<cfFile, cfSnap, cfMain, cfSec, cfWorker, cfPhase, cfEdits, cfStart, cfHad>>

Refused == [x \in {"refused"} |-> FALSE]  \* the process ends: exit(EXIT_FAILURE)
NoProcess == [x \in {"none"} |-> FALSE]
NoTable == <<>>
OcctlDefault == 9
DpdDefault == 9

---------------------------- (* new structures *) ---------------------------
\* cfg_new and apply_default_conf, the reloadable part
NewConf == [dpd |-> DpdDefault, expose |-> 0, network |-> 0, device |-> 0, route |-> <<>>]

\* vhost_add.  auth is the table of methods, read the lines not yet made into it.
NewVhost ==
  [static |-> [port |-> 0, occtl |-> OcctlDefault, cert |-> 0, auth |-> NoTable],
   read |-> [auth |-> <<>>, eauth |-> <<>>], conf |-> NewConf, inherited |-> FALSE, init |-> FALSE]

\* Mutant: a virtual host keeps what it inherited before the reload.
InheritedKept(vh) == [vh EXCEPT !.conf = NewConf, !.static.occtl = OcctlDefault]

\* archive_cfg, clear_cfg and cfg_new for a reload: apply_default_conf sets occtl_socket_file again.
Cleared(vh) == [vh EXCEPT !.conf = NewConf, !.inherited = FALSE, !.static.occtl = OcctlDefault]

\* cfg_copy_from_default: a scalar whose has_ flag nobody set is not packed.
cfg_copy_from_default(conf) == [conf EXCEPT !.expose = 0]

------------------------------- (* one line *) ------------------------------
Static == {"port", "occtl", "cert", "auth", "eauth"}
Global == {"port", "occtl", "device"}

\* Non-reloadable options are read until the methods are set up.
ReadsStatic(vh) == ~vh.init

ReadStatic(vh, line) ==
  IF ~ReadsStatic(vh) THEN vh  \* an unknown option now
  ELSE IF line.opt \in {"auth", "eauth"} THEN [vh EXCEPT !.read[line.opt] = Append(@, line.val)]
  ELSE [vh EXCEPT !.static[line.opt] = line.val]

\* _add_multi_line_val
ReadList(vh, line) == [vh EXCEPT !.conf.route = Append(@, line.val)]

ReadScalar(vh, line) == [vh EXCEPT !.conf[line.opt] = line.val]

\* The virtual host of a section, added, and given the default's options, at its first line.
Section(vs, sec) ==
  LET all == IF sec \in DOMAIN vs THEN vs ELSE [v \in DOMAIN vs \cup {sec} |-> IF v = sec THEN NewVhost ELSE vs[v]]
  IN IF sec = "" \/ all[sec].inherited THEN all
     ELSE [all EXCEPT ![sec].conf = cfg_copy_from_default(vs[""].conf), ![sec].inherited = TRUE]

\* error_on_vhost: of an option that is read at all
ErrorOnVhost(vh, line) ==
  line.sec # "" /\ line.opt \in Global /\ (line.opt \in Static => ReadsStatic(vh))

cfg_ini_handler(vs, line) ==
  IF vs = Refused THEN vs
  ELSE LET all == Section(vs, line.sec)
           vh == all[line.sec]
       IN IF ErrorOnVhost(vh, line) THEN Refused
          ELSE [all EXCEPT ![line.sec] =
                  IF line.opt \in Static THEN ReadStatic(vh, line)
                  ELSE IF line.opt = "route" THEN ReadList(vh, line) ELSE ReadScalar(vh, line)]

------------------------- (* after the last line *) -------------------------
Passwords == {"plain", "pam", "radius"}

\* check_for_duplicate_password_auth, check_for_duplicate_oidc_auth
Duplicate(table, m) ==
  \E i \in 1..Len(table) : \/ m \in Passwords /\ table[i] \cap Passwords # {}
                           \/ m = "oidc" /\ "oidc" \in table[i]

\* figure_auth_funcs with primary = 1: one entry, of at most one module and the certificate.
Primary(auth) ==
  IF Len(SelectSeq(auth, LAMBDA m : m # "certificate")) > 1 THEN NoTable ELSE <<ToSet(auth)>>

\* figure_auth_funcs with primary = 0: every method is an entry of its own.
Append1(table, m) ==
  IF table = NoTable \/ Duplicate(table, m) \/ Len(table) + 1 >= MaxAuth THEN NoTable
  ELSE Append(table, {m})

figure_auth_funcs(read) == FoldLeft(Append1, Primary(read.auth), read.eauth)

\* vhost_inherit_static_config: the global ones always, the others unless set.
vhost_inherit_static_config(vh, def) ==
  [vh EXCEPT !.static = [port |-> def.port, occtl |-> def.occtl,
                         cert |-> IF @.cert = 0 THEN def.cert ELSE @.cert,
                         auth |-> IF @.auth = NoTable THEN def.auth ELSE @.auth]]

\* check_cfg: mandatory options; a default route stands for all.
Mandatory(vh) == vh.static.auth # NoTable /\ vh.static.port # 0 /\ vh.static.cert # 0 /\ vh.conf.network # 0 /\ vh.conf.device # 0
check_cfg(vh) == IF Contains(vh.conf.route, 0) THEN [vh EXCEPT !.conf.route = <<>>] ELSE vh

\* The loop of parse_cfg_file over the virtual hosts, the default one first.
Apply(vs, v) ==
  IF vs = Refused THEN vs
  ELSE LET vh == vs[v]
           unset == ~vh.init /\ vh.read.auth = <<>>
           table == IF vh.init \/ unset THEN vh.static.auth ELSE figure_auth_funcs(vh.read)
           made == [vh EXCEPT !.static.auth = table, !.init = TRUE, !.read = NewVhost.read]
           bad == ~unset /\ table = NoTable
           full == IF v = "" THEN made ELSE vhost_inherit_static_config(made, vs[""].static)
       IN IF bad \/ (unset /\ v = "") \/ ~Mandatory(full) THEN Refused
          ELSE [vs EXCEPT ![v] = check_cfg(full)]

\* parse_cfg_file
parse_cfg_file(vs, file) ==
  LET read == FoldLeft(cfg_ini_handler, vs, file)
  IN IF read = Refused THEN read
     ELSE FoldLeft(Apply, Apply(read, ""), SetToSeq(DOMAIN read \ {""}))

\* cmd_parser: a new process
cmd_parser(file) == parse_cfg_file([v \in {""} |-> NewVhost], file)

\* reload_cfg_file
reload_cfg_file(vs, file) == parse_cfg_file([v \in DOMAIN vs |-> Cleared(vs[v])], file)

------------------------------- (* processes *) -----------------------------
Up == cfMain # Refused /\ cfSec # Refused

CfEdit ==
  /\ Up /\ cfEdits < MaxEdits /\ cfEdits' = cfEdits + 1
  /\ \E f \in Files : cfFile' = f
  /\ UNCHANGED <<cfSnap, cfMain, cfSec, cfWorker, cfPhase, cfStart, cfHad>>

\* SIGHUP: sec-mod first (secmod_reload); its end is main's.
CfReloadSecMod ==
  /\ Up /\ cfPhase = "idle"
  /\ cfSec' = reload_cfg_file(cfSec, cfFile)
  /\ cfPhase' = "main" /\ cfHad' = DOMAIN cfSec
  /\ UNCHANGED <<cfFile, cfSnap, cfMain, cfWorker, cfEdits, cfStart>>

\* then main, which takes the snapshot
CfReloadMain ==
  /\ Up /\ cfPhase = "main"
  /\ cfMain' = reload_cfg_file(cfMain, cfFile)
  /\ cfSnap' = cfFile /\ cfPhase' = "idle" /\ cfHad' = DOMAIN cfMain
  /\ UNCHANGED <<cfFile, cfSec, cfWorker, cfEdits, cfStart>>

CfWorkerStarts ==
  /\ Up /\ cfPhase = "idle"
  /\ cfWorker' = cmd_parser(cfSnap)
  /\ UNCHANGED <<cfFile, cfSnap, cfMain, cfSec, cfPhase, cfEdits, cfStart, cfHad>>

\* main starts with a file it accepts; sec-mod is its child.
CfInit ==
  /\ cfFile \in Files /\ cfSnap = cfFile /\ cfMain = cmd_parser(cfFile) /\ cfMain # Refused
  /\ cfSec = cfMain /\ cfStart = cfMain
  /\ cfWorker = NoProcess /\ cfPhase = "idle" /\ cfEdits = 0 /\ cfHad = {}

CfNext == CfEdit \/ CfReloadSecMod \/ CfReloadMain \/ CfWorkerStarts

------------------------------ (* properties *) -----------------------------
Sections(file) == {line.sec : line \in ToSet(file)}

LastOf(file, sec, opt, else) ==
  LET own == SelectSeq(file, LAMBDA l : l.sec = sec /\ l.opt = opt) IN IF own = <<>> THEN else ELSE Last(own).val

Routes(file, sec) == LET own == SelectSeq(file, LAMBDA l : l.sec \in {"", sec} /\ l.opt = "route")
                     IN [i \in 1..Len(own) |-> own[i].val]

\* While it runs, main holds for every virtual host of its file, and for no other, what that file
\* says: the option of its own section, else the default's, else the built-in value, and the
\* routes of both; whatever was loaded before (cfg_copy_from_default, cfg_inherited, archive_cfg).
RunsItsFile ==
  Up /\ cfPhase = "idle" =>
    /\ DOMAIN cfMain = Sections(cfSnap)
    /\ \A v \in DOMAIN cfMain :
         /\ cfMain[v].conf.dpd = LastOf(cfSnap, v, "dpd", LastOf(cfSnap, "", "dpd", DpdDefault))
         /\ cfMain[v].conf.route = IF Contains(Routes(cfSnap, v), 0) THEN <<>> ELSE Routes(cfSnap, v)

\* A reload never changes where main listens, its certificates and its methods, nor sec-mod's
\* (ReadsStatic: auth_init).
RestartOnlyKept ==
  Up => \A v \in DOMAIN cfStart, o \in {"port", "cert", "auth"} :
          /\ v \in DOMAIN cfMain /\ cfMain[v].static[o] = cfStart[v].static[o]
          /\ v \in DOMAIN cfSec /\ cfSec[v].static[o] = cfStart[v].static[o]

\* A reload ends the server only for a file it would not start with, or one without a virtual
\* host the process already has: an accepted file is accepted whatever was loaded before it
\* (exit() in parse_cfg_file and check_cfg).
EndsOnlyWhenUnfit == ~Up => cmd_parser(cfFile) = Refused \/ ~(cfHad \subseteq Sections(cfFile))

\* Of no virtual host two methods ask for a password or log in with OpenID Connect, inherited
\* ones included (config.c:240, "Only one OpenID Connect method may be configured").
OneOfAKind ==
  Up => \A v \in DOMAIN cfMain : LET t == cfMain[v].static.auth
          IN \A i, j \in 1..Len(t) : i # j => t[i] \cap Passwords = {} \/ t[j] \cap Passwords = {}

\* doc/requirements/internal/config.md:72: static_config is "populated once at startup and never
\* replaced by reload"; src/vpn.h:227, "stuff here don't change on reload".
StaticUnchanged == Up => \A v \in DOMAIN cfStart : v \in DOMAIN cfMain => cfMain[v].static = cfStart[v].static

\* doc/sample.config:218: of the non-reloadable options, "The options above, will remain
\* unchanged": also in the workers started after a reload.
WorkersUnchanged ==
  cfWorker \notin {Refused, NoProcess} => \A v \in DOMAIN cfStart \cap DOMAIN cfWorker :
    cfWorker[v].static = cfStart[v].static

\* After any sequence of edits and reloads the server runs what its file says where the
\* option can be reloaded, and what it was started with where it cannot; it ends only on a
\* file it could not have started with (reload_vhosts_config, parse_cfg_file).
FileInForce == EndsOnlyWhenUnfit /\ RunsItsFile /\ RestartOnlyKept /\ OneOfAKind
=============================================================================
