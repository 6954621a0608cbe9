----------------------------- MODULE UserConfig -----------------------------
(***************************************************************************)
(* How the configuration of a session is put together and used: sec-mod     *)
(* reads the files of the client's group and of the client                  *)
(* (sup-config/file.c) or takes what the RADIUS server answered             *)
(* (auth/radius.c, sup-config/radius.c), main fills what is missing from    *)
(* the virtual host (main-sec-mod-cmd.c), adds the other clients' networks  *)
(* and exports the result to the scripts (main-user.c), and the worker      *)
(* tells the client (worker-vpn.c).  A file is its numeric options, as a    *)
(* function on the options it names, its lists and whether it parses.       *)
(***************************************************************************)
EXTENDS Integers, Sequences, FiniteSets, TLC, SequencesExt

CONSTANTS
  UcUsers,    \* user names
  UcGroups,   \* group names, NoUcGroup among them
  NoUcGroup,  \* the empty group name
  UnsafeName, \* a user name that is no plain file name
  UcFiles,    \* the contents the files may have
  NoUcFile,   \* no such file
  UcConfs,    \* the virtual host's configurations
  UcV6,       \* the routes that are IPv6
  UcReplies,  \* the attributes of the RADIUS answers
  MaxGroups,  \* MAX_GROUPS
  MaxUcEdits  \* bound: edits of files and reloads

VARIABLES
  ucUser,   \* the directory config-per-user
  ucGroup,  \* the directory config-per-group
  ucConf,   \* vhost->config of main
  ucKnown,  \* known_iroutes, as of the last load
  ucSess,   \* the session of a client
  ucEdits

ucvars == <<ucUser, ucGroup, ucConf, ucKnown, ucSess, ucEdits>>

Lists == {"routes", "no_routes", "dns", "iroutes", "ports"}

EmptyConfig == [opt |-> <<>>, lists |-> [l \in Lists |-> <<>>], ok |-> TRUE]

NoUcSess == [stage |-> "none"]

---------------------------- (* sup-config/file.c *) ------------------------
\* ip_route_sanity_check: a prefix becomes a netmask, other routes are kept
RouteNormal(r) == IF r = "0.0.0.0/0" THEN "0.0.0.0/0.0.0.0" ELSE r

RoutesNormal(s) == [i \in DOMAIN s |-> RouteNormal(s[i])]

\* group_cfg_ini_handler: a number replaces the earlier one, a list grows
Handle(gc, f) ==
  [opt |-> f.opt @@ gc.opt, lists |-> [l \in Lists |-> gc.lists[l] \o f.lists[l]], ok |-> gc.ok /\ f.ok]

\* run_group_cfg_sanity_checks
SanityChecked(gc) ==
  [gc EXCEPT !.lists = [l \in Lists |-> IF l \in {"routes", "no_routes", "iroutes"} THEN RoutesNormal(@[l]) ELSE @[l]]]

\* a file is read to its end and its routes are checked, or it is refused
parse_group_cfg_file(gc, f) == SanityChecked(Handle(gc, f))

is_safe_path_component(name) == name # UnsafeName

\* the file of a name, else the fallback; an unsafe name has neither
read_sup_config_file(gc, dir, name, fallback) ==
  CASE ~is_safe_path_component(name) -> [gc EXCEPT !.ok = FALSE]
    [] is_safe_path_component(name) /\ dir[name] # NoUcFile -> parse_group_cfg_file(gc, dir[name])
    [] OTHER -> IF fallback = NoUcFile THEN gc ELSE parse_group_cfg_file(gc, fallback)

\* get_sup_config of sup-config/file.c: the group, then the user
FileConfig(user, group) ==
  LET g == IF group = NoUcGroup THEN EmptyConfig
           ELSE read_sup_config_file(EmptyConfig, ucGroup, group, ucConf.group_conf)
  IN IF g.ok THEN read_sup_config_file(g, ucUser, user, ucConf.user_conf) ELSE g

-------------------------- (* the RADIUS answer *) --------------------------
NewReply == [opt |-> <<>>, routes |-> <<>>, dns |-> <<>>, groups |-> <<>>, ok |-> TRUE]

\* parse_groupnames: one attribute may name several groups
parse_groupnames(p, gs) ==
  IF Len(p.groups) >= MaxGroups THEN p
  ELSE [p EXCEPT !.groups = SubSeq(@ \o gs, 1, IF Len(@ \o gs) > MaxGroups THEN MaxGroups ELSE Len(@ \o gs))]

\* one attribute of an Access-Accept; a later number replaces an earlier one
RadiusAttribute(p, a) ==
  CASE ~p.ok -> p
    [] p.ok /\ a.kind = "service" -> [p EXCEPT !.ok = a.val]
    [] p.ok /\ a.kind = "group" -> parse_groupnames(p, a.val)
    [] p.ok /\ a.kind = "route" -> [p EXCEPT !.routes = Append(@, a.val)]
    [] p.ok /\ a.kind = "dns6" -> IF Len(p.dns) < 2 THEN [p EXCEPT !.dns = Append(@, a.val)] ELSE p
    [] OTHER -> [p EXCEPT !.opt = (a.kind :> a.val) @@ @]

RadiusReply(attrs) == FoldLeft(RadiusAttribute, NewReply, attrs)

\* get_sup_config of sup-config/radius.c: zero is "not set"
RadiusConfig(p) ==
  [EmptyConfig EXCEPT
     !.opt = [o \in {x \in DOMAIN p.opt : p.opt[x] > 0} |-> p.opt[o]],
     !.lists = [@ EXCEPT !.routes = RoutesNormal(p.routes), !.dns = p.dns]]

------------------------ (* main: main-sec-mod-cmd.c *) ---------------------
\* load_iroutes: the networks of every file of config-per-user
IroutesOf(dir) ==
  LET users == SetToSeq({u \in DOMAIN dir : dir[u] # NoUcFile})
  IN FlattenSeq([i \in DOMAIN users |-> RoutesNormal(dir[users[i]].lists["iroutes"])])

\* check_cfg: the keyword among the virtual host's routes empties their list
HostConfig(c) ==
  LET rs == RoutesNormal(c.lists["routes"])
  IN [c EXCEPT !.lists = [@ EXCEPT !.routes = IF "default" \in ToSet(rs) THEN <<>> ELSE rs]]

load_iroutes(c, dir) == IF c.expose THEN IroutesOf(dir) ELSE <<>>

\* Mutant: the client's own networks are pushed to it too.
AppendAll(lists) ==
  [lists EXCEPT !.routes = @ \o ucKnown \o (IF ucConf.append THEN ucConf.lists["routes"] ELSE <<>>),
                !.no_routes = @ \o (IF ucConf.append THEN ucConf.lists["no_routes"] ELSE <<>>)]

\* append_routes: the known networks that are not the client's own; with
\* append-routes the virtual host's routes too
append_routes(lists) ==
  LET other == SelectSeq(ucKnown, LAMBDA r : r \notin ToSet(lists["iroutes"]))
  IN [lists EXCEPT !.routes = @ \o other \o (IF ucConf.append THEN ucConf.lists["routes"] ELSE <<>>),
                   !.no_routes = @ \o (IF ucConf.append THEN ucConf.lists["no_routes"] ELSE <<>>)]

DefaultList(lists, l) == IF lists[l] = <<>> THEN [lists EXCEPT ![l] = ucConf.lists[l]] ELSE lists

\* apply_default_config: routes, then append_routes, then the other lists
apply_default_config(gc) ==
  LET a == append_routes(DefaultList(gc.lists, "routes"))
  IN [gc EXCEPT !.opt = @ @@ ucConf.opt,
                !.lists = DefaultList(DefaultList(DefaultList(a, "no_routes"), "dns"), "ports")]

\* export_fw_info: one negated port makes the whole list one of refused ports
export_fw_info(gc) ==
  LET ports == gc.lists["ports"]
      deny == \E i \in DOMAIN ports : ports[i].negate
  IN [routes |-> gc.lists["routes"], no_routes |-> gc.lists["no_routes"], dns |-> gc.lists["dns"],
      allow |-> IF deny THEN {} ELSE {ports[i].port : i \in DOMAIN ports},
      deny |-> IF deny THEN {ports[i].port : i \in DOMAIN ports} ELSE {}]

------------------------------ (* the worker *) -----------------------------
check_if_default_route(routes) == \E i \in DOMAIN routes : routes[i] \in {"default", "0.0.0.0/0"}

\* send_routes: only the families the client asked for
send_routes(routes, no6) == SelectSeq(routes, LAMBDA r : ~no6 \/ r \notin UcV6)

\* connect_handler: what the client is told, and what the worker will apply
connect_headers(gc, wsr, mobile, no6) ==
  [dpd |-> IF mobile THEN gc.opt["mobile-dpd"] ELSE gc.opt["dpd"],
   idle |-> IF mobile THEN wsr.opt["mobile-idle"] ELSE wsr.opt["idle"],
   timeout |-> gc.opt["timeout"],
   include |-> IF check_if_default_route(gc.lists["routes"]) THEN <<>> ELSE send_routes(gc.lists["routes"], no6),
   exclude |-> send_routes(gc.lists["no_routes"], no6),
   dns |-> gc.lists["dns"]]

------------------------------- (* the steps *) -----------------------------
\* the administrator writes a file of config-per-user
EditUserFile(u, f) ==
  /\ ucEdits < MaxUcEdits
  /\ ucUser[u] # f
  /\ ucUser' = [ucUser EXCEPT ![u] = f]
  /\ ucEdits' = ucEdits + 1
  /\ UNCHANGED <<ucGroup, ucConf, ucKnown, ucSess>>

\* a reload: the configuration and the known networks are read again
ReloadConf(c) ==
  /\ ucEdits < MaxUcEdits
  /\ c.radius = ucConf.radius
  /\ ucConf' = HostConfig(c)
  /\ ucKnown' = load_iroutes(c, ucUser)
  /\ ucEdits' = ucEdits + 1
  /\ UNCHANGED <<ucUser, ucGroup, ucSess>>

\* a worker starts: it has the configuration of this moment
UcFork ==
  /\ ucSess.stage = "none"
  /\ ucSess' = [stage |-> "forked", wsr |-> ucConf]
  /\ UNCHANGED <<ucUser, ucGroup, ucConf, ucKnown, ucEdits>>

\* session_open: sec-mod's answer, filled by main, or a refusal; "from" is
\* what the files held at that moment (history)
OpenWith(sup, from, groups) ==
  /\ ucSess.stage = "forked"
  /\ ucSess' = IF sup.ok
               THEN LET gc == apply_default_config(sup)
                    IN [stage |-> "open", wsr |-> ucSess.wsr, gc |-> gc, env |-> export_fw_info(gc),
                        from |-> from, conf |-> ucConf, known |-> ucKnown, groups |-> groups]
               ELSE [stage |-> "refused"]
  /\ UNCHANGED <<ucUser, ucGroup, ucConf, ucKnown, ucEdits>>

\* the file that read_sup_config_file takes, for the history
FileUsed(dir, name, fallback) ==
  IF name \in DOMAIN dir /\ dir[name] # NoUcFile THEN dir[name] ELSE fallback

OpenByFiles(u, g) ==
  /\ ~ucConf.radius
  /\ OpenWith(FileConfig(u, g),
              <<IF g = NoUcGroup THEN NoUcFile ELSE FileUsed(ucGroup, g, ucConf.group_conf),
                FileUsed(ucUser, u, ucConf.user_conf)>>, 0)

OpenByRadius(attrs) ==
  /\ ucConf.radius
  /\ LET p == RadiusReply(attrs)
     IN OpenWith(IF p.ok THEN RadiusConfig(p) ELSE [EmptyConfig EXCEPT !.ok = FALSE], attrs, Len(p.groups))

\* the client connects and is told its configuration
UcConnect(mobile, no6) ==
  /\ ucSess.stage = "open"
  /\ ucSess' = [stage |-> "connected", wsr |-> ucSess.wsr, gc |-> ucSess.gc, env |-> ucSess.env,
                from |-> ucSess.from, conf |-> ucSess.conf, known |-> ucSess.known, groups |-> ucSess.groups,
                mobile |-> mobile, no6 |-> no6, told |-> connect_headers(ucSess.gc, ucSess.wsr, mobile, no6)]
  /\ UNCHANGED <<ucUser, ucGroup, ucConf, ucKnown, ucEdits>>

UcEnd ==
  /\ ucSess.stage \in {"refused", "connected"}
  /\ ucSess' = NoUcSess
  /\ UNCHANGED <<ucUser, ucGroup, ucConf, ucKnown, ucEdits>>

UcNext ==
  \/ \E u \in UcUsers, f \in UcFiles \cup {NoUcFile} : EditUserFile(u, f)
  \/ \E c \in UcConfs : ReloadConf(c)
  \/ UcFork
  \/ \E u \in UcUsers \cup {UnsafeName}, g \in UcGroups : OpenByFiles(u, g)
  \/ \E a \in UcReplies : OpenByRadius(a)
  \/ \E m, n \in BOOLEAN : UcConnect(m, n)
  \/ UcEnd

UcInit ==
  /\ ucUser \in [UcUsers -> UcFiles \cup {NoUcFile}]
  /\ ucGroup \in [UcGroups \ {NoUcGroup} -> UcFiles \cup {NoUcFile}]
  /\ \E c \in UcConfs : ucConf = HostConfig(c) /\ ucKnown = load_iroutes(c, ucUser)
  /\ ucSess = NoUcSess
  /\ ucEdits = 0

------------------------------- (* properties *) ----------------------------
InSession == ucSess.stage \in {"open", "connected"}

\* the option as the administrator wrote it: user, else group, else host
Written(o) ==
  LET g == ucSess.from[1]
      u == ucSess.from[2]
  IN IF u # NoUcFile /\ o \in DOMAIN u.opt THEN u.opt[o]
     ELSE IF g # NoUcFile /\ o \in DOMAIN g.opt THEN g.opt[o]
     ELSE ucSess.conf.opt[o]

\* The dead-peer interval and the session timeout a client is told are the
\* ones of its own file, else of its group's, else of the virtual host; a
\* zero somebody wrote counts as written, a zero of the RADIUS server not
\* (sup-config/file.c, sup-config/radius.c, apply_default_config).
MostSpecificWins ==
  ucSess.stage = "connected" =>
    IF ucSess.conf.radius
    THEN /\ ucSess.conf.opt["timeout"] > 0 => ucSess.told.timeout > 0
         /\ ucSess.told.dpd = ucSess.conf.opt[IF ucSess.mobile THEN "mobile-dpd" ELSE "dpd"]
    ELSE /\ ucSess.told.timeout = Written("timeout")
         /\ ucSess.told.dpd = Written(IF ucSess.mobile THEN "mobile-dpd" ELSE "dpd")

\* What a file writes, the whole of it.
FromFiles(l) == UNION {IF ucSess.from[i] = NoUcFile THEN {} ELSE ToSet(RoutesNormal(ucSess.from[i].lists[l])) : i \in {1, 2}}

\* The networks of the other clients, as of the last load, are all visible to
\* a client, and its own never are unless a route names them (append_routes).
OthersNetworksVisible ==
  InSession /\ ~ucSess.conf.radius =>
    LET own == ToSet(ucSess.gc.lists["iroutes"])
        pushed == ToSet(ucSess.gc.lists["routes"])
    IN /\ ToSet(ucSess.known) \ own \subseteq pushed
       /\ pushed \cap own \subseteq FromFiles("routes") \cup ToSet(ucSess.conf.lists["routes"])

\* Without append-routes the routes of the client's files replace the virtual
\* host's (doc/sample.config:828): no other route of the host is pushed.
RoutesReplaceHosts ==
  InSession /\ ~ucSess.conf.radius /\ ~ucSess.conf.append /\ FromFiles("routes") # {} =>
    ToSet(ucSess.gc.lists["routes"]) \subseteq FromFiles("routes") \cup ToSet(ucSess.known)

\* No session opens on a file that does not parse: its restrictions would be
\* missing (read_sup_config_file, get_sup_config).
MalformedRefused ==
  InSession /\ ~ucSess.conf.radius => \A i \in {1, 2} : ucSess.from[i] = NoUcFile \/ ucSess.from[i].ok

\* However a RADIUS server spreads groups over its attributes, the array of
\* MAX_GROUPS names is never overrun (parse_groupnames).
GroupsFit == InSession => ucSess.groups <= MaxGroups

\* The idle timeout written for a user or a group is the one the session has:
\* it is one of the options those files may hold (doc/sample.config:817-820).
IdleTimeoutApplies ==
  ucSess.stage = "connected" /\ ~ucSess.conf.radius =>
    ucSess.told.idle = Written(IF ucSess.mobile THEN "mobile-idle" ELSE "idle")

\* Without routes, or with the keyword 'default', the server is the client's
\* default gateway (doc/sample.config:724-726).
DefaultGatewayKept ==
  ucSess.stage = "connected" /\ ~ucSess.conf.radius
    /\ (IF FromFiles("routes") # {} THEN "default" \in FromFiles("routes") ELSE ucSess.conf.lists["routes"] = <<>>)
    => ucSess.told.include = <<>>

\* A negated list refuses the ports it names and no others
\* (doc/sample.config:769).
NegationBlocksThese ==
  InSession => \A q \in ucSess.env.deny :
    \E i \in DOMAIN ucSess.gc.lists["ports"] : ucSess.gc.lists["ports"][i] = [port |-> q, negate |-> TRUE]

\* A session gets the configuration written for its user, else for its group, else for its
\* host; lists are replaced or joined as documented, and a broken file refuses the session
\* (get_sup_config, apply_default_config, append_routes).
UserGetsOwn ==
  MostSpecificWins /\ OthersNetworksVisible /\ RoutesReplaceHosts /\ MalformedRefused /\ GroupsFit
=============================================================================
