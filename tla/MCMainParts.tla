---------------------------- MODULE MCMainParts ----------------------------
(***************************************************************************)
(* Parts of the main process and of the tools beside it, each in a small   *)
(* instance: the lookup tables of procs, the hash table, address leases,   *)
(* devices and scripts, the configuration, the configuration of a user,    *)
(* the statistics, the control socket, a sequence of requests to sec-mod,  *)
(* and the password file with the tool that changes it. The parts share no *)
(* state: "unit" is the part that runs, and the others stay in an initial  *)
(* state.                                                                  *)
(***************************************************************************)
EXTENDS ProcTable, HTable, IpLease, UserDevice, Config, UserConfig,
        ServerStats, Control, SecModLink, Passwd

VARIABLE unit   \* the part that runs

Hashes == <<2, 6, 3, 5>>

Hash4Of == [a \in 0..7 |-> (3 * a + 6) % 8]
Hash6Of == [a \in 0..3 |-> (a + 3) % 4]

OneCookie == [p \in UdProcs |-> "k"]
DeviceConfs ==
  {[script |-> TRUE, restrict |-> TRUE, utmp |-> FALSE, iroutes |-> <<>>, prefix |-> 64],
   [script |-> FALSE, restrict |-> FALSE, utmp |-> FALSE, iroutes |-> <<"r1", "r2">>, prefix |-> 128]}

CfLine(s, o, x) == [sec |-> s, opt |-> o, val |-> x]
CfBase == <<CfLine("", "port", 1), CfLine("", "occtl", 1), CfLine("", "cert", 1), CfLine("", "auth", "plain"),
            CfLine("", "network", 1), CfLine("", "device", 1)>>
CfDefault == {<<>>, <<CfLine("", "dpd", 3), CfLine("", "route", 1)>>, <<CfLine("", "port", 2), CfLine("", "eauth", "pam")>>,
              <<CfLine("", "eauth", "oidc"), CfLine("", "route", 0)>>}
CfNamed == {<<>>, <<CfLine("v", "dpd", 5), CfLine("v", "route", 2)>>,
            <<CfLine("v", "cert", 2), CfLine("v", "auth", "certificate"), CfLine("v", "auth", "pam")>>,
            <<CfLine("v", "dpd", 4), CfLine("v", "port", 2)>>}
CfFiles == {CfBase \o d \o n : d \in CfDefault, n \in CfNamed}

UcLists(r, n, d, i, p) == [routes |-> r, no_routes |-> n, dns |-> d, iroutes |-> i, ports |-> p]
UcFile(o, r, i, p, ok) == [opt |-> o, lists |-> UcLists(r, <<>>, <<>>, i, p), ok |-> ok]
UcPort(q, n) == [port |-> q, negate |-> n]
UcFileSet ==
  {UcFile(("dpd" :> 0) @@ ("idle" :> 7), <<>>, <<"n1">>, <<>>, TRUE),
   UcFile(("timeout" :> 5) @@ ("mobile-dpd" :> 6), <<"r1", "n2">>, <<"n2">>, <<UcPort(80, TRUE)>>, TRUE),
   UcFile(("dpd" :> 3), <<"default">>, <<>>, <<UcPort(443, FALSE)>>, TRUE),
   UcFile(("dpd" :> 4), <<"0.0.0.0/0">>, <<>>, <<>>, FALSE)}
UcHost(r, a, e, rad) ==
  [opt |-> ("dpd" :> 1) @@ ("mobile-dpd" :> 2) @@ ("idle" :> 1) @@ ("mobile-idle" :> 2) @@ ("timeout" :> 9),
   lists |-> UcLists(r, <<"x1">>, <<"d1">>, <<>>, <<>>), append |-> a, expose |-> e, radius |-> rad,
   user_conf |-> NoUcFile, group_conf |-> UcFile(("dpd" :> 8), <<>>, <<>>, <<>>, TRUE)]
UcHosts == {UcHost(<<"h1", "r6">>, FALSE, TRUE, FALSE), UcHost(<<"default">>, FALSE, TRUE, FALSE),
            UcHost(<<"h1">>, TRUE, FALSE, FALSE), UcHost(<<"h1">>, FALSE, FALSE, TRUE)}
UcAttr(k, v) == [kind |-> k, val |-> v]
UcReplySet ==
  {<<UcAttr("service", TRUE), UcAttr("timeout", 0), UcAttr("group", <<"g1", "g2">>), UcAttr("group", <<"g3", "g4">>)>>,
   <<UcAttr("group", <<"g1">>), UcAttr("group", <<"g2">>), UcAttr("route", "r1"), UcAttr("dns6", "d1"),
     UcAttr("dns6", "d2"), UcAttr("dns6", "d3"), UcAttr("group", <<"g3">>), UcAttr("timeout", 4), UcAttr("group", <<"g4">>)>>,
   <<UcAttr("group", <<"g1">>), UcAttr("service", FALSE)>>}

CtUsers == [p \in CtWorkers |-> "u"]
CtSids == [p \in CtWorkers |-> IF p = "p1" THEN "a1" ELSE "a2"]
CtShorts == [s \in {"a1", "a2"} |-> "a"]
CtPair(a, b) == [c \in CtClients |-> IF c = "c1" THEN a ELSE b]
CtEvents == <<"show events", "">>
CtCommands ==
  {CtPair(CtEvents, b) : b \in {CtEvents, <<"disconnect user", "u">>, <<"stop", "">>}}
  \cup {CtPair(<<"terminate session", a>>, <<"terminate user", "u">>) : a \in {"a", "a1"}}
  \cup {CtPair(NoLine, b) : b \in {<<"terminate id", "p2">>, <<"disconnect id", "p2">>, <<"show users", "">>, <<"unban ip", "x">>, <<"reload", "">>,
          <<"show session", "a1">>, <<"show user", "u">>, <<"show id", "p2">>, <<"show status", "">>,
          <<"show ip bans", "">>}}

LkOwners == [s \in LkSids |-> "u1"]
LkHomes == [s \in LkSids |-> IF s = "s1" THEN 0 ELSE 1]

PwContents ==
  {<<PwLine("full", "u", "old", TRUE), PwLine("bare", "", "none", FALSE), PwLine("short", "v", "none", FALSE)>>}

Units == {"procs", "htable", "leases", "devices", "config", "userconf", "stats", "control", "linkseq", "passwd"}

BenchInit ==
  /\ unit \in Units
  /\ PtInit
  /\ HtInit
  /\ IpInit
  /\ IF unit = "devices" THEN UdInit ELSE udConf = (CHOOSE c \in UdConfs : TRUE) /\ UdInit
  /\ IF unit = "config" THEN CfInit ELSE cfFile = CfBase /\ CfInit
  /\ IF unit = "userconf" THEN UcInit ELSE ucUser = [u \in UcUsers |-> NoUcFile] /\ ucGroup = [g \in UcGroups \ {NoUcGroup} |-> NoUcFile]
             /\ ucConf = HostConfig(CHOOSE c \in UcConfs : TRUE) /\ UcInit
  /\ SsInit
  /\ IF unit = "control" THEN CtInit ELSE ctClient = Started(CHOOSE r \in CtRuns : TRUE) /\ CtInit
  /\ LkInit
  /\ IF unit = "passwd" THEN PwInit ELSE pwInodes = <<<<>>>> /\ PwInit

BenchNext ==
  \/ unit = "procs" /\ PtNext /\ UNCHANGED <<unit, htvars, ipvars, udvars,
       cfvars, ucvars, ssvars, ctvars, lkvars, pwvars>>
  \/ unit = "htable" /\ HtNext /\ UNCHANGED <<unit, ptvars, ipvars, udvars,
       cfvars, ucvars, ssvars, ctvars, lkvars, pwvars>>
  \/ unit = "leases" /\ IpNext /\ UNCHANGED <<unit, ptvars, htvars, udvars,
       cfvars, ucvars, ssvars, ctvars, lkvars, pwvars>>
  \/ unit = "devices" /\ UdNext /\ UNCHANGED <<unit, ptvars, htvars, ipvars,
       cfvars, ucvars, ssvars, ctvars, lkvars, pwvars>>
  \/ unit = "config" /\ CfNext /\ UNCHANGED <<unit, ptvars, htvars, ipvars,
       udvars, ucvars, ssvars, ctvars, lkvars, pwvars>>
  \/ unit = "userconf" /\ UcNext /\ UNCHANGED <<unit, ptvars, htvars,
       ipvars, udvars, cfvars, ssvars, ctvars, lkvars, pwvars>>
  \/ unit = "stats" /\ SsNext /\ UNCHANGED <<unit, ptvars, htvars, ipvars,
       udvars, cfvars, ucvars, ctvars, lkvars, pwvars>>
  \/ unit = "control" /\ CtNext /\ UNCHANGED <<unit, ptvars, htvars, ipvars,
       udvars, cfvars, ucvars, ssvars, lkvars, pwvars>>
  \/ unit = "linkseq" /\ LkNext /\ UNCHANGED <<unit, ptvars, htvars, ipvars,
       udvars, cfvars, ucvars, ssvars, ctvars, pwvars>>
  \/ unit = "passwd" /\ PwNext /\ UNCHANGED <<unit, ptvars, htvars, ipvars,
       udvars, cfvars, ucvars, ssvars, ctvars, lkvars>>

benchvars == <<unit, ptvars, htvars, ipvars, udvars, cfvars, ucvars, ssvars, ctvars, lkvars, pwvars>>

BenchSpec == BenchInit /\ [][BenchNext]_benchvars
=============================================================================
