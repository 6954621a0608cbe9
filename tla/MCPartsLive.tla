---------------------------- MODULE MCPartsLive ----------------------------
(***************************************************************************)
(* Other parts that must make progress, each in a small instance: the ban  *)
(* list, the TLS session cache, the certificate files, the MTU of a        *)
(* connection and occtl. The parts share no state: "unit" is the part that *)
(* runs, and the others stay in an initial state.                          *)
(***************************************************************************)
EXTENDS BanList, TlsCache, TlsFiles, Connect, Control

VARIABLE unit   \* the part that runs

CtUsers == [p \in CtWorkers |-> "u"]
CtSids == [p \in CtWorkers |-> "a1"]
CtShorts == [s \in {"a1"} |-> "a"]
CtCommands ==
  {[c \in CtClients |-> IF c = "c1" THEN <<"show events", "">> ELSE b] :
     b \in {<<"show events", "">>, <<"terminate session", "a1">>, <<"stop", "">>}}

Units == {"ban", "tlsdb", "files", "mtu", "occtl"}

BenchInit ==
  /\ unit \in Units
  /\ Init
  /\ TcInit
  /\ TfInit
  /\ IF unit = "mtu" THEN CnInit ELSE path = (CHOOSE p \in PathMtus : TRUE) /\ CnInit
  /\ IF unit = "occtl" THEN CtInit ELSE ctClient = Started(CHOOSE r \in CtRuns : TRUE) /\ CtInit

BenchNext ==
  \/ unit = "ban" /\ Next /\ UNCHANGED <<unit, tcvars, tfvars, cnvars,
       ctvars>>
  \/ unit = "tlsdb" /\ TcNext /\ UNCHANGED <<unit, vars, tfvars, cnvars,
       ctvars>>
  \/ unit = "files" /\ TfNext /\ UNCHANGED <<unit, vars, tcvars, cnvars,
       ctvars>>
  \/ unit = "mtu" /\ CnNext /\ UNCHANGED <<unit, vars, tcvars, tfvars,
       ctvars>>
  \/ unit = "occtl" /\ CtNext /\ UNCHANGED <<unit, vars, tcvars, tfvars,
       cnvars>>

benchvars == <<unit, vars, tcvars, tfvars, cnvars, ctvars>>

\* The fairness of each part, as its module explains it, while it is the one
\* that runs.
BenchFair ==
  /\ WF_vars(unit = "ban" /\ Tick)
  /\ WF_tcvars(unit = "tlsdb" /\ expire_tls_sessions)
  /\ WF_tfvars(unit = "files" /\ TfReloadMain) /\ WF_tfvars(unit = "files" /\ TfMaintenance)
  /\ WF_cnvars(unit = "mtu" /\ FullPacket)
  /\ \A k \in CtSlots : WF_ctvars(unit = "occtl" /\ ctl_serve(k))
  /\ WF_ctvars(unit = "occtl" /\ Unblocked) /\ WF_ctvars(unit = "occtl" /\ StopSignal)
  /\ \A c \in CtClients : WF_ctvars(unit = "occtl" /\ OcctlStep(c))

BenchSpec == BenchInit /\ [][BenchNext]_benchvars /\ BenchFair
=============================================================================
