----------------------------- MODULE MCMainLive -----------------------------
(***************************************************************************)
(* The loop of main and its link to sec-mod, which must make progress,     *)
(* each in a small instance. The parts share no state: "unit" is the part  *)
(* that runs, and the others stay in an initial state.                     *)
(***************************************************************************)
EXTENDS MainLoop, SecModLink

VARIABLE unit   \* the part that runs

FileLimits == <<2, 0, 0>>
FileDrains == <<TRUE, FALSE, TRUE>>

LkOwners == [s \in LkSids |-> "u1"]
LkHomes == [s \in LkSids |-> 0]

Units == {"loop", "link"}

BenchInit ==
  /\ unit \in Units
  /\ MlInit
  /\ LkInit

BenchNext ==
  \/ unit = "loop" /\ MlNext /\ UNCHANGED <<unit, lkvars>>
  \/ unit = "link" /\ LkNext /\ UNCHANGED <<unit, mlvars>>

benchvars == <<unit, mlvars, lkvars>>

\* The fairness of each part, as its module explains it, while it is the one
\* that runs.
BenchFair ==
  /\ WF_mlvars(unit = "loop" /\ (ReloadParse \/ ReloadSnapshot))
  /\ WF_mlvars(unit = "loop" /\ Maintenance({}))
  /\ \A l \in Listeners : WF_mlvars(unit = "loop" /\ ResumeAccept(l))
  /\ \A i \in Instances : WF_mlvars(unit = "loop" /\ SecModReaped(i))
  /\ WF_mlvars(unit = "loop" /\ TermSignal) /\ WF_mlvars(unit = "loop" /\ DrainEnds)
  /\ \A i \in Reporters : WF_lkvars(unit = "link" /\ LkSent(i)) /\ WF_lkvars(unit = "link" /\ LkRead(i))
  /\ WF_lkvars(unit = "link" /\ (LkReceive \/ LkTimeout))

BenchSpec == BenchInit /\ [][BenchNext]_benchvars /\ BenchFair
=============================================================================
