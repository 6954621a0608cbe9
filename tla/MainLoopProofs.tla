--------------------------- MODULE MainLoopProofs ---------------------------
(***************************************************************************)
(* Main's event loop, for any listeners, procs, sec-mod processes, limits  *)
(* and any number of reloads (MainLoop).                                   *)
(***************************************************************************)
EXTENDS MainLoop, FiniteSetTheorems, TLAPS

MlProc == [st : {"NONE", "NEW", "PENDING", "OPEN", "FAILED"},
           inst : Instances \cup {MlNone}, gen : 0..MaxGen, ver : Versions \cup {0}]
MlListener == [open : BOOLEAN, io : BOOLEAN, timer : BOOLEAN]

UsersOf(g) == {p \in Procs : proc[p].gen = g}

-----------------------------------------------------------------------------
(* Configuration objects.  ConfigInUseKept alone is not inductive: a new    *)
(* session counts the object gen, which must be the current one, and the    *)
(* procs without a session must not be counted anywhere.                    *)

ObjTypes ==
  /\ proc \in [Procs -> MlProc] /\ gen \in Gens
  /\ cfg \in [Gens -> {"NONE", "CURRENT", "ATTIC", "FREED"}] /\ use \in [Gens -> Nat]
  /\ snap \in Versions

ObjInv ==
  /\ ObjTypes /\ ConfigInUseKept
  /\ cfg[gen] = "CURRENT"
  /\ \A p \in Procs : proc[p].st \in {"NONE", "NEW"} => proc[p].gen = 0

\* A proc without a session has its type and no object.
LEMMA FreshProcs ==
  ASSUME snap \in Versions
  PROVE  /\ NoProc \in MlProc /\ NoProc.st = "NONE" /\ NoProc.gen = 0
         /\ NewProc \in MlProc /\ NewProc.st = "NEW" /\ NewProc.gen = 0 /\ NewProc.ver = snap
<1>1. 0 \in 0..MaxGen
  BY LoopAssumption DEF LoopAssumption
<1>2. NoProc \in MlProc /\ NoProc.st = "NONE" /\ NoProc.gen = 0
  <2>1. NoProc \in MlProc
    BY <1>1, Zenon DEF NoProc, MlProc
  <2> QED
    BY <2>1 DEF NoProc
<1>3. NewProc \in MlProc /\ NewProc.st = "NEW" /\ NewProc.gen = 0 /\ NewProc.ver = snap
  <2> HIDE DEF NoProc
  <2> QED
    BY <1>2 DEF NewProc, MlProc
<1> QED
  BY <1>2, <1>3

\* The users of an object are finitely many.
LEMMA UsersFinite == \A g : IsFiniteSet(UsersOf(g)) /\ Cardinality(UsersOf(g)) \in Nat
                              /\ Cardinality(UsersOf(g)) <= Cardinality(Procs)
BY LoopAssumption, FS_Subset, FS_CardinalityType DEF LoopAssumption, UsersOf

\* The steps that give no proc an object and take none away.
LEMMA SameUsers ==
  ASSUME ObjInv, proc' \in [Procs -> MlProc], \A p \in Procs : proc'[p].gen = proc[p].gen,
         \A p \in Procs : proc'[p].st \in {"NONE", "NEW"} => proc'[p].gen = 0,
         UNCHANGED <<gen, cfg, use, snap>>
  PROVE  ObjInv'
<1>1. \A g \in Gens : {p \in Procs : proc'[p].gen = g} = {p \in Procs : proc[p].gen = g}
  OBVIOUS
<1> QED
  BY <1>1 DEF ObjInv, ObjTypes, ConfigInUseKept

\* handle_auth_cookie_req counts the object it gives to the session.
LEMMA OpenKeepsObjects ==
  ASSUME ObjInv, NEW p \in Procs, NEW i \in Instances, NEW counted \in BOOLEAN,
         NEW st \in {"FAILED", "PENDING", "OPEN"}, SessionOpen(p, i, counted, st)
  PROVE  ObjInv'
<1> DEFINE n == IF counted THEN gen ELSE 0
<1>1. /\ proc \in [Procs -> MlProc] /\ gen \in Gens /\ use \in [Gens -> Nat] /\ proc[p].gen = 0
      /\ UNCHANGED <<gen, cfg, snap>>
  BY DEF ObjInv, ObjTypes, SessionOpen
<1>2. n \in 0..MaxGen /\ MaxGen \in Nat /\ Gens = 1..MaxGen
  BY <1>1, LoopAssumption DEF LoopAssumption, Gens
<1>3. proc' = [proc EXCEPT ![p] = [proc[p] EXCEPT !.st = st, !.inst = i, !.gen = n]]
  BY <1>1 DEF SessionOpen
<1> HIDE DEF n
<1>4. /\ proc' \in [Procs -> MlProc] /\ proc'[p].gen = n /\ proc'[p].st = st
      /\ \A q \in Procs : q # p => proc'[q] = proc[q]
  BY <1>1, <1>2, <1>3, ZenonT(60) DEF MlProc
<1>5. \A q \in Procs : proc'[q].st \in {"NONE", "NEW"} => proc'[q].gen = 0
  BY <1>4 DEF ObjInv
<1>6. CASE ~counted
  <2>1. \A q \in Procs : proc'[q].gen = proc[q].gen
    BY <1>1, <1>4, <1>6 DEF n
  <2> QED
    BY <1>1, <1>4, <1>5, <1>6, <2>1, SameUsers DEF SessionOpen
<1>7. CASE counted
  <2>1. n = gen /\ use' = [use EXCEPT ![gen] = @ + 1]
    BY <1>7 DEF n, SessionOpen
  <2>2. \A g \in Gens : g # gen => {q \in Procs : proc'[q].gen = g} = UsersOf(g)
    <3>1. \A g \in Gens : g # gen => \A q \in Procs : proc'[q].gen = g <=> proc[q].gen = g
      BY <1>1, <1>2, <1>4, <2>1
    <3> QED
      BY <3>1 DEF UsersOf
  <2>3. {q \in Procs : proc'[q].gen = gen} = UsersOf(gen) \cup {p} /\ p \notin UsersOf(gen)
    BY <1>1, <1>2, <1>4, <2>1 DEF UsersOf
  <2>4. Cardinality({q \in Procs : proc'[q].gen = gen}) = Cardinality(UsersOf(gen)) + 1
    BY <2>3, UsersFinite, FS_AddElement
  <2>5. \A g \in Gens : use[g] = Cardinality(UsersOf(g))
    BY DEF ObjInv, ConfigInUseKept, UsersOf
  <2>6. \A g \in Gens : use'[g] = Cardinality({q \in Procs : proc'[q].gen = g})
    BY <1>1, <2>1, <2>2, <2>4, <2>5
  <2>7. \A q \in Procs : proc'[q].gen # 0 => cfg[proc'[q].gen] \in {"CURRENT", "ATTIC"}
    BY <1>4, <2>1 DEF ObjInv, ConfigInUseKept
  <2>8. use' \in [Gens -> Nat]
    BY <1>1, <2>1
  <2> QED
    BY <1>1, <1>4, <1>5, <2>6, <2>7, <2>8 DEF ObjInv, ObjTypes, ConfigInUseKept
<1> QED
  BY <1>6, <1>7

\* remove_proc gives back the object of every proc that goes.
LEMMA RemovedGiveBack ==
  ASSUME ObjInv, NEW P \in SUBSET Procs,
         proc' = [p \in Procs |-> IF p \in P THEN NoProc ELSE proc[p]], use' = Released(P)
  PROVE  /\ proc' \in [Procs -> MlProc] /\ use' \in [Gens -> Nat]
         /\ \A p \in Procs : /\ proc'[p].st \in {"NONE", "NEW"} => proc'[p].gen = 0
                             /\ proc'[p].gen # 0 => proc'[p].gen = proc[p].gen
         /\ \A g \in Gens : use'[g] = Cardinality({p \in Procs : proc'[p].gen = g})
<1>1. proc \in [Procs -> MlProc] /\ use \in [Gens -> Nat] /\ snap \in Versions
  BY DEF ObjInv, ObjTypes
<1>2. /\ proc' \in [Procs -> MlProc]
      /\ \A p \in Procs : proc'[p] = IF p \in P THEN NoProc ELSE proc[p]
  BY <1>1, FreshProcs
<1>3. NoProc.gen = 0 /\ NoProc.st = "NONE"
  BY <1>1, FreshProcs
<1>4. ASSUME NEW g \in Gens
      PROVE  use'[g] = Cardinality({p \in Procs : proc'[p].gen = g}) /\ use'[g] \in Nat
  <2>1. g # 0
    BY LoopAssumption DEF LoopAssumption, Gens
  <2>2. {p \in Procs : proc'[p].gen = g} = UsersOf(g) \ P
    BY <1>2, <1>3, <2>1 DEF UsersOf
  <2>3. {p \in P : proc[p].gen = g} = UsersOf(g) \cap P
    BY DEF UsersOf
  <2>4. use[g] = Cardinality(UsersOf(g))
    BY DEF ObjInv, ConfigInUseKept, UsersOf
  <2>5. use'[g] = Cardinality(UsersOf(g)) - Cardinality(UsersOf(g) \cap P)
    BY <2>3, <2>4 DEF Released
  <2>6. IsFiniteSet(UsersOf(g) \ P) /\ Cardinality(UsersOf(g) \ P) = use'[g]
    BY <2>5, UsersFinite, FS_Difference
  <2>7. Cardinality(UsersOf(g) \ P) \in Nat
    BY <2>6, FS_CardinalityType
  <2> QED
    BY <2>2, <2>6, <2>7
<1>5. use' \in [Gens -> Nat]
  BY <1>4 DEF Released
<1>6. \A p \in Procs : /\ proc'[p].st \in {"NONE", "NEW"} => proc'[p].gen = 0
                       /\ proc'[p].gen # 0 => proc'[p].gen = proc[p].gen
  BY <1>2, <1>3 DEF ObjInv
<1> QED
  BY <1>2, <1>4, <1>5, <1>6

\* Removing procs, with or without the cleaning of the attic that maintenance does.
LEMMA RemovalKeepsObjects ==
  ASSUME ObjInv, NEW P \in SUBSET Procs,
         proc' = [p \in Procs |-> IF p \in P THEN NoProc ELSE proc[p]], use' = Released(P),
         cfg' = cfg \/ cfg' = clear_old_configs, UNCHANGED <<gen, snap>>
  PROVE  ObjInv'
<1>1. /\ proc' \in [Procs -> MlProc] /\ use' \in [Gens -> Nat]
      /\ \A p \in Procs : /\ proc'[p].st \in {"NONE", "NEW"} => proc'[p].gen = 0
                          /\ proc'[p].gen # 0 => proc'[p].gen = proc[p].gen
      /\ \A g \in Gens : use'[g] = Cardinality({p \in Procs : proc'[p].gen = g})
  BY RemovedGiveBack
<1>2. \A g \in Gens : cfg'[g] = cfg[g] \/ (cfg[g] = "ATTIC" /\ use[g] = 0 /\ cfg'[g] = "FREED")
  BY DEF clear_old_configs
<1>3. cfg' \in [Gens -> {"NONE", "CURRENT", "ATTIC", "FREED"}]
  BY DEF clear_old_configs, ObjInv, ObjTypes
<1>4. cfg'[gen'] = "CURRENT"
  BY <1>2 DEF ObjInv, ObjTypes
<1>5. ASSUME NEW p \in Procs, proc'[p].gen # 0
      PROVE  cfg'[proc'[p].gen] \in {"CURRENT", "ATTIC"}
  <2> DEFINE g == proc[p].gen
  <2>1. g = proc'[p].gen /\ g # 0 /\ g \in 0..MaxGen
    BY <1>1, <1>5 DEF ObjInv, ObjTypes, MlProc
  <2>2. g \in Gens /\ cfg[g] \in {"CURRENT", "ATTIC"}
    BY <2>1, LoopAssumption DEF LoopAssumption, Gens, ObjInv, ConfigInUseKept
  <2>3. p \in UsersOf(g) /\ use[g] = Cardinality(UsersOf(g))
    BY <2>2 DEF UsersOf, ObjInv, ConfigInUseKept
  <2>4. use[g] # 0
    BY <2>3, UsersFinite, FS_EmptySet
  <2> QED
    BY <1>2, <2>1, <2>2, <2>4
<1> QED
  BY <1>1, <1>3, <1>4, <1>5 DEF ObjInv, ObjTypes, ConfigInUseKept

\* archive_cfg frees the old object only if nobody uses it.
LEMMA ReloadKeepsObjects == ASSUME ObjInv, ReloadBegin PROVE ObjInv'
<1>1. /\ gen \in Gens /\ gen' = gen + 1 /\ cfg' = archive_cfg /\ UNCHANGED <<proc, use, snap>>
      /\ cfg \in [Gens -> {"NONE", "CURRENT", "ATTIC", "FREED"}] /\ gen < MaxGen
  BY DEF ObjInv, ObjTypes, ReloadBegin
<1>2. gen' \in Gens /\ gen' # gen
  BY <1>1, LoopAssumption DEF LoopAssumption, Gens
<1>3. /\ cfg' \in [Gens -> {"NONE", "CURRENT", "ATTIC", "FREED"}]
      /\ cfg'[gen'] = "CURRENT" /\ cfg'[gen] = (IF use[gen] = 0 THEN "FREED" ELSE "ATTIC")
      /\ \A g \in Gens : g # gen /\ g # gen' => cfg'[g] = cfg[g]
  BY <1>1, <1>2 DEF archive_cfg
<1>4. ASSUME NEW p \in Procs, proc[p].gen # 0
      PROVE  cfg'[proc[p].gen] \in {"CURRENT", "ATTIC"}
  <2> DEFINE g == proc[p].gen
  <2>1. g \in Gens /\ cfg[g] \in {"CURRENT", "ATTIC"}
    BY <1>4, LoopAssumption DEF LoopAssumption, Gens, ObjInv, ObjTypes, MlProc, ConfigInUseKept
  <2>2. p \in UsersOf(g) /\ use[g] = Cardinality(UsersOf(g))
    BY <2>1 DEF UsersOf, ObjInv, ConfigInUseKept
  <2>3. use[g] # 0
    BY <2>2, UsersFinite, FS_EmptySet
  <2> QED
    BY <1>3, <2>1, <2>3
<1> QED
  BY <1>1, <1>2, <1>3, <1>4 DEF ObjInv, ObjTypes, ConfigInUseKept

\* Every other step leaves the objects and their users alone.
LEMMA FrameObjects ==
  ASSUME ObjInv, UNCHANGED <<proc, gen, cfg, use>>, snap' \in Versions
  PROVE  ObjInv'
BY DEF ObjInv, ObjTypes, ConfigInUseKept

\* A step of main's loop keeps ObjInv.
LEMMA ObjStep == ASSUME ObjInv, file \in Versions, [MlNext]_mlvars PROVE ObjInv'
<1>0. snap \in Versions
  BY DEF ObjInv, ObjTypes
<1>1. CASE UNCHANGED <<proc, gen, cfg, use>> /\ snap' \in Versions
  BY <1>1, FrameObjects
<1>2. ASSUME NEW l \in Tcp, NEW p \in Procs, NEW forked \in BOOLEAN, Accept(l, p, forked)
      PROVE  ObjInv'
  <2> DEFINE q == IF forked THEN NewProc ELSE proc[p]
  <2>1. proc \in [Procs -> MlProc] /\ proc[p].gen = 0 /\ UNCHANGED <<gen, cfg, use, snap>>
    BY <1>2 DEF ObjInv, ObjTypes, Accept
  <2>2. q \in MlProc /\ q.gen = 0
    BY <1>0, <2>1, FreshProcs
  <2>3. proc' = [proc EXCEPT ![p] = q]
    BY <1>2, <2>1 DEF Accept
  <2> HIDE DEF q
  <2>4. /\ proc' \in [Procs -> MlProc] /\ proc'[p] = q
        /\ \A r \in Procs : r # p => proc'[r] = proc[r]
    BY <2>1, <2>2, <2>3
  <2>5. \A r \in Procs : proc'[r].gen = proc[r].gen
    BY <2>1, <2>2, <2>4
  <2>6. \A r \in Procs : proc'[r].st \in {"NONE", "NEW"} => proc'[r].gen = 0
    BY <2>2, <2>4 DEF ObjInv
  <2> QED
    BY <2>1, <2>4, <2>5, <2>6, SameUsers
<1>3. ASSUME NEW p \in Procs, ScriptDone(p)
      PROVE  ObjInv'
  <2>1. /\ proc \in [Procs -> MlProc] /\ UNCHANGED <<gen, cfg, use, snap>>
        /\ proc' = [proc EXCEPT ![p] = [proc[p] EXCEPT !.st = "OPEN"]]
    BY <1>3 DEF ObjInv, ObjTypes, ScriptDone
  <2>2. /\ proc' \in [Procs -> MlProc] /\ proc'[p].st = "OPEN" /\ proc'[p].gen = proc[p].gen
        /\ \A r \in Procs : r # p => proc'[r] = proc[r]
    BY <2>1 DEF MlProc
  <2>3. \A r \in Procs : proc'[r].gen = proc[r].gen
    BY <2>2
  <2>4. \A r \in Procs : proc'[r].st \in {"NONE", "NEW"} => proc'[r].gen = 0
    BY <2>2 DEF ObjInv
  <2> QED
    BY <2>1, <2>2, <2>3, <2>4, SameUsers
<1>4. ASSUME NEW p \in Procs, RemoveProc(p)
      PROVE  ObjInv'
  BY <1>4, RemovalKeepsObjects DEF RemoveProc, remove_procs
<1>5. ASSUME NEW L \in SUBSET Procs, Maintenance(L)
      PROVE  ObjInv'
  BY <1>5, RemovalKeepsObjects DEF Maintenance, remove_procs
<1>6. ASSUME terminate_server
      PROVE  ObjInv'
  <2>1. proc' = [p \in Procs |-> IF p \in Procs THEN NoProc ELSE proc[p]]
    BY <1>6 DEF terminate_server
  <2> QED
    BY <1>6, <2>1, RemovalKeepsObjects DEF terminate_server
<1>7. CASE Loop
  <2>1. CASE \E l \in Listeners : UdpPacket(l) \/ StrayTimer(l)
    BY <1>0, <1>1, <2>1 DEF UdpPacket, StrayTimer
  <2>2. CASE \E l \in Tcp, p \in Procs, forked \in BOOLEAN : Accept(l, p, forked)
    BY <1>2, <2>2
  <2>3. CASE \E p \in Procs, i \in Instances, counted \in BOOLEAN :
               \E st \in {"FAILED", "PENDING", "OPEN"} : SessionOpen(p, i, counted, st)
    BY <2>3, OpenKeepsObjects
  <2>4. CASE \E p \in Procs : ScriptDone(p) \/ RemoveProc(p)
    BY <1>3, <1>4, <2>4
  <2> QED
    BY <1>7, <2>1, <2>2, <2>3, <2>4 DEF Loop
<1>8. CASE \/ \E bound \in SUBSET Listeners : Startup(bound)
           \/ \E l \in Listeners : ResumeAccept(l)
           \/ \E v \in Versions : Edit(v)
           \/ ReloadParse \/ ReloadSnapshot \/ Signal
           \/ \E i \in Instances : SecModDies(i) \/ SecModReaped(i)
  BY <1>0, <1>1, <1>8 DEF Startup, ResumeAccept, Edit, ReloadParse, ReloadSnapshot, Signal,
     SecModDies, SecModReaped
<1>9. CASE TermSignal \/ DrainEnds
  BY <1>0, <1>1, <1>6, <1>9 DEF TermSignal, DrainEnds
<1>10. CASE UNCHANGED mlvars
  BY <1>0, <1>1, <1>10 DEF mlvars
<1> QED
  BY <1>5, <1>7, <1>8, <1>9, <1>10, ReloadKeepsObjects DEF MlNext

-----------------------------------------------------------------------------
(* Listeners: only a closed one may have a stray timer.                     *)

ListenInv == lst \in [Listeners -> MlListener] /\ PausedHasTimer

\* A step of main's loop keeps ListenInv.
LEMMA ListenStep == ASSUME ListenInv, [MlNext]_mlvars PROVE ListenInv'
<1>1. ASSUME NEW l \in Listeners, NEW x \in {Paused, Listening, Closed},
             lst' = [lst EXCEPT ![l] = x]
      PROVE  ListenInv'
  <2>1. x \in MlListener /\ (x.open => (x.io <=> ~x.timer))
    <3>1. Paused \in MlListener /\ Listening \in MlListener /\ Closed \in MlListener
      BY DEF Paused, Listening, Closed, MlListener
    <3>2. \/ x.open = TRUE /\ x.io = FALSE /\ x.timer = TRUE
          \/ x.open = TRUE /\ x.io = TRUE /\ x.timer = FALSE
          \/ x.open = FALSE
      BY DEF Paused, Listening, Closed
    <3> QED
      BY <3>1, <3>2
  <2> QED
    BY <1>1, <2>1 DEF ListenInv, PausedHasTimer
<1>2. ASSUME UNCHANGED lst
      PROVE  ListenInv'
  BY <1>2 DEF ListenInv, PausedHasTimer
<1>3. ASSUME NEW l \in Listeners, NEW n, PauseAccept(l, n)
      PROVE  ListenInv'
  BY <1>1, <1>2, <1>3 DEF PauseAccept
<1>4. ASSUME NEW bound \in SUBSET Listeners, Startup(bound)
      PROVE  ListenInv'
  <2>1. CASE UNCHANGED lst
    BY <1>2, <2>1
  <2>2. CASE lst' = [l \in Listeners |-> IF l \in bound THEN Listening ELSE Closed]
    <3>1. \A l \in Listeners : lst'[l] = Listening \/ lst'[l] = Closed
      BY <2>2
    <3>2. Listening \in MlListener /\ Closed \in MlListener
      BY DEF Listening, Closed, MlListener
    <3>3. lst' \in [Listeners -> MlListener]
      BY <2>2, <3>2
    <3> QED
      BY <3>1, <3>3 DEF ListenInv, PausedHasTimer, Listening, Closed
  <2> QED
    BY <1>4, <2>1, <2>2 DEF Startup
<1>5. CASE Loop
  <2>1. ASSUME NEW l \in Listeners, UdpPacket(l) \/ StrayTimer(l)
        PROVE  ListenInv'
    BY <1>1, <1>2, <1>3, <2>1 DEF UdpPacket, StrayTimer
  <2>2. ASSUME NEW l \in Tcp, NEW p \in Procs, NEW forked \in BOOLEAN, Accept(l, p, forked)
        PROVE  ListenInv'
    BY <1>3, <2>2 DEF Accept, Listeners
  <2>3. ASSUME NEW p \in Procs, NEW i \in Instances, NEW counted \in BOOLEAN,
               NEW st \in {"FAILED", "PENDING", "OPEN"}, SessionOpen(p, i, counted, st)
        PROVE  ListenInv'
    BY <1>2, <2>3 DEF SessionOpen
  <2>4. ASSUME NEW p \in Procs, ScriptDone(p) \/ RemoveProc(p)
        PROVE  ListenInv'
    BY <1>2, <2>4 DEF ScriptDone, RemoveProc
  <2> QED
    BY <1>5, <2>1, <2>2, <2>3, <2>4 DEF Loop
<1>6. ASSUME NEW l \in Listeners, ResumeAccept(l)
      PROVE  ListenInv'
  BY <1>1, <1>6 DEF ResumeAccept
<1>7. CASE TermSignal
  <2>1. CASE lst' = [l \in Listeners |-> [Closed EXCEPT !.timer = lst[l].timer]]
    <3>1. ASSUME NEW l \in Listeners
          PROVE  lst'[l] \in MlListener /\ lst'[l].open = FALSE
      <4>1. lst[l].timer \in BOOLEAN
        BY DEF ListenInv, MlListener
      <4>2. lst'[l] = [open |-> FALSE, io |-> FALSE, timer |-> lst[l].timer]
        BY <2>1, Zenon DEF Closed
      <4> QED
        BY <4>1, <4>2 DEF MlListener
    <3> QED
      BY <2>1, <3>1 DEF ListenInv, PausedHasTimer
  <2> QED
    BY <1>2, <1>7, <2>1 DEF TermSignal, terminate_server
<1>8. CASE \/ \E v \in Versions : Edit(v)
           \/ ReloadBegin \/ ReloadParse \/ ReloadSnapshot
           \/ \E L \in SUBSET Procs : Maintenance(L)
           \/ \E i \in Instances : SecModDies(i) \/ SecModReaped(i)
           \/ Signal \/ DrainEnds
  BY <1>2, <1>8 DEF Edit, ReloadBegin, ReloadParse, ReloadSnapshot, Maintenance, SecModDies,
     SecModReaped, Signal, DrainEnds, terminate_server
<1>9. CASE UNCHANGED mlvars
  BY <1>2, <1>9 DEF mlvars
<1> QED
  BY <1>4, <1>5, <1>6, <1>7, <1>8, <1>9 DEF MlNext

-----------------------------------------------------------------------------
(* Versions of the file.  Only between parsing and copying may main's      *)
(* configuration be newer than the snapshot.                                *)

VersionInv ==
  /\ ver \in Versions /\ snap \in Versions /\ file \in Versions
  /\ ver <= file
  /\ busy # "snap" => ver <= snap

\* A step of main's loop keeps VersionInv.
LEMMA VersionStep == ASSUME VersionInv, [MlNext]_mlvars PROVE VersionInv'
<1>0. \A v \in Versions : v \in Nat
  BY LoopAssumption DEF LoopAssumption, Versions
<1>1. CASE UNCHANGED <<ver, snap, file, busy>>
  BY <1>1 DEF VersionInv
<1>2. CASE Loop
  <2>1. UNCHANGED <<ver, snap, file, busy>>
    BY <1>2 DEF Loop, UdpPacket, StrayTimer, Accept, SessionOpen, ScriptDone, RemoveProc
  <2> QED
    BY <1>1, <2>1
<1>3. CASE \E v \in Versions : Edit(v)
  BY <1>0, <1>3 DEF Edit, VersionInv
<1>4. CASE ReloadBegin \/ ReloadParse \/ ReloadSnapshot
  BY <1>0, <1>4 DEF ReloadBegin, ReloadParse, ReloadSnapshot, MlIdle, VersionInv
<1>5. CASE \/ \E bound \in SUBSET Listeners : Startup(bound)
           \/ \E l \in Listeners : ResumeAccept(l)
           \/ \E L \in SUBSET Procs : Maintenance(L)
           \/ \E i \in Instances : SecModDies(i) \/ SecModReaped(i)
           \/ Signal \/ DrainEnds
  BY <1>1, <1>5 DEF Startup, ResumeAccept, Maintenance, SecModDies, SecModReaped, Signal,
     DrainEnds, terminate_server
<1>6. CASE TermSignal
  BY <1>1, <1>6 DEF TermSignal, terminate_server
<1>7. CASE UNCHANGED mlvars
  BY <1>1, <1>7 DEF mlvars
<1> QED
  BY <1>2, <1>3, <1>4, <1>5, <1>6, <1>7 DEF MlNext

-----------------------------------------------------------------------------
(* The rest of the type invariant, and the theorems.                        *)

LoopTypes ==
  /\ phase \in {"START", "RUN", "DRAIN", "DONE"} /\ busy \in {"no", "parse", "snap"}
  /\ sec \in [Instances -> {"UP", "DEAD", "REAPED"}] /\ term \in BOOLEAN

LoopInv == ObjInv /\ ListenInv /\ VersionInv /\ LoopTypes

\* A step of main's loop keeps LoopTypes.
LEMMA TypesStep == ASSUME LoopTypes, [MlNext]_mlvars PROVE LoopTypes'
<1>1. CASE Loop
  <2>1. UNCHANGED <<busy, sec, term>> /\ phase' \in {phase, "DONE"}
    BY <1>1 DEF Loop, UdpPacket, StrayTimer, Accept, SessionOpen, ScriptDone, RemoveProc, remove_procs
  <2> QED
    BY <2>1 DEF LoopTypes
<1>2. CASE ReloadBegin
  <2>1. sec' \in [Instances -> {"UP", "DEAD", "REAPED"}]
    BY <1>2 DEF ReloadBegin, LoopTypes
  <2>2. term' \in BOOLEAN
    BY <1>2, Zenon DEF ReloadBegin
  <2> QED
    BY <1>2, <2>1, <2>2 DEF ReloadBegin, LoopTypes
<1>3. CASE ReloadParse \/ ReloadSnapshot \/ Signal \/ DrainEnds
  BY <1>3 DEF ReloadParse, ReloadSnapshot, Signal, DrainEnds, terminate_server, LoopTypes
<1>4. CASE \/ \E bound \in SUBSET Listeners : Startup(bound)
           \/ \E l \in Listeners : ResumeAccept(l)
           \/ \E v \in Versions : Edit(v)
           \/ \E L \in SUBSET Procs : Maintenance(L)
  BY <1>4 DEF Startup, ResumeAccept, Edit, Maintenance, remove_procs, LoopTypes
<1>5. CASE \E i \in Instances : SecModDies(i) \/ SecModReaped(i)
  BY <1>5 DEF SecModDies, SecModReaped, LoopTypes
<1>6. CASE TermSignal
  BY <1>6 DEF TermSignal, terminate_server, LoopTypes
<1>7. CASE UNCHANGED mlvars
  BY <1>7 DEF mlvars, LoopTypes
<1> QED
  BY <1>1, <1>2, <1>3, <1>4, <1>5, <1>6, <1>7 DEF MlNext

\* The server starts in LoopInv.
LEMMA LoopInitially == MlInit => LoopInv
<1> SUFFICES ASSUME MlInit PROVE LoopInv
  OBVIOUS
<1>1. 1 \in Versions /\ 1 \in Gens /\ 0 \notin Gens
  BY LoopAssumption DEF LoopAssumption, Versions, Gens
<1>2. VersionInv /\ LoopTypes
  <2>1. VersionInv
    BY <1>1 DEF MlInit, VersionInv
  <2>2. term \in BOOLEAN /\ sec \in [Instances -> {"UP", "DEAD", "REAPED"}]
    BY DEF MlInit
  <2> QED
    BY <2>1, <2>2 DEF MlInit, LoopTypes
<1>3. ListenInv
  <2>1. Closed \in MlListener /\ Closed.open = FALSE
    BY DEF Closed, MlListener
  <2> QED
    BY <2>1 DEF MlInit, ListenInv, PausedHasTimer
<1>4. snap \in Versions /\ NoProc \in MlProc /\ NoProc.gen = 0
  BY <1>1, FreshProcs DEF MlInit
<1>5. ObjTypes
  BY <1>1, <1>4 DEF MlInit, ObjTypes
<1>6. \A g \in Gens : {p \in Procs : proc[p].gen = g} = {}
  BY <1>1, <1>4 DEF MlInit
<1>7. ConfigInUseKept
  BY <1>4, <1>6, FS_EmptySet DEF MlInit, ConfigInUseKept
<1>8. cfg[gen] = "CURRENT" /\ \A p \in Procs : proc[p].gen = 0
  BY <1>1, <1>4 DEF MlInit
<1> QED
  BY <1>2, <1>3, <1>5, <1>7, <1>8 DEF ObjInv, LoopInv

\* LoopInv is inductive.
THEOREM LoopInvariant == MlSpec => []LoopInv
<1>1. LoopInv /\ [MlNext]_mlvars => LoopInv'
  BY ObjStep, ListenStep, VersionStep, TypesStep DEF LoopInv, VersionInv
<1> QED
  BY LoopInitially, <1>1, PTL DEF MlSpec

\* No configuration object is freed while a proc points into it, and its count is
\* the number of those procs, for every order of sessions, reloads, maintenance and
\* removals (archive_cfg, clear_old_configs, remove_proc).
THEOREM ConfigsInUseAreKept == MlSpec => []ConfigInUseKept
<1>1. LoopInv => ConfigInUseKept
  BY DEF LoopInv, ObjInv
<1> QED
  BY <1>1, LoopInvariant, PTL

\* A listener on which accept was paused always has its timer armed, and one that
\* accepts has not (listen_watcher_cb, resume_accept_cb, term_sig_watcher_cb).
THEOREM PausesEndByTimer == MlSpec => []PausedHasTimer
<1>1. LoopInv => PausedHasTimer
  BY DEF LoopInv, ListenInv
<1> QED
  BY <1>1, LoopInvariant, PTL

\* Every variable of main's loop keeps its type.
THEOREM LoopTypeCorrect == MlSpec => []LoopTypeOK
<1>1. LoopInv => LoopTypeOK
  <2> SUFFICES ASSUME LoopInv PROVE LoopTypeOK
    OBVIOUS
  <2>1. \A g \in Gens : use[g] = Cardinality(UsersOf(g))
    BY DEF LoopInv, ObjInv, ConfigInUseKept, UsersOf
  <2>2. \A g \in Gens : use[g] \in 0..Cardinality(Procs)
    <3>1. Cardinality(Procs) \in Nat
      BY LoopAssumption, FS_CardinalityType DEF LoopAssumption
    <3> QED
      BY <2>1, <3>1, UsersFinite
  <2>3. use \in [Gens -> 0..Cardinality(Procs)]
    BY <2>2 DEF LoopInv, ObjInv, ObjTypes
  <2> QED
    BY <2>3 DEF LoopInv, ObjInv, ObjTypes, ListenInv, VersionInv, LoopTypes, LoopTypeOK, MlProc, MlListener
<1> QED
  BY <1>1, LoopInvariant, PTL

\* A worker never starts with a configuration older than the one main works with
\* (parse_cfg_file copies the file after reading it; listen_watcher_cb forks only
\* outside of a reload).
THEOREM WorkersGetLoaded == MlSpec => WorkerConfigIsLoaded
<1> DEFINE A == \A p \in Procs : proc[p].st = "NONE" /\ proc'[p].st = "NEW" =>
                   proc'[p].ver >= ver /\ proc'[p].ver = snap
<1>1. LoopInv /\ MlNext => A
  <2> SUFFICES ASSUME LoopInv, MlNext, NEW p \in Procs, proc[p].st = "NONE", proc'[p].st = "NEW"
               PROVE  proc'[p].ver >= ver /\ proc'[p].ver = snap
    OBVIOUS
  <2>0. proc \in [Procs -> MlProc] /\ snap \in Versions /\ NoProc.st = "NONE"
    BY FreshProcs DEF LoopInv, ObjInv, ObjTypes
  <2>1. proc' # proc
    OBVIOUS
  <2>2. ASSUME NEW P, proc' = [q \in Procs |-> IF q \in P THEN NoProc ELSE proc[q]]
        PROVE  FALSE
    BY <2>0, <2>2
  <2>3. ~terminate_server
    BY <2>0 DEF terminate_server
  <2>4. \A q \in Procs : ~ScriptDone(q) /\ ~RemoveProc(q)
    <3>1. ASSUME NEW q \in Procs, ScriptDone(q)
          PROVE  FALSE
      BY <2>0, <3>1 DEF ScriptDone, MlProc
    <3>2. ASSUME NEW q \in Procs, RemoveProc(q)
          PROVE  FALSE
      BY <2>2, <3>2 DEF RemoveProc, remove_procs
    <3> QED
      BY <3>1, <3>2
  <2>5. \A L \in SUBSET Procs : ~Maintenance(L)
    BY <2>2 DEF Maintenance, remove_procs
  <2>6. ASSUME NEW q \in Procs, NEW i \in Instances, NEW counted \in BOOLEAN,
               NEW st \in {"FAILED", "PENDING", "OPEN"}, SessionOpen(q, i, counted, st)
        PROVE  FALSE
    BY <2>0, <2>6 DEF SessionOpen, MlProc
  <2>7. ASSUME NEW l \in Tcp, NEW q \in Procs, NEW forked \in BOOLEAN, Accept(l, q, forked)
        PROVE  proc'[p].ver >= ver /\ proc'[p].ver = snap
    <3>1. proc'[p] = NewProc /\ busy = "no"
      BY <2>0, <2>7 DEF Accept, MlIdle
    <3>2. proc'[p].ver = snap
      BY <2>0, <3>1, FreshProcs
    <3>3. ver <= snap /\ ver \in Nat /\ snap \in Nat
      BY <3>1, LoopAssumption DEF LoopAssumption, Versions, LoopInv, VersionInv
    <3> QED
      BY <3>2, <3>3
  <2>8. CASE Loop
    BY <2>1, <2>4, <2>6, <2>7, <2>8 DEF Loop, UdpPacket, StrayTimer
  <2>9. CASE \/ \E bound \in SUBSET Listeners : Startup(bound)
             \/ \E l \in Listeners : ResumeAccept(l)
             \/ \E v \in Versions : Edit(v)
             \/ ReloadBegin \/ ReloadParse \/ ReloadSnapshot \/ Signal
             \/ \E i \in Instances : SecModDies(i) \/ SecModReaped(i)
    BY <2>1, <2>9 DEF Startup, ResumeAccept, Edit, ReloadBegin, ReloadParse, ReloadSnapshot, Signal,
       SecModDies, SecModReaped
  <2>10. ~TermSignal /\ ~DrainEnds
    BY <2>1, <2>3 DEF TermSignal, DrainEnds
  <2> QED
    BY <2>5, <2>8, <2>9, <2>10 DEF MlNext
<1>2. LoopInv /\ [MlNext]_mlvars => [A]_mlvars
  BY <1>1
<1> QED
  BY <1>2, LoopInvariant, PTL DEF MlSpec, WorkerConfigIsLoaded
=============================================================================
