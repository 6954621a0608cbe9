-------------------------- MODULE WorkerAuthProofs --------------------------
(***************************************************************************)
(* The login of a connection over HTTP (WorkerAuth), for every              *)
(* configuration of methods and groups and whatever requests come.  The     *)
(* number of logins begun is bounded by a rank, the number of methods that  *)
(* are left; a group that is kept or sent fits the client's choice.         *)
(***************************************************************************)
EXTENDS WorkerAuth, FiniteSetTheorems, TLAPS

Methods == 1..MAX_AUTH_METHODS
Groups == GroupNames \cup {NoGroup}
WsType == [state : AuthStates, sel : Methods, on : SUBSET Methods, sid : BOOLEAN,
           cookie : {NoCookie, "client", "own"}, group : Groups,
           auth : {"none", "short", "long", "bearer"}, camo : BOOLEAN]

\* The methods that are left; the last one counts although it may be disabled.
Rank(S) == IF S = {} THEN 1 ELSE Cardinality(S)

\* The selected method is enabled, unless it was the last.
Selected(w) == w.sel \in w.on \/ w.on = {}

\* What the prover needs of small sets of methods.
LEMMA Ranks ==
  ASSUME NEW S \in SUBSET Methods
  PROVE  /\ Rank(S) \in Nat /\ Rank(S) >= 1
         /\ \A T \in SUBSET S : Rank(T) <= Rank(S)
         /\ \A x \in S : S \ {x} # {} => Rank(S \ {x}) = Rank(S) - 1
         /\ S # {} => \E i \in S : \A j \in S : i <= j
<1>1. IsFiniteSet(Methods)
  <2>1. 1 \in Int /\ 4 \in Int
    OBVIOUS
  <2>2. IsFiniteSet(1..4)
    BY <2>1, FS_Interval, Zenon
  <2> QED
    BY <2>2 DEF Methods, MAX_AUTH_METHODS
<1>2. IsFiniteSet(S) /\ Cardinality(S) \in Nat
  BY <1>1, FS_Subset, FS_CardinalityType
<1>3. S # {} => Cardinality(S) # 0
  BY <1>2, FS_EmptySet
<1>4. Rank(S) \in Nat /\ Rank(S) >= 1
  BY <1>2, <1>3 DEF Rank
<1>5. ASSUME NEW T \in SUBSET S
      PROVE  Rank(T) <= Rank(S)
  <2>1. IsFiniteSet(T) /\ Cardinality(T) \in Nat /\ Cardinality(T) <= Cardinality(S)
    BY <1>2, FS_Subset, FS_CardinalityType
  <2> QED
    BY <1>2, <1>4, <2>1 DEF Rank
<1>6. ASSUME NEW x \in S, S \ {x} # {}
      PROVE  Rank(S \ {x}) = Rank(S) - 1
  <2>1. Cardinality(S \ {x}) = Cardinality(S) - 1
    BY <1>2, FS_RemoveElement
  <2> QED
    BY <1>6, <2>1 DEF Rank
<1>7. S # {} => \E i \in S : \A j \in S : i <= j
  <2>1. Methods = {1, 2, 3, 4}
    BY DEF Methods, MAX_AUTH_METHODS
  <2>2. 1 \in S => \A j \in S : 1 <= j
    BY <2>1
  <2>3. 1 \notin S => \A j \in S : 2 <= j
    BY <2>1
  <2>4. 1 \notin S /\ 2 \notin S => \A j \in S : 3 <= j
    BY <2>1
  <2>5. 1 \notin S /\ 2 \notin S /\ 3 \notin S => \A j \in S : j = 4 /\ 4 <= j
    BY <2>1
  <2> QED
    BY <2>2, <2>3, <2>4, <2>5
<1> QED
  BY <1>4, <1>5, <1>6, <1>7

\* The fields that the selection of a method leaves alone.
SameButMethod(r, w) ==
  /\ r \in WsType /\ r.state = w.state /\ r.sid = w.sid /\ r.cookie = w.cookie /\ r.group = w.group
  /\ r.auth = w.auth /\ r.camo = w.camo

\* ws_switch_auth_to selects an enabled method, if any.
LEMMA SwitchTo ==
  ASSUME NEW w \in WsType, NEW t, Selected(w)
  PROVE  LET r == ws_switch_auth_to(w, t)
         IN SameButMethod(r, w) /\ r.on = w.on /\ Selected(r)
<1> DEFINE fit == {i \in w.on : t \in waCfg.methods[i]}
           m == CHOOSE i \in fit : \A j \in fit : i <= j
<1>1. fit \in SUBSET Methods
  BY DEF WsType
<1>2. CASE w.sel \in fit \/ fit = {}
  BY <1>2 DEF ws_switch_auth_to, SameButMethod
<1>3. CASE ~(w.sel \in fit \/ fit = {})
  <2>1. \E i \in fit : \A j \in fit : i <= j
    BY <1>1, <1>3, Ranks
  <2>2. m \in fit
    BY <2>1
  <2>3. m \in Methods /\ m \in w.on
    BY <1>1, <2>2
  <2>4. ws_switch_auth_to(w, t) = [w EXCEPT !.sel = m]
    BY <1>3 DEF ws_switch_auth_to
  <2> HIDE DEF m, fit
  <2>5. LET r == [w EXCEPT !.sel = m] IN SameButMethod(r, w) /\ r.on = w.on /\ r.sel = m
    BY <2>3 DEF WsType, SameButMethod
  <2> QED
    BY <2>3, <2>4, <2>5 DEF Selected
<1> QED
  BY <1>2, <1>3

\* ws_switch_auth_to_next disables the selected method.
LEMMA SwitchToNext ==
  ASSUME NEW w \in WsType, Selected(w)
  PROVE  LET r == ws_switch_auth_to_next(w)
         IN /\ SameButMethod(r, w) /\ r.on = w.on \ {w.sel} /\ Selected(r)
            /\ r.sel # w.sel => /\ r.on # {} /\ Rank(r.on) = Rank(w.on) - 1
<1> DEFINE others == w.on \ {w.sel}
           m == CHOOSE i \in others : \A j \in others : i <= j
<1>1. others \in SUBSET Methods /\ w.on \in SUBSET Methods
  BY DEF WsType
<1>2. CASE others = {}
  <2>1. ws_switch_auth_to_next(w) = [w EXCEPT !.on = others]
    BY <1>2 DEF ws_switch_auth_to_next
  <2>2. LET r == [w EXCEPT !.on = others] IN SameButMethod(r, w) /\ r.on = others /\ r.sel = w.sel
    BY <1>1 DEF WsType, SameButMethod
  <2> QED
    BY <1>2, <2>1, <2>2 DEF Selected
<1>3. CASE others # {}
  <2>1. \E i \in others : \A j \in others : i <= j
    BY <1>1, <1>3, Ranks
  <2>2. m \in others
    BY <2>1
  <2>3. ws_switch_auth_to_next(w) = [w EXCEPT !.on = others, !.sel = m]
    BY <1>3 DEF ws_switch_auth_to_next
  <2>4. w.sel \in w.on
    BY <1>3 DEF Selected
  <2>5. Rank(others) = Rank(w.on) - 1
    BY <1>1, <1>3, <2>4, Ranks
  <2>6. m \in Methods
    BY <1>1, <2>2
  <2> HIDE DEF m
  <2>7. others \in SUBSET Methods /\ m \in others
    BY <1>1, <2>2
  <2>8. LET r == [w EXCEPT !.on = others, !.sel = m] IN SameButMethod(r, w) /\ r.on = others /\ r.sel = m
    <3> HIDE DEF others
    <3> QED
      BY <2>6, <2>7 DEF WsType, SameButMethod
  <2> QED
    BY <1>3, <2>3, <2>5, <2>7, <2>8 DEF Selected
<1> QED
  BY <1>2, <1>3

Calm == {"start", "idle", "dispatch"}
Phases == Calm \cup {"secmod", "main", "tunnel", "exit"}

\* A group the client named, or the only one of its certificate.
GroupFits(g, named) == g = NoGroup \/ g \in named \/ Eligible = {g}

LoginTypes ==
  /\ waCfg \in WaConfigs /\ waWs \in WsType /\ waPhase \in Phases /\ waInits \in Nat
  /\ Selected(waWs)

\* A login may be begun for every method that is left, and none once the last has begun.
TriesInv ==
  /\ waInits + Rank(waWs.on) <= Len(waCfg.methods) + 1
  /\ waPhase \in Calm /\ waWs.state = "inactive" => waInits + Rank(waWs.on) <= Len(waCfg.methods)

CookieInv == AcceptedCookieKept /\ (waPhase = "main" => waWs.cookie # NoCookie)

GroupInv == /\ GroupFits(waWs.group, waNamed)
            /\ waMsg.kind = "init" => GroupFits(waMsg.group, waNamed)

HalfInv == waPhase \in Calm => /\ waWs.state # "init"
                               /\ waWs.state = "req" => waSec = "open"

LoginInv == LoginTypes /\ TriesInv /\ CookieInv /\ GroupInv /\ HalfInv /\ AlarmUntilTunnel

-----------------------------------------------------------------------------
(* Steps that begin or answer no login.                                     *)

\* What the headers of a request may change.
Headered(r, w) ==
  /\ r \in WsType /\ Selected(r) /\ r.on \subseteq w.on /\ r.group = w.group
  /\ r.state = w.state \/ r.state = "cookie"
  /\ r.state = "complete" => w.state = "complete" /\ r.cookie = w.cookie

\* Such a step keeps the invariant, and so does the end of the worker.
LEMMA CalmStep ==
  ASSUME LoginInv, Headered(waWs', waWs), waPhase' = "exit" \/ (waPhase \in Calm /\ waPhase' \in Calm),
         waMsg' = waMsg \/ waMsg' = NoMsg, waPhase' # "exit" => waSec' = waSec,
         UNCHANGED <<waCfg, waAlarm, waAccepted, waNamed, waInits>>
  PROVE  LoginInv'
<1>0. "exit" \notin Calm /\ "main" \notin Calm /\ "tunnel" \notin Calm /\ "exit" \in Phases /\ Calm \subseteq Phases
  BY DEF Calm, Phases
<1>1. LoginTypes'
  BY <1>0 DEF LoginInv, LoginTypes, Headered
<1>2. Rank(waWs'.on) \in Nat /\ Rank(waWs.on) \in Nat /\ Rank(waWs'.on) <= Rank(waWs.on) /\ waWs.on \in SUBSET Methods
  <2>1. waWs.on \in SUBSET Methods /\ waWs'.on \in SUBSET waWs.on
    BY DEF LoginInv, LoginTypes, Headered, WsType
  <2>2. waWs'.on \in SUBSET Methods
    BY <2>1
  <2> QED
    BY <2>1, <2>2, Ranks
<1>3. Len(waCfg.methods) \in Nat /\ waInits \in Nat
  BY WaAssumption DEF WaAssumption, LoginInv, LoginTypes, MAX_AUTH_METHODS
<1>4. TriesInv'
  <2>1. waInits' + Rank(waWs'.on) <= Len(waCfg'.methods) + 1
    BY <1>2, <1>3 DEF LoginInv, TriesInv
  <2>2. waPhase' \in Calm /\ waWs'.state = "inactive" => waInits' + Rank(waWs'.on) <= Len(waCfg'.methods)
    BY <1>0, <1>2, <1>3 DEF LoginInv, TriesInv, Headered
  <2> QED
    BY <2>1, <2>2 DEF TriesInv
<1>5. CookieInv'
  BY <1>0 DEF LoginInv, CookieInv, AcceptedCookieKept, Headered
<1>6. GroupInv'
  <2>1. \A g : GroupFits(g, waNamed)' <=> GroupFits(g, waNamed)
    BY DEF GroupFits, Eligible, Listed
  <2>2. waMsg'.kind = "init" => waMsg' = waMsg
    BY DEF NoMsg
  <2> QED
    BY <2>1, <2>2 DEF LoginInv, GroupInv, Headered, GroupFits, Eligible, Listed
<1>7. HalfInv'
  BY <1>0 DEF LoginInv, HalfInv, Headered
<1>8. AlarmUntilTunnel'
  BY <1>0 DEF LoginInv, AlarmUntilTunnel
<1> QED
  BY <1>1, <1>4, <1>5, <1>6, <1>7, <1>8 DEF LoginInv

\* Nothing changed is a case of this.
LEMMA SameHeadered == ASSUME LoginInv PROVE Headered(waWs, waWs)
BY DEF LoginInv, LoginTypes, Headered

\* Where the ends of a handler lead.
LEMMA Ends ==
  /\ Exit => waPhase' = "exit"
  /\ Served => waPhase' \in {"idle", "exit"}
  /\ \A w : GetAuth(w) => waPhase' \in {"idle", "exit", "dispatch"}
BY DEF Exit, Served, GetAuth

\* The headers.
LEMMA HeadersFit ==
  ASSUME NEW w \in WsType, Selected(w), NEW c \in {"none", "good", "bad"}, NEW sp \in BOOLEAN
  PROVE  LET r == ReceiveSpnego(ReceiveCookie(w, c), sp) IN Headered(r, w)
<1> DEFINE k == ReceiveCookie(w, c)
<1>1. /\ k \in WsType /\ Selected(k) /\ k.on = w.on /\ k.group = w.group
      /\ k.state = w.state \/ k.state = "cookie"
      /\ k.state = "complete" => w.state = "complete" /\ k.cookie = w.cookie
  <2>1. CASE w.state = "complete" \/ c = "none"
    BY <2>1 DEF ReceiveCookie
  <2>2. CASE ~(w.state = "complete" \/ c = "none") /\ c = "good"
    <3>1. k = [w EXCEPT !.cookie = "client", !.state = "cookie"]
      BY <2>2 DEF ReceiveCookie
    <3>2. LET x == [w EXCEPT !.cookie = "client", !.state = "cookie"]
          IN x \in WsType /\ x.sel = w.sel /\ x.on = w.on /\ x.group = w.group /\ x.state = "cookie"
      BY DEF WsType, AuthStates
    <3> QED
      BY <3>1, <3>2 DEF Selected
  <2>3. CASE ~(w.state = "complete" \/ c = "none") /\ c # "good"
    <3>1. k = [w EXCEPT !.cookie = NoCookie]
      BY <2>3 DEF ReceiveCookie
    <3>2. LET x == [w EXCEPT !.cookie = NoCookie]
          IN x \in WsType /\ x.sel = w.sel /\ x.on = w.on /\ x.group = w.group /\ x.state = w.state
      BY DEF WsType
    <3> QED
      BY <2>3, <3>1, <3>2 DEF Selected
  <2> QED
    BY <2>1, <2>2, <2>3
<1> HIDE DEF k
<1> DEFINE t == IF sp /\ ~("cert" \in TypesOf(k) /\ waCfg.certOk) THEN ws_switch_auth_to(k, "gss") ELSE k
<1>2. SameButMethod(t, k) /\ t.on = k.on /\ Selected(t)
  BY <1>1, SwitchTo DEF SameButMethod
<1>3. ReceiveSpnego(k, sp) = t \/ ReceiveSpnego(k, sp) = ws_switch_auth_to_next(t)
  BY DEF ReceiveSpnego
<1> HIDE DEF t
<1>4. LET r == ws_switch_auth_to_next(t) IN SameButMethod(r, t) /\ r.on = t.on \ {t.sel} /\ Selected(r)
  BY <1>2, SwitchToNext DEF SameButMethod
<1>5. Headered(ReceiveSpnego(k, sp), w)
  BY <1>1, <1>2, <1>3, <1>4 DEF SameButMethod, Headered
<1> QED
  BY <1>5 DEF k

\* The Authorization header and the camouflage change nothing else.
LEMMA AuthFits ==
  ASSUME NEW w, NEW r, Headered(r, w), NEW a \in {"none", "short", "long", "bearer"}
  PROVE  Headered([r EXCEPT !.auth = a], w)
<1>1. r \in WsType
  BY DEF Headered
<1>2. LET x == [r EXCEPT !.auth = a]
      IN /\ x \in WsType /\ x.sel = r.sel /\ x.on = r.on /\ x.group = r.group /\ x.state = r.state
         /\ x.cookie = r.cookie
  BY <1>1 DEF WsType
<1> QED
  BY <1>2 DEF Headered, Selected

\* check_camouflage_url
LEMMA CamouflageFits ==
  ASSUME NEW w, NEW r, Headered(r, w), NEW method, NEW secret \in BOOLEAN
  PROVE  Headered(Camouflage(r, method, secret), w)
<1> DEFINE b == r.camo \/ (method \in {"GET", "POST"} /\ (secret \/ ~BelowCookie(r)))
<1>1. r \in WsType /\ b \in BOOLEAN
  BY DEF Headered
<1>2. Camouflage(r, method, secret) = [r EXCEPT !.camo = b]
  BY DEF Camouflage
<1> HIDE DEF b
<1>3. LET x == [r EXCEPT !.camo = b]
      IN /\ x \in WsType /\ x.sel = r.sel /\ x.on = r.on /\ x.group = r.group /\ x.state = r.state
         /\ x.cookie = r.cookie
  BY <1>1 DEF WsType
<1> QED
  BY <1>2, <1>3 DEF Headered, Selected

\* The steps that begin or answer no login keep the invariant.
LEMMA CalmSteps ==
  ASSUME LoginInv, Handshake \/ Headers \/ PeerLeaves \/ Get \/ PostElsewhere \/ WaAlarm
  PROVE  LoginInv'
<1>0. waWs \in WsType /\ Selected(waWs) /\ "idle" \in Calm /\ "dispatch" \in Calm /\ "start" \in Calm
  BY DEF LoginInv, LoginTypes, Calm
<1>1. CASE Handshake
  <2>1. waPhase = "start" /\ waPhase' \in {"exit", "idle"} /\ UNCHANGED <<waCfg, waAlarm, waMsg, waSec, waAccepted, waNamed, waInits>>
    BY <1>1, Ends DEF Handshake
  <2>2. waWs' = waWs \/ waWs' = ws_switch_auth_to(waWs, "cert")
    BY <1>1 DEF Handshake
  <2>3. Headered(ws_switch_auth_to(waWs, "cert"), waWs)
    BY <1>0, SwitchTo DEF Headered, SameButMethod
  <2>4. Headered(waWs', waWs)
    BY <2>2, <2>3, SameHeadered
  <2> QED
    BY <1>0, <2>1, <2>4, CalmStep
<1>2. CASE Headers
  <2>1. PICK method \in {"GET", "POST", "CONNECT", "other"},
             url \in {"auth", "svc", "config", "fixed", "unknown"},
             c \in {"none", "good", "bad"}, sp, secret \in BOOLEAN,
             a \in {waWs.auth, "short", "long", "bearer"} :
          LET w0 == [ReceiveSpnego(ReceiveCookie(waWs, c), sp) EXCEPT !.auth = a]
              w == IF waCfg.camouflage THEN Camouflage(w0, method, secret) ELSE w0
          IN /\ secret => waCfg.camouflage
             /\ a = waWs.auth \/ \E i \in DOMAIN waCfg.methods : waCfg.methods[i] \cap {"gss", "oidc"} # {}
             /\ waWs' = w
             /\ IF method = "other" \/ (method \in {"GET", "POST"} /\ waCfg.camouflage /\ ~w.camo)
                THEN Exit
                ELSE /\ waPhase' = "dispatch"
                     /\ waReq' = [method |-> method, url |-> url]
                     /\ UNCHANGED waLeft
    BY <1>2 DEF Headers
  <2> DEFINE r == ReceiveSpnego(ReceiveCookie(waWs, c), sp)
             w0 == [r EXCEPT !.auth = a]
  <2>2. Headered(r, waWs)
    BY <1>0, HeadersFit
  <2> HIDE DEF r
  <2>3. a \in {"none", "short", "long", "bearer"}
    BY <1>0 DEF WsType
  <2>4. Headered(w0, waWs)
    BY <2>2, <2>3, AuthFits
  <2>5. waWs' = IF waCfg.camouflage THEN Camouflage(w0, method, secret) ELSE w0
    BY <2>1 DEF r
  <2> HIDE DEF w0
  <2>6. Headered(waWs', waWs)
    BY <2>4, <2>5, CamouflageFits
  <2>7. Exit \/ waPhase' = "dispatch"
    BY <2>1, Zenon
  <2>8. waPhase = "idle" /\ UNCHANGED <<waCfg, waAlarm, waMsg, waSec, waAccepted, waNamed, waInits>>
    BY <1>2 DEF Headers
  <2> QED
    BY <1>0, <2>6, <2>7, <2>8, Ends, CalmStep
<1>3. CASE PeerLeaves \/ Get \/ PostElsewhere \/ WaAlarm
  <2>1. /\ waWs' = waWs /\ waMsg' = waMsg /\ waSec' = waSec
        /\ UNCHANGED <<waCfg, waAlarm, waAccepted, waNamed, waInits>>
    BY <1>3 DEF PeerLeaves, Get, PostElsewhere, WaAlarm
  <2>2. waPhase' = "exit" \/ (waPhase \in Calm /\ waPhase' \in Calm)
    <3>1. CASE PeerLeaves \/ PostElsewhere \/ WaAlarm
      BY <3>1, Ends DEF PeerLeaves, PostElsewhere, WaAlarm
    <3>2. CASE Get
      <4>1. waPhase = "dispatch" /\ (GetAuth(waWs) \/ Exit \/ Served)
        BY <3>2 DEF Get
      <4> QED
        BY <1>0, <4>1, Ends
    <3> QED
      BY <1>3, <3>1, <3>2
  <2> QED
    BY <2>1, <2>2, SameHeadered, CalmStep
<1> QED
  BY <1>1, <1>2, <1>3

-----------------------------------------------------------------------------
(* Steps that begin a login or go on with one.                              *)

\* The parts of the invariant for a new state of the worker; named and M are the groups the client
\* named and the message under way.
LEMMA LoginStep ==
  ASSUME LoginInv, UNCHANGED <<waCfg, waAlarm>>, waPhase' \in Phases \ {"main", "tunnel"}, waPhase \notin {"tunnel", "exit"},
         waWs' \in WsType, Selected(waWs'), waInits' \in Nat,
         waInits' + Rank(waWs'.on) <= Len(waCfg.methods) + 1,
         waPhase' \in Calm /\ waWs'.state = "inactive" => waInits' + Rank(waWs'.on) <= Len(waCfg.methods),
         waWs'.state = "complete" => waWs.state = "complete" /\ waWs'.cookie = waWs.cookie /\ waAccepted' = waAccepted,
         GroupFits(waWs'.group, waNamed'), waMsg'.kind = "init" => GroupFits(waMsg'.group, waNamed'),
         waPhase' \in Calm => waWs'.state # "init" /\ (waWs'.state = "req" => waSec' = "open")
  PROVE  LoginInv'
<1>1. LoginTypes'
  BY DEF LoginInv, LoginTypes
<1>2. TriesInv'
  BY DEF TriesInv
<1>3. CookieInv'
  BY DEF LoginInv, CookieInv, AcceptedCookieKept
<1>4. GroupInv'
  BY DEF GroupInv, GroupFits, Eligible, Listed
<1>5. HalfInv'
  BY DEF HalfInv
<1>6. AlarmUntilTunnel'
  BY DEF LoginInv, AlarmUntilTunnel
<1> QED
  BY <1>1, <1>2, <1>3, <1>4, <1>5, <1>6 DEF LoginInv

\* The types of what the invariant counts.
LEMMA Counts ==
  ASSUME LoginInv
  PROVE  /\ waWs \in WsType /\ waWs.on \in SUBSET Methods /\ Rank(waWs.on) \in Nat /\ Rank(waWs.on) >= 1
         /\ Len(waCfg.methods) \in Nat /\ waInits \in Nat /\ waCfg \in WaConfigs /\ Selected(waWs)
<1>1. waWs \in WsType /\ waWs.on \in SUBSET Methods
  BY DEF LoginInv, LoginTypes, WsType
<1>2. Len(waCfg.methods) \in Nat /\ waInits \in Nat /\ waCfg \in WaConfigs /\ Selected(waWs)
  BY WaAssumption DEF WaAssumption, LoginInv, LoginTypes, MAX_AUTH_METHODS
<1> QED
  BY <1>1, <1>2, Ranks

\* A group that fits goes on to fit.
LEMMA GroupsGrow ==
  ASSUME NEW g, NEW A, NEW B, GroupFits(g, A), A \subseteq B \cup {NoGroup}
  PROVE  GroupFits(g, B)
BY DEF GroupFits

\* The fallback to another method.
LEMMA FallbackFields ==
  ASSUME NEW w \in WsType, Selected(w)
  PROVE  LET r == Fallback(w)
         IN /\ r \in WsType /\ Selected(r) /\ r.state = "inactive" /\ r.group = w.group
            /\ r.on \in SUBSET w.on /\ r.on \in SUBSET Methods /\ w.on \in SUBSET Methods
            /\ r.sel # w.sel => Rank(r.on) = Rank(w.on) - 1
<1> DEFINE n == ws_switch_auth_to_next(w)
<1>1. /\ SameButMethod(n, w) /\ n.on = w.on \ {w.sel} /\ Selected(n)
      /\ n.sel # w.sel => /\ n.on # {} /\ Rank(n.on) = Rank(w.on) - 1
  BY SwitchToNext
<1>2. Fallback(w) = [n EXCEPT !.state = "inactive", !.sid = FALSE]
  BY DEF Fallback
<1> HIDE DEF n
<1>3. LET x == [n EXCEPT !.state = "inactive", !.sid = FALSE]
      IN x \in WsType /\ x.sel = n.sel /\ x.on = n.on /\ x.group = n.group /\ x.state = "inactive"
  BY <1>1, ZenonT(60) DEF SameButMethod, WsType, AuthStates
<1>4. w.on \in SUBSET Methods
  BY DEF WsType
<1> QED
  BY <1>1, <1>2, <1>3, <1>4 DEF Selected, SameButMethod

\* The fallback from a login that was begun, or not.
LEMMA FallBackKeeps ==
  ASSUME LoginInv, NEW w \in WsType, Selected(w), w.on = waWs.on, FallBack(w),
         waPhase \notin {"tunnel", "exit"}, GroupFits(w.group, waNamed'),
         waMsg'.kind = "init" => GroupFits(waMsg'.group, waNamed'),
         UNCHANGED <<waCfg, waAlarm, waInits>>
  PROVE  LoginInv'
<1> DEFINE r == Fallback(w)
<1>1. /\ r \in WsType /\ Selected(r) /\ r.state = "inactive" /\ r.group = w.group
      /\ r.on \in SUBSET w.on /\ r.on \in SUBSET Methods /\ w.on \in SUBSET Methods
      /\ r.sel # w.sel => Rank(r.on) = Rank(w.on) - 1
  BY FallbackFields
<1>2. waWs' = r /\ ((r.sel = w.sel /\ Exit) \/ (r.sel # w.sel /\ GetAuth(r)))
  BY DEF FallBack
<1> HIDE DEF r
<1>3. /\ Rank(r.on) \in Nat /\ Rank(r.on) <= Rank(w.on) /\ Rank(waWs.on) \in Nat
      /\ Len(waCfg.methods) \in Nat /\ waInits \in Nat
  BY <1>1, Ranks, Counts
<1>4. waInits + Rank(waWs.on) <= Len(waCfg.methods) + 1
  BY DEF LoginInv, TriesInv
<1>5. waPhase' \in {"exit", "idle", "dispatch"} /\ (waPhase' # "exit" => r.sel # w.sel)
  BY <1>2, Ends
<1>6. waPhase' \in Phases \ {"main", "tunnel"} /\ (waPhase' \in Calm => waPhase' # "exit")
  BY <1>5 DEF Phases, Calm
<1>7. waInits' + Rank(waWs'.on) <= Len(waCfg.methods) + 1
  BY <1>2, <1>3, <1>4
<1>8. waPhase' \in Calm => waInits' + Rank(waWs'.on) <= Len(waCfg.methods)
  BY <1>1, <1>2, <1>3, <1>4, <1>5, <1>6
<1> QED
  BY <1>1, <1>2, <1>3, <1>6, <1>7, <1>8, LoginStep

\* The group of a first request: what is kept and sent was named.
LEMMA ChosenFits ==
  ASSUME NEW w \in WsType, waCfg \in WaConfigs, NEW g \in Groups, NEW forced
  PROVE  LET c == ChosenGroup(w, g, forced)
         IN c.kept \in Groups /\ c.unlisted \in Groups /\ c.sent \in {NoGroup, c.kept}
<1>1. w.group \in Groups /\ NoGroup \in Groups
  BY DEF WsType, Groups
<1>2. resolve_selected_group(g) \in Groups
  BY WaAssumption DEF WaAssumption, resolve_selected_group, Groups
<1> DEFINE r == IF forced THEN g ELSE resolve_selected_group(g)
<1>3. r \in Groups
  BY <1>2
<1> HIDE DEF r
<1>4. CASE g = NoGroup
  <2>1. ChosenGroup(w, g, forced) = [kept |-> w.group, sent |-> NoGroup, def |-> FALSE, unlisted |-> NoGroup]
    BY <1>4 DEF ChosenGroup
  <2> QED
    BY <1>1, <2>1
<1>5. CASE g # NoGroup /\ g = waCfg.def
  <2>1. ChosenGroup(w, g, forced) = [kept |-> NoGroup, sent |-> NoGroup, def |-> TRUE, unlisted |-> NoGroup]
    BY <1>5 DEF ChosenGroup
  <2> QED
    BY <1>1, <2>1
<1>6. CASE g # NoGroup /\ g # waCfg.def
  <2>1. ChosenGroup(w, g, forced) = [kept |-> r, sent |-> r, def |-> FALSE, unlisted |-> IF r = NoGroup THEN g ELSE NoGroup]
    BY <1>6 DEF ChosenGroup, r
  <2> QED
    BY <1>1, <1>3, <2>1
<1> QED
  BY <1>4, <1>5, <1>6

\* auto_select_cert_group takes the only eligible group.
LEMMA AutoFits ==
  ASSUME waCfg \in WaConfigs
  PROVE  /\ auto_select_cert_group \in Groups
         /\ auto_select_cert_group # NoGroup => Eligible = {auto_select_cert_group}
<1>1. IsFiniteSet(Eligible) /\ Eligible \subseteq GroupNames
  <2>1. Eligible \subseteq waCfg.certGroups /\ IsFiniteSet(waCfg.certGroups) /\ waCfg.certGroups \subseteq GroupNames
    BY WaAssumption DEF WaAssumption, Eligible
  <2> QED
    BY <2>1, FS_Subset
<1>2. CASE Cardinality(Eligible) = 1
  <2>1. PICK x : Eligible = {x}
    BY <1>1, <1>2, FS_Singleton
  <2>2. (CHOOSE g \in Eligible : TRUE) = x
    BY <2>1
  <2> QED
    BY <1>1, <1>2, <2>1, <2>2 DEF auto_select_cert_group, Groups
<1>3. CASE Cardinality(Eligible) # 1
  BY <1>3 DEF auto_select_cert_group, Groups
<1> QED
  BY <1>2, <1>3

\* A login is begun.
LEMMA InitKeeps ==
  ASSUME LoginInv, waPhase = "dispatch", waWs.state = "inactive", waPhase' = "secmod",
         waWs' \in WsType, waWs'.on = waWs.on, waWs'.sel = waWs.sel, waWs'.state \in {"inactive", "init"},
         waInits' = waInits + 1, GroupFits(waWs'.group, waNamed'), GroupFits(waMsg'.group, waNamed'),
         UNCHANGED <<waCfg, waAlarm>>
  PROVE  LoginInv'
<1>1. waInits + Rank(waWs.on) <= Len(waCfg.methods)
  BY DEF LoginInv, TriesInv, Calm
<1>2. /\ waInits' \in Nat /\ Selected(waWs') /\ waInits' + Rank(waWs'.on) <= Len(waCfg.methods) + 1
  BY <1>1, Counts DEF Selected
<1>3. "secmod" \in Phases \ {"main", "tunnel"} /\ "secmod" \notin Calm
  BY DEF Phases, Calm
<1> QED
  BY <1>2, <1>3, LoginStep

\* A first request is answered without a login, or ends the worker.
LEMMA AnsweredKeeps ==
  ASSUME LoginInv, waPhase = "dispatch", waWs.state = "inactive", waPhase' \in {"idle", "exit", "dispatch"},
         waWs' \in WsType, waWs'.on = waWs.on, waWs'.sel = waWs.sel, waWs'.state = "inactive",
         GroupFits(waWs'.group, waNamed'), waMsg'.kind = "init" => GroupFits(waMsg'.group, waNamed'),
         UNCHANGED <<waCfg, waAlarm, waInits>>
  PROVE  LoginInv'
<1>1. waInits + Rank(waWs.on) <= Len(waCfg.methods)
  BY DEF LoginInv, TriesInv, Calm
<1>2. /\ waInits' \in Nat /\ Selected(waWs') /\ waInits' + Rank(waWs'.on) <= Len(waCfg.methods)
      /\ waInits' + Rank(waWs'.on) <= Len(waCfg.methods) + 1
  BY <1>1, Counts DEF Selected
<1>3. waPhase' \in Phases \ {"main", "tunnel"}
  BY DEF Phases, Calm
<1> QED
  BY <1>2, <1>3, LoginStep

\* post_auth_handler in S_AUTH_INACTIVE.
LEMMA FirstKeeps == ASSUME LoginInv, PostAuthFirst PROVE LoginInv'
<1>0. /\ waPhase = "dispatch" /\ waWs.state = "inactive" /\ waCfg \in WaConfigs /\ waWs \in WsType
      /\ Selected(waWs) /\ UNCHANGED <<waCfg, waAlarm, waSec, waAccepted>>
  BY Counts DEF PostAuthFirst, ToPostAuth
<1>1. PICK g \in GroupNames \cup {NoGroup}, user, sso, v2 \in BOOLEAN :
       LET T == TypesOf(waWs)
           forced == waCfg.byUrl /\ waReq.url \in {"unknown", "fixed", "config"}
           c == ChosenGroup(waWs, g, forced)
           w == [waWs EXCEPT !.group = c.kept] IN
         /\ forced => g # NoGroup
         /\ (sso \/ v2) => "oidc" \in T
         /\ user => "pass" \in T
         /\ waNamed' = (waNamed \cup {c.kept, c.unlisted}) \ {NoGroup}
         /\ \/ sso /\ oidc_complete_auth(w) /\ waUser' = FALSE
            \/ ~sso /\ AskForHeader(w, v2) /\ waUser' = FALSE
            \/ ~sso /\ RefuseHeader(w, v2) /\ waUser' = FALSE
            \/ /\ ~sso /\ HeaderFits(w, v2) /\ waUser' = user
               /\ \/ "pass" \in T /\ ~user
                     /\ GetAuth(w) /\ waWs' = w /\ UNCHANGED <<waMsg, waInits>>
                  \/ /\ "pass" \in T => user
                     /\ "cert" \in T /\ ~waCfg.certOk
                     /\ FallBack(w) /\ UNCHANGED <<waMsg, waInits>>
                  \/ /\ "pass" \in T => user
                     /\ "cert" \in T => waCfg.certOk
                     /\ SendInit(w, c)
  BY DEF PostAuthFirst
<1> DEFINE forced == waCfg.byUrl /\ waReq.url \in {"unknown", "fixed", "config"}
           c == ChosenGroup(waWs, g, forced)
           w == [waWs EXCEPT !.group = c.kept]
<1>2. c.kept \in Groups /\ c.unlisted \in Groups /\ c.sent \in {NoGroup, c.kept}
  BY <1>0, ChosenFits DEF Groups
<1> HIDE DEF c
<1>3. w \in WsType /\ w.state = waWs.state /\ w.on = waWs.on /\ w.sel = waWs.sel /\ w.group = c.kept
  BY <1>0, <1>2 DEF WsType
<1>4. waNamed' = (waNamed \cup {c.kept, c.unlisted}) \ {NoGroup}
  BY <1>1 DEF c
<1>5. \/ oidc_complete_auth(w) \/ AskForHeader(w, v2) \/ RefuseHeader(w, v2)
      \/ GetAuth(w) /\ waWs' = w /\ UNCHANGED <<waMsg, waInits>>
      \/ FallBack(w) /\ UNCHANGED <<waMsg, waInits>>
      \/ SendInit(w, c)
  BY <1>1 DEF c
<1> HIDE DEF w, forced
<1>6. /\ GroupFits(w.group, waNamed') /\ GroupFits(c.kept, waNamed') /\ GroupFits(c.unlisted, waNamed')
      /\ GroupFits(c.sent, waNamed') /\ Selected(w)
  BY <1>0, <1>2, <1>3, <1>4 DEF GroupFits, Selected
<1>7. waMsg.kind = "init" => GroupFits(waMsg.group, waNamed')
  <2>1. waNamed \subseteq waNamed' \cup {NoGroup}
    BY <1>4
  <2> QED
    BY <2>1, GroupsGrow DEF LoginInv, GroupInv
<1>8. ASSUME waPhase' \in {"idle", "exit", "dispatch"}, waWs' = w, UNCHANGED <<waMsg, waInits>>
      PROVE  LoginInv'
  BY <1>0, <1>3, <1>6, <1>7, <1>8, AnsweredKeeps
<1>9. CASE oidc_complete_auth(w)
  <2>1. waWs' = w
    BY <1>9 DEF oidc_complete_auth
  <2>2. CASE AskSecMod("init", "sso", {"oidc"}, w.group) /\ waInits' = waInits + 1
    <3>1. waPhase' = "secmod" /\ waMsg'.group = w.group
      BY <2>2 DEF AskSecMod
    <3> QED
      BY <1>0, <1>3, <1>6, <2>1, <2>2, <3>1, InitKeeps
  <2>3. CASE Exit /\ UNCHANGED <<waMsg, waInits>>
    BY <1>8, <2>1, <2>3, Ends
  <2> QED
    BY <1>9, <2>2, <2>3 DEF oidc_complete_auth
<1>10. CASE AskForHeader(w, v2) \/ RefuseHeader(w, v2) \/ (GetAuth(w) /\ waWs' = w /\ UNCHANGED <<waMsg, waInits>>)
  <2>1. waWs' = w /\ UNCHANGED <<waMsg, waInits>> /\ (Served \/ Exit \/ GetAuth(w))
    BY <1>10 DEF AskForHeader, RefuseHeader
  <2> QED
    BY <1>8, <2>1, Ends
<1>11. CASE FallBack(w) /\ UNCHANGED <<waMsg, waInits>>
  BY <1>0, <1>3, <1>6, <1>7, <1>11, FallBackKeeps
<1>12. CASE SendInit(w, c)
  <2> DEFINE group == GroupToSend(w, c)
  <2>1. group \in Groups /\ GroupFits(group, waNamed')
    <3>1. auto_select_cert_group \in Groups /\ GroupFits(auto_select_cert_group, waNamed')
      BY <1>0, AutoFits DEF GroupFits
    <3>2. group \in {auto_select_cert_group, c.unlisted, c.sent}
      BY DEF GroupToSend
    <3>3. c.sent \in Groups
      BY <1>2 DEF Groups
    <3> QED
      BY <1>2, <1>6, <3>1, <3>2, <3>3
  <2>2. \/ Served /\ waWs' = w /\ UNCHANGED <<waMsg, waInits>>
        \/ Exit /\ waWs' = w /\ UNCHANGED <<waMsg, waInits>>
        \/ /\ AskSecMod("init", "auth", TypesOf(w), group)
           /\ waWs' = [w EXCEPT !.state = "init", !.group = IF group = NoGroup THEN @ ELSE group]
           /\ waInits' = waInits + 1
    BY <1>12 DEF SendInit
  <2> HIDE DEF group
  <2>3. CASE (Served \/ Exit) /\ waWs' = w /\ UNCHANGED <<waMsg, waInits>>
    BY <1>8, <2>3, Ends
  <2>4. CASE /\ AskSecMod("init", "auth", TypesOf(w), group)
             /\ waWs' = [w EXCEPT !.state = "init", !.group = IF group = NoGroup THEN @ ELSE group]
             /\ waInits' = waInits + 1
    <3> DEFINE gg == IF group = NoGroup THEN w.group ELSE group
    <3>1. gg \in Groups /\ GroupFits(gg, waNamed')
      BY <1>2, <1>3, <1>6, <2>1
    <3>2. waWs' = [w EXCEPT !.state = "init", !.group = gg]
      BY <2>4
    <3> HIDE DEF gg
    <3>3. /\ waWs' \in WsType /\ waWs'.state = "init" /\ waWs'.on = w.on /\ waWs'.sel = w.sel /\ waWs'.group = gg
      BY <1>3, <3>1, <3>2 DEF AuthStates, WsType
    <3>4. waPhase' = "secmod" /\ waMsg'.group = group
      BY <2>4 DEF AskSecMod
    <3> QED
      BY <1>0, <1>3, <2>1, <2>4, <3>1, <3>3, <3>4, InitKeeps
  <2> QED
    BY <2>2, <2>3, <2>4
<1> QED
  BY <1>5, <1>9, <1>10, <1>11, <1>12

\* A login under way goes on, waits, or ends with a cookie.
LEMMA OnKeeps ==
  ASSUME LoginInv, waPhase \in {"dispatch", "secmod"}, waPhase' \in {"secmod", "idle", "dispatch", "exit"},
         waWs' \in WsType, waWs'.on = waWs.on, waWs'.sel = waWs.sel, waWs'.group = waWs.group,
         waPhase' \in Calm => waWs'.state = "cookie" \/ (waWs'.state = "req" /\ waSec' = "open"),
         waWs'.state = "complete" => waWs'.state = waWs.state /\ waWs'.cookie = waWs.cookie,
         waMsg'.kind = "init" => waMsg' = waMsg \/ waMsg'.group = NoGroup,
         UNCHANGED <<waCfg, waAlarm, waInits, waNamed, waAccepted>>
  PROVE  LoginInv'
<1>1. waInits + Rank(waWs.on) <= Len(waCfg.methods) + 1
  BY DEF LoginInv, TriesInv
<1>2. /\ waInits' \in Nat /\ Selected(waWs') /\ waInits' + Rank(waWs'.on) <= Len(waCfg.methods) + 1
  BY <1>1, Counts DEF Selected
<1>3. waPhase' \in Phases \ {"main", "tunnel"}
  BY DEF Phases, Calm
<1>4. GroupFits(waWs'.group, waNamed') /\ (waMsg'.kind = "init" => GroupFits(waMsg'.group, waNamed'))
  BY DEF LoginInv, GroupInv, GroupFits
<1> QED
  BY <1>2, <1>3, <1>4, LoginStep

\* post_auth_handler in the other states, and post_svc_handler.
LEMMA NextKeeps == ASSUME LoginInv, PostAuthNext \/ PostSvc PROVE LoginInv'
<1>0. waWs \in WsType /\ waPhase = "dispatch" /\ UNCHANGED <<waCfg, waAlarm, waSec, waAccepted, waNamed>>
  BY Counts DEF PostAuthNext, PostSvc, ToPostAuth
<1>1. ASSUME Served \/ Exit, UNCHANGED <<waWs, waMsg, waInits>>
      PROVE  LoginInv'
  <2>1. waPhase' = "exit" \/ (waPhase \in Calm /\ waPhase' \in Calm)
    BY <1>0, <1>1, Ends DEF Calm
  <2> QED
    BY <1>0, <1>1, <2>1, SameHeadered, CalmStep
<1>2. CASE PostAuthNext
  <2>1. UNCHANGED waInits
    BY <1>2 DEF PostAuthNext
  <2>2. \/ AskSecMod("cont", "auth", TypesOf(waWs), NoGroup) /\ waWs' = [waWs EXCEPT !.state = "req"]
        \/ Exit /\ UNCHANGED <<waMsg, waWs>>
    BY <1>2 DEF PostAuthNext
  <2>3. CASE AskSecMod("cont", "auth", TypesOf(waWs), NoGroup) /\ waWs' = [waWs EXCEPT !.state = "req"]
    <3>1. waPhase' = "secmod" /\ waMsg'.group = NoGroup
      BY <2>3 DEF AskSecMod
    <3>2. /\ waWs' \in WsType /\ waWs'.state = "req" /\ waWs'.on = waWs.on /\ waWs'.sel = waWs.sel
          /\ waWs'.group = waWs.group
      BY <1>0, <2>3 DEF WsType, AuthStates
    <3> QED
      BY <1>0, <2>1, <3>1, <3>2, OnKeeps DEF Calm
  <2> QED
    BY <1>1, <2>1, <2>2, <2>3
<1>3. CASE PostSvc
  <2> DEFINE T == TypesOf(waWs)
             gg == IF "pass" \in T THEN NoGroup ELSE waWs.group
             S == IF "pass" \in T THEN {"pass"} ELSE {"cert"}
  <2>1. \/ (Served \/ Exit) /\ UNCHANGED <<waWs, waMsg, waInits>>
        \/ /\ waWs.state = "inactive" /\ waWs' = [waWs EXCEPT !.state = "init", !.group = gg]
           /\ AskSecMod("init", "svc", S, NoGroup) /\ waInits' = waInits + 1
    BY <1>3 DEF PostSvc
  <2>2. gg \in Groups /\ GroupFits(gg, waNamed)
    BY <1>0 DEF WsType, LoginInv, GroupInv, GroupFits, Groups
  <2> HIDE DEF gg, S, T
  <2>3. CASE /\ waWs.state = "inactive" /\ waWs' = [waWs EXCEPT !.state = "init", !.group = gg]
             /\ AskSecMod("init", "svc", S, NoGroup) /\ waInits' = waInits + 1
    <3>1. waPhase' = "secmod" /\ waMsg'.group = NoGroup
      BY <2>3 DEF AskSecMod
    <3>2. /\ waWs' \in WsType /\ waWs'.state = "init" /\ waWs'.on = waWs.on /\ waWs'.sel = waWs.sel
          /\ waWs'.group = gg
      BY <1>0, <2>2, <2>3 DEF WsType, AuthStates
    <3>3. GroupFits(waWs'.group, waNamed') /\ GroupFits(waMsg'.group, waNamed')
      BY <1>0, <2>2, <3>1, <3>2 DEF GroupFits
    <3> QED
      BY <1>0, <2>3, <3>1, <3>2, <3>3, InitKeeps
  <2> QED
    BY <1>1, <2>1, <2>3
<1> QED
  BY <1>2, <1>3

\* The answer of sec-mod.
LEMMA ReplyKeeps == ASSUME LoginInv, SecModReply PROVE LoginInv'
<1>0. /\ waWs \in WsType /\ Selected(waWs) /\ waPhase = "secmod"
      /\ UNCHANGED <<waCfg, waAlarm, waAccepted, waNamed, waInits>>
  BY Counts DEF SecModReply
<1>1. NoMsg.kind = "none"
  BY DEF NoMsg
<1>2. PICK r \in {"msg", "ok", "failed", "lost"} :
       /\ waSec' = SecModEntry(r)
       /\ \/ ReplyToLogin(r) /\ waMsg' = NoMsg
          \/ /\ waWs' = [waWs EXCEPT !.sid = TRUE]
             /\ \/ AskSecMod("cont", "svc", waMsg.types, NoGroup)
                \/ Exit /\ waMsg' = NoMsg
          \/ waWs' = GotCookie(waWs) /\ Served /\ waMsg' = NoMsg
          \/ Exit /\ waMsg' = NoMsg /\ UNCHANGED waWs
  BY DEF SecModReply
<1>3. CASE Exit /\ waMsg' = NoMsg /\ UNCHANGED waWs
  BY <1>0, <1>3, Ends, SameHeadered, CalmStep
<1>4. CASE waWs' = GotCookie(waWs) /\ Served /\ waMsg' = NoMsg
  <2>1. /\ waWs' \in WsType /\ waWs'.state = "cookie" /\ waWs'.on = waWs.on /\ waWs'.sel = waWs.sel
        /\ waWs'.group = waWs.group
    BY <1>0, <1>4 DEF GotCookie, WsType, AuthStates
  <2> QED
    BY <1>0, <1>1, <1>4, <2>1, Ends, OnKeeps
<1>5. CASE /\ waWs' = [waWs EXCEPT !.sid = TRUE]
           /\ \/ AskSecMod("cont", "svc", waMsg.types, NoGroup)
              \/ Exit /\ waMsg' = NoMsg
  <2>1. /\ waWs' \in WsType /\ waWs'.state = waWs.state /\ waWs'.on = waWs.on /\ waWs'.sel = waWs.sel
        /\ waWs'.group = waWs.group /\ waWs'.cookie = waWs.cookie
    BY <1>0, <1>5 DEF WsType
  <2>2. waPhase' \in {"secmod", "exit"} /\ waMsg'.kind # "init"
    BY <1>1, <1>5, Ends DEF AskSecMod
  <2>3. waPhase' \notin Calm
    BY <2>2 DEF Calm
  <2> QED
    BY <1>0, <2>1, <2>2, <2>3, OnKeeps
<1>6. CASE ReplyToLogin(r) /\ waMsg' = NoMsg
  <2>1. CASE r = "msg"
    <3>1. waWs' = [waWs EXCEPT !.state = "req", !.sid = TRUE] /\ (waPhase' = "dispatch" \/ Served)
      BY <1>6, <2>1 DEF ReplyToLogin
    <3>2. /\ waWs' \in WsType /\ waWs'.state = "req" /\ waWs'.on = waWs.on /\ waWs'.sel = waWs.sel
          /\ waWs'.group = waWs.group
      BY <1>0, <3>1 DEF WsType, AuthStates
    <3>3. waSec' = "open"
      BY <1>2, <2>1 DEF SecModEntry
    <3> QED
      BY <1>0, <1>1, <1>6, <3>1, <3>2, <3>3, Ends, OnKeeps
  <2>2. CASE r = "ok"
    <3>1. waWs' = GotCookie(waWs) /\ Served
      BY <1>6, <2>2 DEF ReplyToLogin
    <3> QED
      BY <1>4, <1>6, <3>1
  <2>3. CASE r \in {"failed", "lost"}
    <3>1. FallBack(waWs) \/ (Exit /\ UNCHANGED waWs)
      BY <1>6, <2>3 DEF ReplyToLogin
    <3>2. GroupFits(waWs.group, waNamed')
      BY <1>0 DEF LoginInv, GroupInv
    <3>3. CASE FallBack(waWs)
      BY <1>0, <1>1, <1>6, <3>2, <3>3, FallBackKeeps
    <3> QED
      BY <1>3, <1>6, <3>1, <3>3
  <2> QED
    BY <1>2, <2>1, <2>2, <2>3
<1> QED
  BY <1>2, <1>3, <1>4, <1>5, <1>6

\* The cookie and main's answer.
LEMMA CookieKeeps == ASSUME LoginInv, CookieAuthenticate \/ CookieAccepted \/ CookieRefused PROVE LoginInv'
<1>0. waWs \in WsType /\ Selected(waWs) /\ NoMsg.kind = "none" /\ UNCHANGED <<waCfg, waNamed, waInits, waSec>>
  BY Counts DEF CookieAuthenticate, CookieAccepted, CookieRefused, NoMsg
<1>1. "main" \notin Calm /\ "tunnel" \notin Calm /\ "exit" \notin Calm /\ "main" \in Phases /\ "tunnel" \in Phases
      /\ "exit" \in Phases /\ "idle" \in Phases /\ "idle" \in Calm /\ "dispatch" \in Calm
  BY DEF Calm, Phases
<1>2. AfterCookie(waWs) => /\ waPhase' \in {"tunnel", "exit", "idle"}
                           /\ waPhase' \in {"tunnel", "exit"} \/ waAlarm' = waAlarm
  BY Ends DEF AfterCookie
<1>3. GroupFits(waWs.group, waNamed)'  = GroupFits(waWs'.group, waNamed)
  BY <1>0 DEF GroupFits, Eligible, Listed
<1>4. CASE CookieAuthenticate
  <2>1. waPhase = "dispatch" /\ UNCHANGED <<waWs, waAccepted>>
    BY <1>4 DEF CookieAuthenticate
  <2>2. \/ waWs.state = "complete" /\ AfterCookie(waWs) /\ UNCHANGED waMsg
        \/ waWs.cookie # NoCookie /\ waPhase' = "main" /\ waMsg' = [NoMsg EXCEPT !.kind = "cookie"] /\ waAlarm' = waAlarm
        \/ Exit /\ UNCHANGED <<waMsg, waAlarm>>
    BY <1>4 DEF CookieAuthenticate
  <2>3. CASE Exit /\ UNCHANGED <<waMsg, waAlarm>>
    BY <1>0, <2>1, <2>3, Ends, SameHeadered, CalmStep
  <2>4. waMsg'.kind = "init" => waMsg' = waMsg
    BY <2>2 DEF NoMsg
  <2>5. CASE ~(Exit /\ UNCHANGED <<waMsg, waAlarm>>)
    <3>1. waPhase' \in {"tunnel", "exit", "idle", "main"} /\ (waPhase' \in {"tunnel", "exit"} \/ waAlarm' = waAlarm)
      BY <1>2, <2>2, Ends
    <3>2. LoginTypes'
      BY <1>0, <1>1, <2>1, <3>1 DEF LoginInv, LoginTypes
    <3>3. TriesInv'
      BY <1>0, <1>1, <2>1 DEF LoginInv, TriesInv
    <3>4. CookieInv'
      <4>1. waPhase' = "main" => waWs.cookie # NoCookie
        BY <1>2, <2>2, Ends
      <4> QED
        BY <2>1, <4>1 DEF LoginInv, CookieInv, AcceptedCookieKept
    <3>5. GroupInv'
      BY <1>0, <2>1, <2>4 DEF LoginInv, GroupInv, GroupFits, Eligible, Listed
    <3>6. HalfInv'
      BY <1>0, <1>1, <2>1 DEF LoginInv, HalfInv
    <3>7. AlarmUntilTunnel'
      <4>1. CASE waPhase' \in {"tunnel", "exit"}
        BY <4>1 DEF AlarmUntilTunnel
      <4>2. CASE waAlarm' = waAlarm
        BY <1>0, <2>1, <4>2 DEF LoginInv, AlarmUntilTunnel
      <4> QED
        BY <3>1, <4>1, <4>2
    <3> QED
      BY <3>2, <3>3, <3>4, <3>5, <3>6, <3>7 DEF LoginInv
  <2> QED
    BY <2>3, <2>5
<1>5. CASE CookieAccepted
  <2>1. /\ waPhase = "main" /\ waMsg' = NoMsg /\ waAccepted' = waWs.cookie /\ AfterCookie(waWs)
        /\ waWs' = [waWs EXCEPT !.state = "complete", !.sid = TRUE]
    BY <1>5 DEF CookieAccepted
  <2>2. /\ waWs' \in WsType /\ waWs'.state = "complete" /\ waWs'.on = waWs.on /\ waWs'.sel = waWs.sel
        /\ waWs'.group = waWs.group /\ waWs'.cookie = waWs.cookie
    BY <1>0, <2>1 DEF WsType, AuthStates
  <2>3. LoginTypes'
    BY <1>0, <1>1, <1>2, <2>1, <2>2 DEF LoginInv, LoginTypes, Selected
  <2>4. TriesInv'
    BY <1>0, <2>2 DEF LoginInv, TriesInv
  <2>5. CookieInv'
    BY <1>2, <2>1, <2>2 DEF LoginInv, CookieInv, AcceptedCookieKept
  <2>6. GroupInv'
    BY <1>0, <2>1, <2>2 DEF LoginInv, GroupInv, GroupFits, Eligible, Listed
  <2>7. HalfInv'
    BY <2>2 DEF HalfInv
  <2>8. AlarmUntilTunnel'
    BY <1>0, <1>2, <2>1, ZenonT(60) DEF LoginInv, AlarmUntilTunnel
  <2> QED
    BY <2>3, <2>4, <2>5, <2>6, <2>7, <2>8 DEF LoginInv
<1>6. CASE CookieRefused
  <2>1. waMsg' = NoMsg /\ waPhase' = "exit" /\ UNCHANGED <<waWs, waAlarm, waAccepted>>
    BY <1>6, Ends DEF CookieRefused
  <2> QED
    BY <1>0, <2>1, SameHeadered, CalmStep
<1> QED
  BY <1>4, <1>5, <1>6

-----------------------------------------------------------------------------
(* The theorem.                                                             *)

\* The inductive invariant of a connection's login.
THEOREM LoginInvariant == WaSpec => []LoginInv
<1>1. WaInit => LoginInv
  <2> SUFFICES ASSUME WaInit PROVE LoginInv
    OBVIOUS
  <2> DEFINE N == Len(waCfg.methods)
  <2>1. N \in 1..4 /\ waCfg \in WaConfigs /\ waCfg.timeout \in BOOLEAN
    BY WaAssumption DEF WaAssumption, WaInit, MAX_AUTH_METHODS
  <2> HIDE DEF N
  <2>2. waWs = [state |-> "inactive", sel |-> 1, on |-> 1..N, sid |-> FALSE, cookie |-> NoCookie,
                group |-> NoGroup, auth |-> "none", camo |-> FALSE]
    BY DEF WaInit, N
  <2>3. 1 \in Methods /\ 1..N \subseteq Methods /\ 1 \in 1..N
    BY <2>1 DEF Methods, MAX_AUTH_METHODS
  <2>4. /\ waWs \in WsType /\ waWs.on = 1..N /\ waWs.sel = 1 /\ waWs.state = "inactive"
        /\ waWs.group = NoGroup /\ waWs.cookie = NoCookie
    BY <2>2, <2>3 DEF WsType, AuthStates, Groups
  <2>5. Cardinality(1..N) = N
    <3>1. 1 \in Int /\ N \in Int /\ ~(1 > N)
      BY <2>1
    <3>2. Cardinality(1..N) = IF 1 > N THEN 0 ELSE N - 1 + 1
      BY <3>1, FS_Interval
    <3> QED
      BY <2>1, <3>1, <3>2
  <2>6. Rank(waWs.on) = N
    BY <2>3, <2>4, <2>5 DEF Rank
  <2>7. waPhase = "start" /\ waInits = 0 /\ waMsg = NoMsg /\ waAlarm = waCfg.timeout
    BY DEF WaInit
  <2>8. LoginTypes
    BY <2>1, <2>3, <2>4, <2>7 DEF LoginTypes, Selected, Phases, Calm
  <2>9. TriesInv
    BY <2>1, <2>6, <2>7 DEF TriesInv, N
  <2>10. CookieInv /\ GroupInv /\ HalfInv
    BY <2>4, <2>7 DEF CookieInv, AcceptedCookieKept, GroupInv, GroupFits, HalfInv, NoMsg
  <2>11. AlarmUntilTunnel
    BY <2>7 DEF AlarmUntilTunnel
  <2> QED
    BY <2>8, <2>9, <2>10, <2>11 DEF LoginInv
<1>2. LoginInv /\ [WaNext]_wavars => LoginInv'
  <2> SUFFICES ASSUME LoginInv, [WaNext]_wavars PROVE LoginInv'
    OBVIOUS
  <2>1. CASE UNCHANGED wavars
    BY <2>1 DEF wavars, LoginInv, LoginTypes, TriesInv, CookieInv, AcceptedCookieKept, GroupInv,
                GroupFits, Eligible, Listed, HalfInv, AlarmUntilTunnel
  <2> QED
    BY <2>1, CalmSteps, FirstKeeps, NextKeeps, ReplyKeeps, CookieKeeps DEF WaNext
<1> QED
  BY <1>1, <1>2, PTL DEF WaSpec

\* Whatever requests a client sends on a connection, for every configuration of methods and groups:
\* an accepted cookie stays, no more logins are begun than there are methods, a group is named or the
\* only one, the second half of a login has a first, and the alarm is armed until the tunnel
\* (post_auth_handler, post_svc_handler, cookie_authenticate_or_exit).
THEOREM LoginsAreInOrder == WaSpec => []LoginInOrder
<1>1. LoginInv => LoginInOrder
  <2> SUFFICES ASSUME LoginInv PROVE LoginInOrder
    OBVIOUS
  <2>1. TriesWithinMethods
    <3>1. waInits + Rank(waWs.on) <= Len(waCfg.methods) + 1
      BY DEF LoginInv, TriesInv
    <3> QED
      BY <3>1, Counts DEF TriesWithinMethods
  <2>2. GroupNamedOrOnly
    BY DEF LoginInv, GroupInv, GroupFits, GroupNamedOrOnly
  <2>3. SecondHalfHasLogin
    BY DEF LoginInv, HalfInv, SecondHalfHasLogin, Calm
  <2> QED
    BY <2>1, <2>2, <2>3 DEF LoginInv, CookieInv, LoginInOrder
<1> QED
  BY <1>1, LoginInvariant, PTL
=============================================================================
