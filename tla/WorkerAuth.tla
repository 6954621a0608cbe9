----------------------------- MODULE WorkerAuth -----------------------------
(* The HTTP side of a worker, from the TLS handshake to the CONNECT that     *)
(* turns the connection into a tunnel: the request loop of vpn_server(), the *)
(* headers that change the state (worker-http.c), the login handlers         *)
(* (worker-auth.c, worker-svc.c) and the cookie exchange with main.          *)
(* A request is read in two steps, headers and then handler, and a handler   *)
(* that asks sec-mod or main waits for the answer, so that the alarm of      *)
(* auth-timeout can fall between any two of them.  The answers of sec-mod    *)
(* and of main are external.  Texts, forms and replies are left out.         *)
EXTENDS Naturals, Sequences, FiniteSets

CONSTANTS WaConfigs,    \* the configurations examined
          GroupNames,   \* the names a client may send as its group
          NoGroup,      \* no group: the empty string
          MaxRequests   \* MAX_HTTP_REQUESTS

AuthTypes == {"pass", "cert", "gss", "oidc"}
MAX_AUTH_METHODS == 4

ASSUME WaAssumption ==
  /\ NoGroup \notin GroupNames
  /\ \A c \in WaConfigs :
       /\ c.methods \in Seq(SUBSET AuthTypes) /\ Len(c.methods) \in 1..MAX_AUTH_METHODS
       /\ c.certGroups \subseteq GroupNames /\ IsFiniteSet(c.certGroups)
       /\ \A g \in DOMAIN c.friendly : c.friendly[g] \in GroupNames
       /\ c.timeout \in BOOLEAN

VARIABLES waCfg,      \* the configuration of the vhost and the client's certificate
          waPhase,    \* what the worker does
          waWs,       \* the fields of worker_st that outlive a request
          waReq,      \* the request being handled: method and URL
          waUser,     \* post_auth_handler's username # NULL
          waLeft,     \* requests_left
          waAlarm,    \* the alarm of auth-timeout is set
          waMsg,      \* the message sec-mod or main is to answer
          waSec,      \* external: sec-mod's entry for this worker
          waAccepted, \* ghost: the cookie that main accepted
          waNamed,    \* ghost: the groups the client named, resolved
          waInits     \* ghost: the AUTH_INIT messages sent

wavars == <<waCfg, waPhase, waWs, waReq, waUser, waLeft, waAlarm, waMsg, waSec,
            waAccepted, waNamed, waInits>>

AuthStates == {"inactive", "init", "req", "cookie", "complete"}
NoCookie == "none"
NoReq == [method |-> "none", url |-> "none"]
NoMsg == [kind |-> "none", via |-> "none", types |-> {}, group |-> NoGroup]

TypesOf(w) == waCfg.methods[w.sel]
BelowCookie(w) == w.state \in {"inactive", "init", "req"}

\* ws_switch_auth_to: keep the selected method when it is enabled and of the
\* wanted type, otherwise the first enabled one of that type, if there is one.
ws_switch_auth_to(w, type) ==
  LET fit == {i \in w.on : type \in waCfg.methods[i]} IN
    IF w.sel \in fit \/ fit = {} THEN w
    ELSE [w EXCEPT !.sel = CHOOSE i \in fit : \A j \in fit : i <= j]

\* ws_switch_auth_to_next: the selected method is disabled whether or not
\* another one is left.  A result whose method did not change is its failure.
ws_switch_auth_to_next(w) ==
  LET others == w.on \ {w.sel} IN
    IF others = {} THEN [w EXCEPT !.on = others]
    ELSE [w EXCEPT !.on = others, !.sel = CHOOSE i \in others : \A j \in others : i <= j]

-----------------------------------------------------------------------------
(* Groups *)

Listed(g) == waCfg.list = {} \/ g \in waCfg.list

\* resolve_selected_group: any name without a select-group list, otherwise a
\* listed value or the friendly name of one.
resolve_selected_group(g) ==
  IF Listed(g) THEN g
  ELSE IF g \in DOMAIN waCfg.friendly THEN waCfg.friendly[g] ELSE NoGroup

\* auto_select_cert_group: the only eligible group of the certificate.
Eligible == {g \in waCfg.certGroups : Listed(g)}

auto_select_cert_group ==
  IF Cardinality(Eligible) = 1 THEN CHOOSE g \in Eligible : TRUE ELSE NoGroup

-----------------------------------------------------------------------------
(* How a handler ends *)

Exit == /\ waPhase' = "exit"
        /\ UNCHANGED <<waLeft, waReq>>

\* fn() == 0 on a connection that is kept alive goes to restart, which counts
\* the request; anything else, a failed write or HTTP/1.0, ends the worker.
Served == \/ /\ waLeft > 0
             /\ waPhase' = "idle" /\ waLeft' = waLeft - 1
             /\ waReq' = NoReq
          \/ Exit

\* get_auth_handler2: with GSSAPI selected and an Authorization header at hand
\* the form is not sent, the request is handled as a login.
GetAuth(w) ==
  IF "gss" \in TypesOf(w) /\ BelowCookie(w) /\ w.auth # "none"
  THEN /\ waPhase' = "dispatch" /\ waReq' = [method |-> "POST", url |-> "auth"]
       /\ UNCHANGED waLeft
  ELSE Served

AskSecMod(kind, via, types, group) ==
  /\ waMsg' = [kind |-> kind, via |-> via, types |-> types, group |-> group]
  /\ waPhase' = "secmod"
  /\ UNCHANGED <<waLeft, waReq>>

-----------------------------------------------------------------------------
(* Requests *)

WaInit ==
  /\ waCfg \in WaConfigs
  /\ waPhase = "start"
  /\ waWs = [state |-> "inactive", sel |-> 1, on |-> 1 .. Len(waCfg.methods), sid |-> FALSE,
             cookie |-> NoCookie, group |-> NoGroup, auth |-> "none", camo |-> FALSE]
  /\ waReq = NoReq /\ waUser = FALSE /\ waLeft = MaxRequests
  /\ waAlarm = waCfg.timeout
  /\ waMsg = NoMsg /\ waSec = "none"
  /\ waAccepted = NoCookie /\ waNamed = {} /\ waInits = 0

\* From the PROXY header to the end of the TLS handshake; a verified
\* certificate selects the certificate method.
Handshake ==
  /\ waPhase = "start"
  /\ \/ Exit /\ UNCHANGED waWs
     \/ /\ waPhase' = "idle" /\ waLeft' = waLeft - 1 /\ UNCHANGED waReq
        /\ waWs' = IF waCfg.certOk THEN ws_switch_auth_to(waWs, "cert") ELSE waWs
  /\ UNCHANGED <<waCfg, waUser, waAlarm, waMsg, waSec, waAccepted, waNamed, waInits>>

\* HEADER_COOKIE, webvpn=: a cookie of the right size is kept until main has
\* accepted one.  A cookie that does not decode only forgets the held one.
ReceiveCookie(w, c) ==
  IF w.state = "complete" \/ c = "none" THEN w
  ELSE IF c = "good" THEN [w EXCEPT !.cookie = "client", !.state = "cookie"]
  ELSE [w EXCEPT !.cookie = NoCookie]

\* HEADER_SUPPORT_SPNEGO, and the fallback of http_header_complete_cb for a
\* client that comes back without it.
ReceiveSpnego(w, spnego) ==
  LET certUser == "cert" \in TypesOf(w) /\ waCfg.certOk
      taken == IF spnego /\ ~certUser THEN ws_switch_auth_to(w, "gss") ELSE w
      set == spnego /\ ~certUser IN
    IF "gss" \in TypesOf(taken) /\ taken.state = "inactive" /\ ~set
    THEN ws_switch_auth_to_next(taken) ELSE taken

\* check_camouflage_url, asked for GET and POST until it has passed once.
Camouflage(w, method, secret) ==
  [w EXCEPT !.camo = @ \/ (method \in {"GET", "POST"} /\ (secret \/ ~BelowCookie(w)))]

\* The request line and the headers.  http_req_reset() does not clear the
\* Authorization header of an earlier request.
Headers ==
  /\ waPhase = "idle"
  /\ \E method \in {"GET", "POST", "CONNECT", "other"},
        url \in {"auth", "svc", "config", "fixed", "unknown"},
        cookie \in {"none", "good", "bad"}, spnego, secret \in BOOLEAN,
        auth \in {waWs.auth, "short", "long", "bearer"} :
       LET w0 == [ReceiveSpnego(ReceiveCookie(waWs, cookie), spnego) EXCEPT !.auth = auth]
           w == IF waCfg.camouflage THEN Camouflage(w0, method, secret) ELSE w0 IN
         /\ secret => waCfg.camouflage
         /\ auth = waWs.auth \/ \E i \in DOMAIN waCfg.methods : waCfg.methods[i] \cap {"gss", "oidc"} # {}
         /\ waWs' = w
         /\ IF method = "other"
               \/ (method \in {"GET", "POST"} /\ waCfg.camouflage /\ ~w.camo)
            THEN Exit
            ELSE /\ waPhase' = "dispatch"
                 /\ waReq' = [method |-> method, url |-> url]
                 /\ UNCHANGED waLeft
  /\ waUser' = FALSE
  /\ UNCHANGED <<waCfg, waAlarm, waMsg, waSec, waAccepted, waNamed, waInits>>

\* EOF, a parse error or pipelined data.
PeerLeaves ==
  /\ waPhase = "idle" /\ Exit
  /\ UNCHANGED <<waCfg, waWs, waUser, waAlarm, waMsg, waSec, waAccepted, waNamed, waInits>>

\* GET: the form, or one of the handlers that change nothing; an unknown URL
\* is answered with 404 and the connection is closed.
Get ==
  /\ waPhase = "dispatch" /\ waReq.method = "GET" /\ waReq.url # "config"
  /\ CASE waReq.url = "auth"           -> GetAuth(waWs)
       [] waReq.url = "unknown"        -> Exit
       [] OTHER                        -> Served
  /\ UNCHANGED <<waCfg, waWs, waUser, waAlarm, waMsg, waSec, waAccepted, waNamed, waInits>>

-----------------------------------------------------------------------------
(* The login *)

\* POST requests that reach post_auth_handler: its own URLs, and any other URL
\* without a POST handler while no login is under way.
ToPostAuth == /\ waPhase = "dispatch" /\ waReq.method = "POST"
              /\ waReq.url = "auth" \/ (waReq.url # "svc" /\ waWs.state = "inactive")

PostElsewhere ==
  /\ waPhase = "dispatch" /\ waReq.method = "POST"
  /\ waReq.url \notin {"auth", "svc"} /\ waWs.state # "inactive"
  /\ Exit
  /\ UNCHANGED <<waCfg, waWs, waUser, waAlarm, waMsg, waSec, waAccepted, waNamed, waInits>>

\* The group of a first login request: [group kept in worker_st, group_name of
\* the message, default group asked for, name that is not in the list].
ChosenGroup(w, g, forced) ==
  LET r == IF forced THEN g ELSE resolve_selected_group(g) IN
    CASE g = NoGroup        -> [kept |-> w.group, sent |-> NoGroup, def |-> FALSE, unlisted |-> NoGroup]
      [] g # NoGroup /\ g = waCfg.def ->
                               [kept |-> NoGroup, sent |-> NoGroup, def |-> TRUE, unlisted |-> NoGroup]
      [] OTHER              -> [kept |-> r, sent |-> r, def |-> FALSE,
                                unlisted |-> IF r = NoGroup THEN g ELSE NoGroup]

\* Mutant: the state of the login that failed is kept.
FallbackKeepsState(w) == [ws_switch_auth_to_next(w) EXCEPT !.sid = FALSE]

\* A method the client cannot use is left for the next one, and the login
\* starts again with the form of that one.
Fallback(w) == [ws_switch_auth_to_next(w) EXCEPT !.state = "inactive", !.sid = FALSE]
FallBack(w) ==
  IF Fallback(w).sel = w.sel THEN Exit /\ waWs' = Fallback(w)
  ELSE GetAuth(Fallback(w)) /\ waWs' = Fallback(w)

\* oidc_complete_auth: the token of a finished browser login, sent to the
\* instance it names, with the group chosen earlier.
oidc_complete_auth(w) ==
  /\ waWs' = w
  /\ \/ AskSecMod("init", "sso", {"oidc"}, w.group) /\ waInits' = waInits + 1
     \/ Exit /\ UNCHANGED <<waMsg, waInits>>

\* oidc_wants_browser_login.
WantsBrowser(v2) == v2 /\ waCfg.browser /\ waWs.auth # "bearer"

\* The form of the browser login, or the 401 that asks for the header.
AskForHeader(w, v2) ==
  /\ \/ "oidc" \in TypesOf(w) /\ (WantsBrowser(v2) \/ w.auth = "none")
     \/ "gss" \in TypesOf(w) /\ w.auth = "none"
  /\ Served /\ waWs' = w /\ UNCHANGED <<waMsg, waInits>>

\* An Authorization header that is of no use.
RefuseHeader(w, v2) ==
  /\ \/ "oidc" \in TypesOf(w) /\ ~WantsBrowser(v2) /\ w.auth \notin {"none", "bearer"}
     \/ "gss" \in TypesOf(w) /\ w.auth = "short"
  /\ Exit /\ waWs' = w /\ UNCHANGED <<waMsg, waInits>>

HeaderFits(w, v2) ==
  /\ "oidc" \in TypesOf(w) => ~WantsBrowser(v2) /\ w.auth = "bearer"
  /\ "gss" \in TypesOf(w) => w.auth \in {"long", "bearer"}

\* A certificate with groups, none of them chosen: the only eligible one is
\* taken, otherwise the client is asked to select one.
GroupMissing(w, c) == /\ "cert" \in TypesOf(w) /\ waCfg.certGroups # {} /\ ~c.def
                      /\ c.kept = NoGroup /\ c.unlisted = NoGroup
GroupToSend(w, c) == IF GroupMissing(w, c) THEN auto_select_cert_group
                     ELSE IF c.sent = NoGroup THEN c.unlisted ELSE c.sent
SendInit(w, c) ==
  LET group == GroupToSend(w, c) IN
    IF GroupMissing(w, c) /\ group = NoGroup
    THEN Served /\ waWs' = w /\ UNCHANGED <<waMsg, waInits>>
    ELSE \/ /\ AskSecMod("init", "auth", TypesOf(w), group)
            /\ waWs' = [w EXCEPT !.state = "init", !.group = IF group = NoGroup THEN @ ELSE group]
            /\ waInits' = waInits + 1
         \/ \* the certificate has no name, or sec-mod is unreachable
            Exit /\ waWs' = w /\ UNCHANGED <<waMsg, waInits>>

\* post_auth_handler in S_AUTH_INACTIVE, up to the AUTH_INIT message.
PostAuthFirst ==
  /\ ToPostAuth /\ waWs.state = "inactive"
  /\ \E g \in GroupNames \cup {NoGroup}, user, sso, v2 \in BOOLEAN :
       LET T == TypesOf(waWs)
           forced == waCfg.byUrl /\ waReq.url \in {"unknown", "fixed", "config"}
           c == ChosenGroup(waWs, g, forced)
           w == [waWs EXCEPT !.group = c.kept] IN
         /\ forced => g # NoGroup
         /\ (sso \/ v2) => "oidc" \in T
         /\ user => "pass" \in T
         /\ waNamed' = (waNamed \cup {c.kept, c.unlisted}) \ {NoGroup}
         /\ \/ sso /\ oidc_complete_auth(w) /\ waUser' = FALSE
            \/ ~sso /\ AskForHeader(w, v2) /\ waUser' = FALSE
            \/ ~sso /\ RefuseHeader(w, v2) /\ waUser' = FALSE
            \/ /\ ~sso /\ HeaderFits(w, v2) /\ waUser' = user
               /\ \/ "pass" \in T /\ ~user
                     /\ GetAuth(w) /\ waWs' = w /\ UNCHANGED <<waMsg, waInits>>
                  \/ /\ "pass" \in T => user
                     /\ "cert" \in T /\ ~waCfg.certOk
                     /\ FallBack(w) /\ UNCHANGED <<waMsg, waInits>>
                  \/ /\ "pass" \in T => user
                     /\ "cert" \in T => waCfg.certOk
                     /\ SendInit(w, c)
  /\ UNCHANGED <<waCfg, waAlarm, waSec, waAccepted>>

\* post_auth_handler in the other states: AUTH_CONT with a password or with
\* the token of GSSAPI; without one, or past the login, a 401.
PostAuthNext ==
  /\ ToPostAuth /\ waWs.state # "inactive"
  /\ \E password \in BOOLEAN :
       LET T == TypesOf(waWs)
           have == \/ "gss" \in T /\ waWs.auth \in {"long", "bearer"}
                   \/ "gss" \notin T /\ "pass" \in T /\ password IN
         \/ /\ have /\ waWs.state \in {"init", "req"}
            /\ AskSecMod("cont", "auth", T, NoGroup)
            /\ waWs' = [waWs EXCEPT !.state = "req"]
         \/ Exit /\ UNCHANGED <<waMsg, waWs>>
  /\ waUser' = FALSE
  /\ UNCHANGED <<waCfg, waAlarm, waSec, waAccepted, waNamed, waInits>>

\* post_svc_handler and client_auth: both messages in one request.
PostSvc ==
  /\ waPhase = "dispatch" /\ waReq.method = "POST" /\ waReq.url = "svc"
  /\ LET T == TypesOf(waWs) IN
       \/ \* a username or the password is missing
          "pass" \in T /\ Served /\ UNCHANGED <<waWs, waMsg, waInits>>
       \/ Exit /\ UNCHANGED <<waWs, waMsg, waInits>>
       \/ /\ T \cap {"pass", "cert"} # {} /\ waWs.state = "inactive"
          /\ waWs' = [waWs EXCEPT !.state = "init",
                                  !.group = IF "pass" \in T THEN NoGroup ELSE @]
          /\ AskSecMod("init", "svc", IF "pass" \in T THEN {"pass"} ELSE {"cert"}, NoGroup)
          /\ waInits' = waInits + 1
  /\ UNCHANGED <<waCfg, waUser, waAlarm, waSec, waAccepted, waNamed>>

\* External: sec-mod's part.  It asks for more, accepts, refuses, or its answer
\* does not arrive.
SecModEntry(r) == CASE r = "msg" -> "open" [] r = "ok" -> "done"
                    [] r = "failed" -> "none" [] r = "lost" -> waSec

GotCookie(w) == [w EXCEPT !.state = "cookie", !.cookie = "own", !.sid = TRUE]

\* recv_auth_reply and what follows it in post_auth_handler.
ReplyToLogin(r) ==
  CASE r = "msg" ->
         /\ waWs' = [waWs EXCEPT !.state = "req", !.sid = TRUE]
         /\ waUser' = FALSE
         /\ IF waUser /\ "gss" \notin TypesOf(waWs)
            THEN \* the same request a second time, for its password
                 /\ waPhase' = "dispatch" /\ waReq' = [method |-> "POST", url |-> "auth"]
                 /\ UNCHANGED waLeft
            ELSE Served
    [] r = "ok" -> waWs' = GotCookie(waWs) /\ Served /\ UNCHANGED waUser
    [] r \in {"failed", "lost"} ->
         /\ UNCHANGED waUser
         /\ IF "gss" \in TypesOf(waWs) THEN FallBack(waWs)
            ELSE Exit /\ UNCHANGED waWs

SecModReply ==
  /\ waPhase = "secmod"
  /\ \E r \in {"msg", "ok", "failed", "lost"} :
       /\ waSec' = SecModEntry(r)
       /\ CASE waMsg.via = "auth" -> ReplyToLogin(r) /\ waMsg' = NoMsg
            [] waMsg.via = "svc" /\ r = "msg" /\ waMsg.kind = "init" /\ "pass" \in waMsg.types ->
                 /\ waWs' = [waWs EXCEPT !.sid = TRUE]
                 /\ \/ AskSecMod("cont", "svc", waMsg.types, NoGroup)
                    \/ Exit /\ waMsg' = NoMsg
                 /\ UNCHANGED waUser
            [] waMsg.via = "svc" /\ r = "ok" /\ (waMsg.kind = "cont" \/ "pass" \notin waMsg.types) ->
                 waWs' = GotCookie(waWs) /\ Served /\ waMsg' = NoMsg /\ UNCHANGED waUser
            [] waMsg.via = "sso" /\ r = "ok" ->
                 waWs' = GotCookie(waWs) /\ Served /\ waMsg' = NoMsg /\ UNCHANGED waUser
            [] OTHER -> Exit /\ waMsg' = NoMsg /\ UNCHANGED <<waWs, waUser>>
  /\ UNCHANGED <<waCfg, waAlarm, waAccepted, waNamed, waInits>>

-----------------------------------------------------------------------------
(* The cookie and the tunnel *)

AfterCookie(w) ==
  \/ waReq.method = "CONNECT" /\ waPhase' = "tunnel" /\ waAlarm' = FALSE
     /\ UNCHANGED <<waLeft, waReq>>
  \/ waReq.method = "CONNECT" /\ Exit /\ UNCHANGED waAlarm
  \/ waReq.method = "GET" /\ Served /\ UNCHANGED waAlarm

\* cookie_authenticate_or_exit, called for CONNECT and for the configuration
\* file, and auth_cookie.
CookieAuthenticate ==
  /\ waPhase = "dispatch"
  /\ waReq.method = "CONNECT" \/ (waReq.method = "GET" /\ waReq.url = "config")
  /\ \/ waWs.state = "complete" /\ AfterCookie(waWs) /\ UNCHANGED waMsg
     \/ /\ waWs.state = "cookie" /\ waWs.cookie # NoCookie
        /\ "cert" \in TypesOf(waWs) /\ ~waCfg.compat => waCfg.certOk
        /\ waPhase' = "main" /\ waMsg' = [NoMsg EXCEPT !.kind = "cookie"]
        /\ UNCHANGED <<waLeft, waReq, waAlarm>>
     \/ \* a CONNECT to another target, no cookie, no certificate, no write
        Exit /\ UNCHANGED <<waMsg, waAlarm>>
  /\ UNCHANGED <<waCfg, waWs, waUser, waSec, waAccepted, waNamed, waInits>>

\* recv_cookie_auth_reply: main's answer.
CookieAccepted ==
  /\ waPhase = "main" /\ waMsg' = NoMsg
  /\ waWs' = [waWs EXCEPT !.state = "complete", !.sid = TRUE]
  /\ waAccepted' = waWs.cookie
  /\ AfterCookie(waWs)
  /\ UNCHANGED <<waCfg, waUser, waSec, waNamed, waInits>>

CookieRefused ==
  /\ waPhase = "main" /\ waMsg' = NoMsg /\ Exit
  /\ UNCHANGED <<waCfg, waWs, waUser, waAlarm, waSec, waAccepted, waNamed, waInits>>

\* handle_alarm: auth-timeout is over.
WaAlarm ==
  /\ waAlarm /\ waPhase \notin {"tunnel", "exit"}
  /\ waPhase' = "exit"
  /\ UNCHANGED <<waCfg, waWs, waReq, waUser, waLeft, waAlarm, waMsg, waSec, waAccepted,
                 waNamed, waInits>>

WaNext == \/ Handshake \/ Headers \/ PeerLeaves \/ Get \/ PostElsewhere
          \/ PostAuthFirst \/ PostAuthNext \/ PostSvc \/ SecModReply
          \/ CookieAuthenticate \/ CookieAccepted \/ CookieRefused \/ WaAlarm

WaSpec == WaInit /\ [][WaNext]_wavars

-----------------------------------------------------------------------------
(* Properties *)

\* The cookie the worker holds once main has accepted one is the accepted one:
\* a Cookie header of a later request does not replace it.
AcceptedCookieKept ==
  waWs.state = "complete" => waWs.cookie = waAccepted /\ waAccepted # NoCookie

\* A connection begins no more logins at sec-mod than there are methods, whatever the client
\* sends: each fallback disables a method, and the one that is left fails closed.
TriesWithinMethods == waInits <= Len(waCfg.methods)

\* The group of a login was named by the client on this connection, or it is
\* the only one its certificate leaves; an ambiguous choice is never made.
GroupNamedOrOnly ==
  waMsg.kind = "init" /\ waMsg.group # NoGroup =>
    waMsg.group \in waNamed \/ Eligible = {waMsg.group}

\* A worker that will treat the next request as the second half of a login has
\* a login open in sec-mod: no failure leaves the state behind, and no request
\* is taken while a first message is unanswered.
SecondHalfHasLogin ==
  waPhase = "idle" => /\ waWs.state # "init"
                      /\ waWs.state = "req" => waSec = "open"

\* With auth-timeout set a connection does not stay in the HTTP part: until it
\* leaves for the tunnel the alarm that ends it is armed, whatever requests and
\* replies came before.
AlarmUntilTunnel ==
  waCfg.timeout /\ waPhase \notin {"tunnel", "exit"} => waAlarm

\* Requests of one connection, in whatever order they come, build one login: methods are
\* tried in turn, a group is the client's choice, a cookie that was accepted stays, and the
\* connection ends in time unless it becomes a tunnel (worker-auth.c, worker-vpn.c:911).
LoginInOrder ==
  /\ AcceptedCookieKept /\ TriesWithinMethods /\ GroupNamedOrOnly /\ SecondHalfHasLogin
  /\ AlarmUntilTunnel
=============================================================================
