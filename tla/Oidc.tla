-------------------------------- MODULE Oidc --------------------------------
(***************************************************************************)
(* OpenID Connect logins: the browser login from the form a worker serves   *)
(* (worker-oidc.c) to the session that claims it, and bearer tokens         *)
(* (auth/openidconnect.c), with the provider's metadata and keys as each    *)
(* sec-mod instance cached them.  A random value is the number of its login, *)
(* sealed with its kind and the index of the instance that made it.         *)
(***************************************************************************)
EXTENDS Integers, Sequences, SequencesExt, FiniteSets

CONSTANTS
  Browsers,       \* client addresses
  AssignedTo,     \* the sec-mod instance main gives a worker, by address
  OidcInstances,  \* indices of sec-mod instances
  MaxPending, MaxPendingPerIp,          \* sso_max_pending, sso_max_pending_per_ip
  LoginTimeout, ClaimTimeout,           \* sso_login_timeout, OIDC_CLAIM_TIMEOUT
  MinRefresh,     \* minimum_jwk_refresh_time
  OidcModes,      \* of the configurations checked: "browser", "bearer"
  IdTokens,       \* id tokens the provider may sign
  Documents,      \* metadata documents of the provider
  MaxLogins, MaxClock   \* bounds

Logins == 1..MaxLogins

VARIABLES
  oiMode, oiNow,
  oiPending, oiIps, oiClaims,   \* per instance: the two lists and the counts by address
  oiMeta, oiKeys, oiLoaded,     \* per instance: the cached metadata, keys, load time
  oiProvider,     \* the provider's document and signing key
  oiMade,         \* logins started, with their instance
  oiBook,         \* per login: exchanges, sessions, time of completion, user (history)
  oiRefused,      \* the last form was refused, with the requests then alive (history)
  oiTried         \* per instance: when keys were last asked for, and the time before (history)

oivars == <<oiMode, oiNow, oiPending, oiIps, oiClaims, oiMeta, oiKeys, oiLoaded,
            oiProvider, oiMade, oiBook, oiRefused, oiTried>>
tables == <<oiPending, oiIps, oiClaims>>
metadata == <<oiMeta, oiKeys, oiLoaded, oiTried>>

Sealed(label, l) == [label |-> label, inst |-> oiMade[l], login |-> l]

\* oidc_sealed_token_check, at instance n: the tag covers the label and the index.
oidc_sealed_token_check(n, label, value) == value.label = label /\ value.inst = n

------------------------------- (* tables *) -------------------------------
Late(e) == e.expires <= oiNow

\* The entries left when the late ones at the head are dropped.
FromFirstFresh(list) ==
  LET fresh == {k \in DOMAIN list : ~Late(list[k])}
  IN IF fresh = {} THEN <<>>
     ELSE SubSeq(list, CHOOSE k \in fresh : \A j \in fresh : k <= j, Len(list))

\* oidc_sso_pending_del, for each entry of gone: a count that falls to 0 is freed.
Uncount(ips, gone) ==
  [a \in Browsers |-> ips[a] - Len(SelectSeq(gone, LAMBDA e : e.ip = a))]

\* oidc_sso_state_expire at instance n, then the entry of login l leaves both tables.
AfterExpiry(n) ==
  LET left == FromFirstFresh(oiPending[n])
  IN [pending |-> left,
      ips |-> Uncount(oiIps[n], SubSeq(oiPending[n], 1, Len(oiPending[n]) - Len(left))),
      claims |-> FromFirstFresh(oiClaims[n])]

Find(list, l) == {k \in DOMAIN list : list[k].login = l}

\* oidc_sso_state_take.
TakePending(t, l) ==
  LET k == CHOOSE k \in Find(t.pending, l) : TRUE
  IN [t EXCEPT !.pending = RemoveAt(@, k), !.ips = Uncount(@, <<t.pending[k]>>)]

\* Mutant: the completed login stays for another claim.
ClaimLeft(t, l) == t

\* oidc_sso_claim_take: a token is never accepted twice.
TakeClaim(t, l) ==
  LET k == CHOOSE k \in Find(t.claims, l) : TRUE IN [t EXCEPT !.claims = RemoveAt(@, k)]

Store(n, t) ==
  /\ oiPending' = [oiPending EXCEPT ![n] = t.pending]
  /\ oiIps' = [oiIps EXCEPT ![n] = t.ips]
  /\ oiClaims' = [oiClaims EXCEPT ![n] = t.claims]

\* oidc_sso_pending_add: room overall, and for the address.
MayAdd(t, ip) == Len(t.pending) < MaxPending /\ t.ips[ip] < MaxPendingPerIp

BeforeNew(n) == AfterExpiry(n)

\* The requests that have not expired, of all addresses and of one.
Alive(n, ip) ==
  LET live == SelectSeq(oiPending[n], LAMBDA e : ~Late(e))
  IN [all |-> Len(live), own |-> Len(SelectSeq(live, LAMBDA e : e.ip = ip))]

\* oidc_sso_start: the pending request of a login form; what
\* follows may fail, and takes it back.
oidc_sso_start(n, ip, key, done) ==
  LET l == Len(oiMade) + 1
      t == BeforeNew(n)
      e == [login |-> l, ip |-> ip, key |-> key, expires |-> oiNow + LoginTimeout]
  IN /\ oiMode = "browser" /\ oiMeta[n].issuer # "none" /\ oiMeta[n].authorization
     /\ MayAdd(t, ip) => l <= MaxLogins
     /\ IF MayAdd(t, ip) /\ done
        THEN /\ Store(n, [t EXCEPT !.pending = Append(@, e), !.ips[ip] = @ + 1])
             /\ oiMade' = Append(oiMade, n)
        ELSE Store(n, t) /\ UNCHANGED oiMade
     /\ oiRefused' = IF MayAdd(t, ip) THEN {} ELSE {Alive(n, ip)}
     /\ UNCHANGED <<oiMode, oiNow, oiBook, oiProvider, metadata>>

\* oidc_get_login_url: the worker asks the instance that main assigned it; the method is
\* the one of the virtual host (find_sso_module).
oidc_get_login_url(ip, key, done) == oidc_sso_start(AssignedTo[ip], ip, key, done)

---------------------------- (* verification *) ----------------------------
\* oidc_verify_lifetime: offsets to the current time; nbf may be absent.
oidc_verify_lifetime(tok) ==
  /\ tok.nbf # "malformed"
  /\ tok.hasExp /\ tok.hasIat
  /\ tok.nbf = "absent" \/ tok.nbf = "past"
  /\ tok.exp >= 0

\* oidc_verify_issuer_audience, by the issuer cached now.
oidc_verify_issuer_audience(n, tok) ==
  /\ oiMeta[n].issuer # "none" /\ tok.iss = oiMeta[n].issuer
  /\ "us" \in tok.aud
  /\ tok.azp = "absent" => Cardinality(tok.aud) = 1
  /\ tok.azp \in {"absent", "us"}

\* The nonce of the request, where there is one.
NonceFits(tok, l) == l # 0 => tok.nonce = "own"

\* oidc_verify_token for login l (0: a bearer token), the signature being good.
ClaimsHold(n, tok, l) ==
  /\ oidc_verify_lifetime(tok)
  /\ tok.required
  /\ l # 0 => oidc_verify_issuer_audience(n, tok)
  /\ NonceFits(tok, l)
  /\ tok.user # "none"

\* The key that signed the token, as the provider knows it now or knew it before.
SignedBy(tok) == IF tok.old THEN oiProvider.key - 1 ELSE oiProvider.key

\* oidc_fetch_oidc_keys: how far it gets. Metadata are replaced before the keys are there.
oidc_fetch_oidc_keys(n, got) ==
  /\ oiMeta' = IF got = "nothing" THEN oiMeta
               ELSE [oiMeta EXCEPT ![n] = oiProvider.doc]
  /\ IF got = "all"
     THEN /\ oiKeys' = [oiKeys EXCEPT ![n] = {oiProvider.key}]
          /\ oiLoaded' = [oiLoaded EXCEPT ![n] = oiNow]
     ELSE UNCHANGED <<oiKeys, oiLoaded>>
  /\ oiTried' = [oiTried EXCEPT ![n] = [last |-> oiNow, before |-> @.last]]

\* The downloads of oidc_fetch_json_from_uri: the first fails or its document has no
\* jwks_uri, the second fails, or both are there.
Downloads == {"nothing", "document", "all"}

\* oidc_verify_signature where the key is not known: new keys may be asked for, and the
\* token fails all the same.
UnknownKey(n) ==
  IF oiNow - oiLoaded[n] > MinRefresh
  THEN \E got \in Downloads : oidc_fetch_oidc_keys(n, got)
  ELSE UNCHANGED metadata

KeyKnown(n, tok) == SignedBy(tok) \in oiKeys[n]
Verified(n, tok, l) == KeyKnown(n, tok) /\ tok.signed /\ ClaimsHold(n, tok, l)

------------------------------ (* callback *) ------------------------------
\* The request is taken whatever the outcome.
TakeRequest(n, t, l, ok) == TakePending(t, l)

\* The entry of a completed login.
Completed(e, tok) == [login |-> e.login, ip |-> e.ip, user |-> tok.user,
                      groups |-> tok.groups, expires |-> oiNow + ClaimTimeout]

\* oidc_token_exchange: the provider answers with tokens, or not.
oidc_token_exchange(n, answered) == oiMeta[n].token /\ answered

\* oidc_encrypt_for_client, where the client drives a browser of its own.
oidc_encrypt_for_client(key) == key # "unusable"

\* oidc_sso_finish: the provider answers the exchange, or not; a token is handed over if it verifies and, for
\* an external browser, the client's key is usable.
oidc_sso_finish(n, value, answered, tok) ==
  LET l == value.login
      t == AfterExpiry(n)
  IN /\ oidc_sealed_token_check(n, "state", value)
     /\ IF Find(t.pending, l) = {}
        THEN Store(n, t) /\ UNCHANGED <<oiBook, metadata>>
        ELSE LET e == t.pending[CHOOSE k \in Find(t.pending, l) : TRUE]
                 asked == oidc_token_exchange(n, answered)
                 ok == asked /\ Verified(n, tok, l) /\ oidc_encrypt_for_client(e.key)
                 left == TakeRequest(n, t, l, ok)
             IN /\ Store(n, IF ok THEN [left EXCEPT !.claims = Append(@, Completed(e, tok))]
                            ELSE left)
                /\ oiBook' = [oiBook EXCEPT ![l].exchanges = @ + (IF oiMeta[n].token THEN 1 ELSE 0),
                                ![l].done = IF ok THEN oiNow ELSE @,
                                ![l].proof = IF ok THEN {tok} ELSE @]
                /\ IF asked /\ ~KeyKnown(n, tok) THEN UnknownKey(n) ELSE UNCHANGED metadata
     /\ UNCHANGED <<oiMode, oiNow, oiProvider, oiMade, oiRefused>>

\* oidc_value_sec_mod_instance_index: the browser may reach any worker.
oidc_value_sec_mod_instance_index(value) == value.inst

\* get_oidc_callback_handler: the callback goes to the instance that the state names.
get_oidc_callback_handler(value, answered, tok) ==
  oidc_sso_finish(oidc_value_sec_mod_instance_index(value), value, answered, tok)

\* oidc_auth_init with the token of a browser login, from oidc_complete_auth, then
\* oidc_auth_group: without a group asked for none is given.
ClaimLogin(value, group) ==
  LET n == oidc_value_sec_mod_instance_index(value)
      l == value.login
      t == AfterExpiry(n)
      hit == Find(t.claims, l)
  IN /\ oiMode = "browser"
     /\ IF ~oidc_sealed_token_check(n, "token", value)
        THEN UNCHANGED <<tables, oiBook>>
        ELSE IF hit = {} THEN Store(n, t) /\ UNCHANGED oiBook
        ELSE LET e == t.claims[CHOOSE k \in hit : TRUE]
             IN /\ Store(n, TakeClaim(t, l))
                /\ oiBook' = IF group \in {"", e.groups}
                             THEN [oiBook EXCEPT ![l].sessions = @ + 1, ![l].at = oiNow,
                                                 ![l].user = e.user]
                             ELSE oiBook
     /\ UNCHANGED <<oiMode, oiNow, oiProvider, oiMade, oiRefused, metadata>>

\* oidc_auth_init with a bearer token: only its effect on the keys lasts.
BearerToken(ip, tok) ==
  LET n == AssignedTo[ip]
  IN /\ oiMode = "bearer" /\ ~KeyKnown(n, tok)
     /\ UnknownKey(n)
     /\ UNCHANGED <<oiMode, oiNow, oiProvider, oiMade, oiBook, oiRefused, tables>>

OiTick ==
  /\ oiNow < MaxClock
  /\ oiNow' = oiNow + 1
  /\ UNCHANGED <<oiMode, tables, metadata, oiProvider, oiMade, oiBook, oiRefused>>

\* The provider signs with a new key, or publishes another document.
ProviderChanges ==
  /\ \/ oiProvider.key < 2 /\ oiProvider' = [oiProvider EXCEPT !.key = 2]
     \/ \E d \in Documents \ {oiProvider.doc} : oiProvider' = [oiProvider EXCEPT !.doc = d]
  /\ UNCHANGED <<oiMode, oiNow, tables, metadata, oiMade, oiBook, oiRefused>>

\* oidc_vhost_init: without the keys, or in browser mode without the endpoints, the
\* server does not start.
Complete(doc) == doc.issuer # "none" /\ doc.authorization /\ doc.token

OiInit ==
  /\ oiMode \in OidcModes /\ oiNow = 0
  /\ oiPending = [n \in OidcInstances |-> <<>>] /\ oiClaims = [n \in OidcInstances |-> <<>>]
  /\ oiIps = [n \in OidcInstances |-> [a \in Browsers |-> 0]]
  /\ \E d \in Documents :
       /\ Complete(d) /\ oiProvider = [doc |-> d, key |-> 1]
       /\ oiMeta = [n \in OidcInstances |-> d]
  /\ oiKeys = [n \in OidcInstances |-> {1}] /\ oiLoaded = [n \in OidcInstances |-> 0]
  /\ oiMade = <<>> /\ oiRefused = {}
  /\ oiBook = [l \in Logins |-> [exchanges |-> 0, sessions |-> 0, done |-> 0, at |-> 0,
                                 user |-> "none", proof |-> {}]]
  /\ oiTried = [n \in OidcInstances |-> [last |-> 0, before |-> -MinRefresh - 1]]

OiNext ==
  \/ \E ip \in Browsers, key \in {"none or usable", "unusable"}, done \in BOOLEAN :
       oidc_get_login_url(ip, key, done)
  \/ \E l \in DOMAIN oiMade, tok \in IdTokens : get_oidc_callback_handler(Sealed("state", l), TRUE, tok)
  \/ \E l \in DOMAIN oiMade :
       get_oidc_callback_handler(Sealed("state", l), FALSE, CHOOSE tok \in IdTokens : TRUE)
  \/ \E l \in DOMAIN oiMade, label \in {"state", "token"}, g \in {"", "staff"} :
       ClaimLogin(Sealed(label, l), g)
  \/ \E ip \in Browsers, tok \in IdTokens : BearerToken(ip, tok)
  \/ OiTick
  \/ ProviderChanges

-----------------------------------------------------------------------------
\* The count of an address is the number of its pending requests, through expiry,
\* callbacks and forms that fail half way, and no limit is exceeded
\* (openidconnect.c:402, openidconnect.c:413).
PendingCountsExact ==
  \A n \in OidcInstances :
    /\ Len(oiPending[n]) <= MaxPending
    /\ \A a \in Browsers :
         /\ oiIps[n][a] = Len(SelectSeq(oiPending[n], LAMBDA e : e.ip = a))
         /\ oiIps[n][a] <= MaxPendingPerIp

\* A form is refused only while the limit is taken up by requests that have not expired:
\* "forms beyond either limit are refused, and accepted again once the pending requests
\* expire" (openidconnect.c:523, doc/requirements/internal/authentication.md:1260).
RefusedOnlyWhenFull ==
  \A r \in oiRefused : r.all >= MaxPending \/ r.own >= MaxPendingPerIp

\* A state reaches the provider once and a login gives one session at most, however
\* often the callback and the token are presented (openidconnect.c:1299,
\* openidconnect.c:596).
OneExchangeOneSession ==
  \A l \in Logins : oiBook[l].exchanges <= 1 /\ oiBook[l].sessions <= 1

\* A session is claimed within OIDC_CLAIM_TIMEOUT of the completion of its login,
\* although late entries are only looked for at the head of a list
\* (openidconnect.c:423, openidconnect.c:1391).
ClaimedInTime ==
  \A l \in Logins : oiBook[l].sessions > 0 => oiBook[l].at < oiBook[l].done + ClaimTimeout

\* The identity of a session is that of a token the provider issued for this very
\* request: right nonce, audience and issuer, not expired (openidconnect.c:2134,
\* openidconnect.c:1823).
SessionProved ==
  \A l \in Logins : oiBook[l].sessions > 0 =>
    \E tok \in oiBook[l].proof :
      /\ tok.user = oiBook[l].user /\ tok.user # "none"
      /\ tok.nonce = "own" /\ "us" \in tok.aud /\ tok.azp # "them" /\ tok.exp >= 0
      /\ \E d \in Documents : tok.iss = d.issuer

\* "to avoid a refresh storm from repeated requests with an unknown/forged kid" keys are
\* asked for once in minimum_jwk_refresh_time (openidconnect.c:2046,
\* doc/requirements/internal/authentication.md:1090). It does not hold: a fetch that
\* fails leaves last_jwks_load_time.
NoRefreshStorm ==
  \A n \in OidcInstances : oiTried[n].last - oiTried[n].before > MinRefresh

\* A login at the provider becomes at most one session, of the client that asked for it and
\* in time; the limits count exactly the logins that wait (openidconnect.c:359-620, 1206-1405).
OneLoginOneSession ==
  /\ PendingCountsExact /\ OneExchangeOneSession /\ ClaimedInTime /\ SessionProved
  /\ RefusedOnlyWhenFull
=============================================================================
