--------------------------- MODULE MCWorkerParts ---------------------------
(***************************************************************************)
(* Parts of the worker and of sec-mod, each in a small instance:           *)
(* authentication over HTTP, the tunnel, compression, header negotiation,  *)
(* OpenID Connect, the authentication modules and accounting. The parts    *)
(* share no state: "unit" is the part that runs, and the others stay in an *)
(* initial state.                                                          *)
(***************************************************************************)
EXTENDS WorkerAuth, Tunnel, Lzs, Negotiate, Oidc, AuthModules, Accounting

VARIABLE unit   \* the part that runs

WaBase == [methods |-> <<{"pass"}>>, list |-> {}, friendly |-> <<>>, def |-> NoGroup, byUrl |-> FALSE,
           certOk |-> FALSE, certGroups |-> {}, compat |-> FALSE, camouflage |-> FALSE,
           timeout |-> TRUE, browser |-> FALSE]
WaSettings ==
  {[WaBase EXCEPT !.methods = <<{"cert"}, {"gss"}, {"pass"}>>, !.compat = TRUE],
   [WaBase EXCEPT !.methods = <<{"cert", "pass"}>>, !.certOk = TRUE, !.certGroups = {"g1", "g2"},
                  !.list = {"g1", "g2"}, !.friendly = [f \in {"f1"} |-> "g1"], !.timeout = FALSE],
   [WaBase EXCEPT !.methods = <<{"cert"}>>, !.certOk = TRUE, !.certGroups = {"g1", "g2"},
                  !.list = {"g1"}, !.def = "g2", !.camouflage = TRUE],
   [WaBase EXCEPT !.methods = <<{"oidc"}, {"pass"}>>, !.browser = TRUE, !.byUrl = TRUE],
   [WaBase EXCEPT !.methods = <<{"pass"}, {"gss"}>>]}

TnTimeouts == {[dpd |-> 1, idle |-> 0, session |-> 0, switch |-> 0],
               [dpd |-> 0, idle |-> 1, session |-> 1, switch |-> 1]}

LzWords == UNION {[1..n -> {0, 1}] : n \in 0..8}
LzRuns == {[i \in 1..n |-> 0] : n \in 9..70}
LzFillers == {<<0, 1>> \o [i \in 1..n |-> 2 + (i % 14)] \o <<0, 1>> \o t : n \in 6..18, t \in {<<>>, <<2>>, <<0, 1, 5>>}}
LzAll == LzWords \cup LzRuns \cup LzFillers

NgPrio == [m \in comp_methods |-> IF m = "oc-lz4" THEN 90 ELSE 80]
NgConfSet ==
  [legacy : BOOLEAN, psk : BOOLEAN, udp : {TRUE}, compress : {TRUE},
   tls : {"aes128gcm", "aes128sha"}, prio : {NgPrio, switch_comp_priority(NgPrio, "lzs", 95)}]
  \cup {[legacy |-> TRUE, psk |-> TRUE, udp |-> FALSE, compress |-> FALSE, tls |-> "aes256gcm", prio |-> NgPrio]}
NgHeader(n, vs) == {{}} \cup {{[name |-> n, value |-> v]} : v \in vs}
NgSecrets == NgHeader("X-DTLS-Master-Secret", {"short", "whole"})
NgOld == NgHeader("X-DTLS-CipherSuite",
  {<<"DES-CBC3-SHA", "AES128-SHA", "AES256-SHA">>, <<"OC-DTLS1_2-AES256-GCM", "OC-DTLS1_2-AES128-GCM">>,
   <<"AES256-SHA", PskIndicator>>, <<"unknown">>})
NgNew == NgHeader("X-DTLS12-CipherSuite",
  {<<"AES256-GCM-SHA384", "AES128-GCM-SHA256", "ECDHE-RSA-AES128-GCM-SHA256">>,
   <<"ECDHE-RSA-AES128-GCM-SHA256", "unknown">>, <<"unknown">>, <<PskIndicator>>})
NgOfferSet ==
  {a \cup b \cup c : a \in NgSecrets, b \in NgOld, c \in NgNew}
  \cup {a \cup b : a \in NgHeader("X-CSTP-Accept-Encoding", {<<"lzs", "oc-lz4">>, <<"none">>}),
                   b \in NgHeader("X-DTLS-Accept-Encoding", {<<"oc-lz4", "lzs">>})}
NgEarlierSet == {{}} \cup NgOld \cup NgSecrets

OiGood == [old |-> FALSE, signed |-> TRUE, nbf |-> "absent", hasExp |-> TRUE, hasIat |-> TRUE,
           exp |-> 0, required |-> TRUE, iss |-> "idp", aud |-> {"us"}, azp |-> "absent",
           nonce |-> "own", user |-> "u1", groups |-> "staff"]
OiTokens == {[OiGood EXCEPT !.aud = {"us", "them"}, !.azp = "us", !.nbf = "past"],
             [OiGood EXCEPT !.nonce = "other", !.user = "u2"], [OiGood EXCEPT !.exp = -1],
             [OiGood EXCEPT !.aud = {"us", "them"}], [OiGood EXCEPT !.old = TRUE]}
OiDocument == [issuer |-> "idp", authorization |-> TRUE, token |-> TRUE]
OiDocuments == {OiDocument, [OiDocument EXCEPT !.issuer = "none"]}
OiAssigned == [a \in Browsers |-> 0]

AmBase == [method |-> "plain", passwd |-> TRUE, known |-> TRUE, otp |-> FALSE, groups |-> <<"g1", "g2">>,
           unix |-> "member", replies |-> {<<"g1">>, <<>>}, user |-> "u1", pamUser |-> "u1", gssUser |-> "u1",
           asked |-> NoName, cert |-> FALSE, tlsOk |-> TRUE, userOid |-> TRUE, certUser |-> "u1",
           groupOid |-> FALSE, certGroups |-> <<"g2", "g3">>]
AmSettings ==
  {[AmBase EXCEPT !.asked = "g2"], [AmBase EXCEPT !.otp = TRUE, !.asked = "g3"],
   [AmBase EXCEPT !.otp = TRUE, !.cert = TRUE],
   [AmBase EXCEPT !.passwd = FALSE, !.otp = TRUE], [AmBase EXCEPT !.passwd = FALSE, !.cert = TRUE, !.certUser = "u2"],
   [AmBase EXCEPT !.known = FALSE, !.passwd = FALSE],
   [AmBase EXCEPT !.cert = TRUE, !.groupOid = TRUE], [AmBase EXCEPT !.cert = TRUE, !.groupOid = TRUE, !.asked = "g2"],
   [AmBase EXCEPT !.method = "pam", !.unix = "many", !.asked = "g3", !.cert = TRUE, !.groupOid = TRUE],
   [AmBase EXCEPT !.method = "pam", !.asked = "g1", !.cert = TRUE, !.tlsOk = FALSE],
   [AmBase EXCEPT !.method = "pam", !.unix = "unknown", !.asked = "g3"],
   [AmBase EXCEPT !.method = "radius", !.asked = "g1"],
   [AmBase EXCEPT !.method = "radius", !.cert = TRUE, !.groupOid = TRUE, !.asked = "g3", !.replies = {<<>>}],
   [AmBase EXCEPT !.method = "gssapi", !.cert = TRUE, !.groupOid = TRUE, !.asked = "g1"],
   [AmBase EXCEPT !.method = "gssapi", !.asked = "g2"]}

Units == {"http", "tunnel", "lzs", "headers", "oidc", "login", "acct"}

BenchInit ==
  /\ unit \in Units
  /\ IF unit = "http" THEN WaInit ELSE waCfg = (CHOOSE c \in WaConfigs : TRUE) /\ WaInit
  /\ IF unit = "tunnel" THEN TnInit ELSE cfg = (CHOOSE c \in Timeouts : TRUE) /\ dtls = [i \in 0..1 |-> [Stopped EXCEPT !.st = "DISABLED"]] /\ TnInit
  /\ IF unit = "lzs" THEN LzInit ELSE lzSrc = <<>> /\ LzInit
  /\ IF unit = "headers" THEN NgInit ELSE ngConf = (CHOOSE c \in NgConfs : TRUE) /\ ngEarlier = {} /\ ngOffer = {} /\ NgInit
  /\ IF unit = "oidc" THEN OiInit ELSE oiMode = "browser" /\ OiInit
  /\ IF unit = "login" THEN AmInit ELSE amCfg = (CHOOSE c \in AmConfigs : TRUE) /\ AmInit
  /\ IF unit = "acct" THEN AcInit ELSE acPersist = FALSE /\ AcInit

BenchNext ==
  \/ unit = "http" /\ WaNext /\ UNCHANGED <<unit, tnvars, lzvars, ngvars,
       oivars, amvars, acvars>>
  \/ unit = "tunnel" /\ TnNext /\ UNCHANGED <<unit, wavars, lzvars, ngvars,
       oivars, amvars, acvars>>
  \/ unit = "lzs" /\ LzNext /\ UNCHANGED <<unit, wavars, tnvars, ngvars,
       oivars, amvars, acvars>>
  \/ unit = "headers" /\ NgNext /\ UNCHANGED <<unit, wavars, tnvars, lzvars,
       oivars, amvars, acvars>>
  \/ unit = "oidc" /\ OiNext /\ UNCHANGED <<unit, wavars, tnvars, lzvars,
       ngvars, amvars, acvars>>
  \/ unit = "login" /\ AmNext /\ UNCHANGED <<unit, wavars, tnvars, lzvars,
       ngvars, oivars, acvars>>
  \/ unit = "acct" /\ AcNext /\ UNCHANGED <<unit, wavars, tnvars, lzvars,
       ngvars, oivars, amvars>>

benchvars == <<unit, wavars, tnvars, lzvars, ngvars, oivars, amvars, acvars>>

BenchSpec == BenchInit /\ [][BenchNext]_benchvars
=============================================================================
