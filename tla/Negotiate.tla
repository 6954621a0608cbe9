------------------------------ MODULE Negotiate ------------------------------
(***************************************************************************)
(* How client and worker agree on DTLS and on compression: the request     *)
(* headers read by header_value_check() (src/worker-http.c) in whatever    *)
(* order the client sends them, the answer of connect_handler() and the    *)
(* keys of setup_dtls_connection() (src/worker-vpn.c).                     *)
(*                                                                         *)
(* The worker keeps one http_req_st for all the requests of a connection:  *)
(* headers of an earlier request are still in force at the CONNECT.  A     *)
(* cipher and a MAC are one algorithm name.  The connection runs over TLS, *)
(* and GnuTLS is new enough not to skip DTLS 1.2 for AnyConnect.           *)
(***************************************************************************)
EXTENDS Integers, Sequences, SequencesExt

CONSTANTS NgConfs,     \* configurations: legacy, psk, udp, compress, tls, prio
          NgEarlier,   \* header sets of an earlier request
          NgOffers     \* header sets of the CONNECT request

VARIABLES ngConf, ngReq, ngLeft, ngEarlier, ngOffer, ngReply, ngDtls, ngPhase

ngvars == <<ngConf, ngReq, ngLeft, ngEarlier, ngOffer, ngReply, ngDtls, ngPhase>>

Suite(n, a, p, m) == [name |-> n, alg |-> a, prio |-> p, dtls12 |-> m]
NoSuite == Suite("none", "none", 0, FALSE)
PskIndicator == "PSK-NEGOTIATE"

\* The tables of known ciphersuites.
ciphersuites ==
  {Suite("OC-DTLS1_2-AES128-GCM", "aes128gcm", 80, FALSE),
   Suite("OC-DTLS1_2-AES256-GCM", "aes256gcm", 90, FALSE),
   Suite("AES256-SHA", "aes256sha", 60, FALSE),
   Suite("AES128-SHA", "aes128sha", 50, FALSE),
   Suite("DES-CBC3-SHA", "3dessha", 1, FALSE)}

ciphersuites12 ==
  {Suite("AES128-GCM-SHA256", "aes128gcm", 50, TRUE),
   Suite("AES256-GCM-SHA384", "aes256gcm", 90, TRUE),
   Suite("ECDHE-RSA-AES128-GCM-SHA256", "aes128gcm", 70, TRUE),
   Suite("ECDHE-RSA-AES256-GCM-SHA384", "aes256gcm", 80, TRUE)}

comp_methods == {"oc-lz4", "lzs"}

\* One token of the list: a better candidate replaces the one found, and one
\* that has the algorithm of the TLS session ends the search.
Better(tls, c, s) ==
  IF c.alg = tls THEN c
  ELSE IF c = NoSuite \/ c.prio < s.prio \/ s.alg = tls THEN s ELSE c

Choose(table, tls, tokens) ==
  FoldLeft(LAMBDA c, t : IF \E s \in table : s.name = t
                         THEN Better(tls, c, CHOOSE s \in table : s.name = t) ELSE c,
           NoSuite, tokens)

\* The compression methods are compared by the priorities in force.
ChooseMethod(prio, tokens) ==
  FoldLeft(LAMBDA c, t : IF t \in comp_methods /\ (c = "none" \/ prio[c] < prio[t])
                         THEN t ELSE c,
           "none", tokens)

\* switch_comp_priority(): the priorities after a "method:priority" option.
switch_comp_priority(prio, method, p) ==
  IF p <= 0 \/ method \notin comp_methods THEN prio ELSE [prio EXCEPT ![method] = p]

NewReq == [psk |-> FALSE, secret |-> FALSE, suite |-> NoSuite,
           comp |-> [dtls |-> "none", cstp |-> "none"]]

UsesPsk(req) == [req EXCEPT !.psk = TRUE, !.secret = TRUE, !.suite = NoSuite]

\* The cases of header_value_check().
MasterSecret(req, conf, v) ==
  IF req.psk \/ ~conf.legacy THEN req ELSE [req EXCEPT !.secret = v = "whole"]

Dtls(req, conf, v) ==
  IF Contains(v, PskIndicator) /\ conf.psk THEN UsesPsk(req)
  ELSE IF req.psk \/ ~conf.legacy \/ req.suite # NoSuite THEN req
  ELSE [req EXCEPT !.suite = Choose(ciphersuites, conf.tls, v)]

\* Mutant: the header without a common suite forgets the one found before.
Dtls12Forgets(req, conf, v) ==
  IF req.psk \/ ~conf.legacy THEN req
  ELSE IF Contains(v, PskIndicator) /\ conf.psk THEN UsesPsk(req)
  ELSE [req EXCEPT !.suite = Choose(ciphersuites12, conf.tls, v)]

Dtls12(req, conf, v) ==
  IF req.psk \/ ~conf.legacy THEN req
  ELSE IF Contains(v, PskIndicator) /\ conf.psk THEN UsesPsk(req)
  ELSE LET s == Choose(ciphersuites12, conf.tls, v)
       IN IF s = NoSuite THEN req ELSE [req EXCEPT !.suite = s]

Encoding(req, conf, channel, v) ==
  IF ~conf.compress THEN req ELSE [req EXCEPT !.comp[channel] = ChooseMethod(conf.prio, v)]

header_value_check(req, conf, h) ==
  CASE h.name = "X-DTLS-Master-Secret" -> MasterSecret(req, conf, h.value)
    [] h.name = "X-DTLS-CipherSuite"   -> Dtls(req, conf, h.value)
    [] h.name = "X-DTLS12-CipherSuite" -> Dtls12(req, conf, h.value)
    [] h.name = "X-DTLS-Accept-Encoding" -> Encoding(req, conf, "dtls", h.value)
    [] h.name = "X-CSTP-Accept-Encoding" -> Encoding(req, conf, "cstp", h.value)

NgInit ==
  /\ ngConf \in NgConfs /\ ngEarlier \in NgEarlier /\ ngOffer \in NgOffers
  /\ ngReq = NewReq
  /\ ngLeft = ngEarlier
  /\ ngReply = "none" /\ ngDtls = "none"
  /\ ngPhase = "earlier"

\* The next header of the request.
Header ==
  /\ \E h \in ngLeft : /\ ngReq' = header_value_check(ngReq, ngConf, h)
                       /\ ngLeft' = ngLeft \ {h}
  /\ UNCHANGED <<ngConf, ngEarlier, ngOffer, ngReply, ngDtls, ngPhase>>

\* The earlier request is answered: http_req_reset() keeps what the headers set.
EarlierDone ==
  /\ ngPhase = "earlier" /\ ngLeft = {}
  /\ ngPhase' = "connect" /\ ngLeft' = ngOffer
  /\ UNCHANGED <<ngConf, ngReq, ngEarlier, ngOffer, ngReply, ngDtls>>

\* What connect_handler() tells of DTLS.
Announced(req, conf) ==
  IF req.psk \/ ~conf.legacy THEN PskIndicator ELSE req.suite.name

ConnectReply ==
  /\ ngPhase = "connect" /\ ngLeft = {}
  /\ IF ngConf.udp /\ ngReq.secret
     THEN ngPhase' = "wait" /\ ngReply' = Announced(ngReq, ngConf)
     ELSE ngPhase' = "tls" /\ UNCHANGED ngReply
  /\ UNCHANGED <<ngConf, ngReq, ngLeft, ngEarlier, ngOffer, ngDtls>>

\* setup_dtls_connection(), once the client's first datagram has arrived.
SetupDtls ==
  /\ ngPhase = "wait"
  /\ LET psk == ngReq.psk
         legacy == ~psk /\ ngConf.legacy /\ ngReq.suite # NoSuite
     IN /\ ngDtls' = IF psk THEN PskIndicator
                     ELSE IF legacy THEN ngReq.suite.name ELSE "none"
        /\ ngPhase' = IF psk \/ legacy THEN "dtls" ELSE "failed"
  /\ UNCHANGED <<ngConf, ngReq, ngLeft, ngEarlier, ngOffer, ngReply>>

NgNext == Header \/ EarlierDone \/ ConnectReply \/ SetupDtls

(***************************************************************************)
(* Properties.                                                             *)
(***************************************************************************)
Offered(name) == {h.value : h \in {g \in ngOffer : g.name = name}}
Tokens(name) == UNION {ToSet(v) : v \in Offered(name)}
Common(table, name) == {s \in table : s.name \in Tokens(name)}
AsksPsk == ngConf.psk /\ (PskIndicator \in Tokens("X-DTLS-CipherSuite")
                 \/ (ngConf.legacy /\ PskIndicator \in Tokens("X-DTLS12-CipherSuite")))

\* The headers of one request give one result in whatever order they come:
\* PSK when it is asked for and configured, else a DTLS 1.2 suite when there
\* is a common one, else an older one (worker-http.c 526-657: each case has
\* to know what the others may already have set).
OrderFree ==
  ngEarlier = {} /\ ngPhase \in {"wait", "tls", "dtls", "failed"} =>
    /\ ngReq.psk = AsksPsk
    /\ ngReq.secret = (AsksPsk \/ (ngConf.legacy
                                   /\ "whole" \in Offered("X-DTLS-Master-Secret")))
    /\ (ngReq.suite # NoSuite) =
         (~AsksPsk /\ ngConf.legacy
          /\ Common(ciphersuites12, "X-DTLS12-CipherSuite")
             \cup Common(ciphersuites, "X-DTLS-CipherSuite") # {})
    /\ ngReq.suite # NoSuite =>
         ngReq.suite.dtls12 = (Common(ciphersuites12, "X-DTLS12-CipherSuite") # {})

\* The suite taken is one the client named; it has the algorithm of the TLS
\* session when any common one has, and is the one the server prefers most
\* when none has (worker-http.c 549-578 and 619-648).
ChosenIsBest ==
  ngEarlier = {} /\ ngReq.suite # NoSuite =>
    LET common == IF ngReq.suite.dtls12 THEN Common(ciphersuites12, "X-DTLS12-CipherSuite")
                  ELSE Common(ciphersuites, "X-DTLS-CipherSuite")
    IN /\ ngReq.suite \in common
       /\ IF \E s \in common : s.alg = ngConf.tls
          THEN ngReq.suite.alg = ngConf.tls
          ELSE \A s \in common : s.prio <= ngReq.suite.prio

\* The DTLS session is set up with what the CONNECT reply announced, PSK or
\* the ciphersuite of that name, and fails only when the reply named none -
\* also when an earlier request of the connection had other headers
\* (worker-vpn.c 2302-2310, 2680-2710 and 384-424 decide separately).
AnnouncedIsSetUp ==
  /\ ngPhase = "dtls" => ngDtls = ngReply
  /\ ngPhase = "failed" => ngReply = "none"

\* What is negotiated is the best that both sides have, whatever the order of the headers,
\* and what the reply announces is what the worker sets up (worker-http.c, worker-vpn.c).
BestIsChosen == OrderFree /\ ChosenIsBest /\ AnnouncedIsSetUp
=============================================================================
