----------------------------- MODULE AuthModules -----------------------------
(***************************************************************************)
(* One login at a sec-mod instance as its authentication module decides it: *)
(* handle_sec_auth_init, handle_sec_auth_cont and the closing of the entry  *)
(* (sec-mod-auth.c), with the modules plain, pam, radius and gssapi (auth/). *)
(* A password is "right" or "wrong"; what the PAM stack, the radius server  *)
(* and the GSS library answer is any answer the code tells apart.           *)
(***************************************************************************)
EXTENDS Integers, Sequences, FiniteSets

CONSTANTS
  AmConfigs,      \* virtual hosts, users and certificates checked
  AmPrompts,      \* texts of prompts; the empty one is ""
  NoName,         \* no group, or no user name
  MaxTries,       \* MAX_PASSWORD_TRIES
  MaxChallenges,  \* MAX_CHALLENGES
  MaxRounds       \* bound on the passwords given in a login

VARIABLES
  amCfg,      \* the configuration of this login
  amStatus,   \* e->status; "none" before the entry, "gone" after it
  amEntry,    \* the entry: passwd_counter, user and group names
  amCtx,      \* e->auth_ctx, the module's context
  amScore,    \* calls of sec_mod_add_score_to_ip
  amLog       \* what the login showed so far (history)

amvars == <<amCfg, amStatus, amEntry, amCtx, amScore, amLog>>

\* The fields of plain_st, pam_st, radius_st and gssapi_st the code decides with.
NoCtx == [live |-> FALSE, state |-> "init", cr |-> "new", crRet |-> "ok", changing |-> FALSE,
          prompt |-> "", prev |-> "", counter |-> 0, retries |-> 0,
          cpass |-> FALSE, challenge |-> FALSE, groups |-> <<>>, user |-> NoName]
NewCtx == [NoCtx EXCEPT !.live = TRUE]

\* A return value of a module with the context and the evidence it leaves.
Result(ret, ctx, seen) == [ret |-> ret, ctx |-> ctx, seen |-> seen]
Log0 == [proved |-> {}, wrong |-> 0, rounds |-> 0, challenges |-> 0, ended |-> "no"]
Proves(f) == [amLog EXCEPT !.proved = @ \cup {f}]
Wrong == [amLog EXCEPT !.wrong = @ + 1]

--------------------------------- (* plain *) -------------------------------
\* plain_auth_init, with read_auth_pass: an unknown user is asked for a password too.
plain_auth_init ==
  LET ctx == [NewCtx EXCEPT !.cpass = amCfg.passwd, !.groups = amCfg.groups]
  IN {IF ~amCfg.passwd /\ amCfg.known /\ ~amCfg.otp THEN Result("ok", ctx, amLog)
      ELSE Result("continue", ctx, amLog)}

\* pctx->retries++ < MAX_PASSWORD_TRIES - 1
TriesLeft(ctx) == ctx.retries < MaxTries - 1

\* Mutant: the one-time password is not asked for after the password.
NeverAsked(ctx) == FALSE

\* The password was right and a one-time password follows.
OtpFollows(ctx) == amCfg.otp /\ ctx.cpass

\* plain_auth_pass: the password first; with an OTP file, then the one-time password.
plain_auth_pass(right) ==
  {IF ~amCfg.known \/ (amCtx.cpass /\ ~right)
   THEN Result(IF TriesLeft(amCtx) THEN "continue" ELSE "fail", [amCtx EXCEPT !.retries = @ + 1], Wrong)
   ELSE IF ~amCtx.cpass /\ ~amCfg.otp THEN Result("fail", amCtx, amLog)
   ELSE IF OtpFollows(amCtx)
   THEN Result("continue", [amCtx EXCEPT !.cpass = FALSE], Proves("password"))
   ELSE IF amCtx.cpass THEN Result("ok", amCtx, Proves("password"))
   ELSE IF right THEN Result("ok", amCtx, Proves("otp"))
   ELSE Result("fail", amCtx, Wrong)}

---------------------------------- (* PAM *) --------------------------------
\* co_auth_user from one co_resume to the next: the stack asks (ocserv_conv), fails, or is
\* content; a password that expired is changed in the same coroutine.  An abort makes
\* ocserv_conv return an error, and a stack that gets one fails.
co_call(ctx, aborted) ==
  LET asks(c) == {[c EXCEPT !.state = "wait", !.crRet = "ok", !.prompt = p, !.cr = "conv"]
                    : p \in AmPrompts}
      fails(c) == {[c EXCEPT !.crRet = "error", !.cr = "ended"]}
      done(c) == {[c EXCEPT !.state = "complete", !.crRet = "ok", !.cr = "ended"]}
      on == [ctx EXCEPT !.state = "init"]
      after(c) == asks(c) \cup fails(c) \cup done(c)
  IN IF ctx.cr = "ended" THEN {ctx}
     ELSE IF aborted THEN fails(ctx)
     ELSE after(on) \cup (IF ctx.changing THEN {} ELSE after([on EXCEPT !.changing = TRUE]))

\* pam_auth_init: the coroutine is created, not run.
pam_auth_init == {Result("continue", NewCtx, amLog)}

\* pam_auth_pass
pam_auth_pass(right) ==
  IF amCtx.state # "wait" THEN {Result("fail", amCtx, amLog)}
  ELSE {IF c.crRet # "ok" THEN Result("fail", c, amLog)
        ELSE IF c.state # "complete" THEN Result("continue", c, amLog)
        ELSE Result("ok", c, Proves("pam"))
        : c \in co_call([amCtx EXCEPT !.crRet = "error"], FALSE)}

\* pam_auth_msg: the first call runs the coroutine to its prompt; the counter given is the
\* one before this prompt was compared with the last.
pam_auth_msg(ctx) ==
  IF ctx.state = "complete" THEN {[ret |-> "ok", ctx |-> ctx, counter |-> 0]}
  ELSE {IF c.crRet # "ok" THEN [ret |-> "fail", ctx |-> c, counter |-> 0]
        ELSE [ret |-> "ok", counter |-> c.counter,
              ctx |-> [c EXCEPT !.counter = IF c.prompt # c.prev THEN @ + 1 ELSE @, !.prev = c.prompt]]
        : c \in IF ctx.state = "init" THEN co_call([ctx EXCEPT !.crRet = "error"], FALSE) ELSE {ctx}}

\* pam_auth_deinit, up to pam_end
pam_auth_deinit(ctx) == IF ctx.state = "wait" THEN co_call(ctx, TRUE) ELSE {ctx}

-------------------------------- (* radius *) -------------------------------
\* What rc_aaa reports and the reply carries (external).
RadiusReplies ==
  [kind : {"accept"}, framed : BOOLEAN, groups : amCfg.replies]
    \cup [kind : {"challenge"}, state : BOOLEAN, prompt : AmPrompts] \cup {[kind |-> "reject"]}

radius_auth_init == {Result("continue", NewCtx, amLog)}

\* The fail label of radius_auth_pass: a second chance only before the first challenge.
RadiusFails(ctx) ==
  Result(IF TriesLeft(ctx) /\ ctx.counter = 0 THEN "continue" ELSE "fail",
         [ctx EXCEPT !.retries = @ + 1], Wrong)

\* radius_auth_pass: the challenge's state goes out with this request and is forgotten.  The
\* groups of a reply are kept even when its service type is then refused.
radius_auth_pass ==
  LET ctx == [amCtx EXCEPT !.challenge = FALSE, !.prompt = ""]
      answer(r) ==
        LET named == [ctx EXCEPT !.groups = @ \o r.groups]
            asked == [ctx EXCEPT !.challenge = r.state, !.prompt = r.prompt]
        IN CASE r.kind = "accept" ->
                  IF r.framed THEN Result("ok", named, Proves("radius")) ELSE RadiusFails(named)
             [] r.kind = "challenge" ->
                  Result(IF r.prompt # "" /\ r.state /\ ctx.counter < MaxChallenges THEN "continue" ELSE "fail",
                         asked, [amLog EXCEPT !.challenges = @ + 1])
             [] r.kind = "reject" -> RadiusFails(ctx)
  IN {answer(r) : r \in RadiusReplies}

\* A challenge with another prompt is a new stage (radius_auth_msg).
Stage(ctx) == IF ctx.prompt # ctx.prev THEN ctx.counter + 1 ELSE ctx.counter

\* radius_auth_msg
radius_auth_msg(ctx) ==
  {IF ctx.challenge
   THEN [ret |-> "ok", counter |-> Stage(ctx), ctx |-> [ctx EXCEPT !.counter = Stage(ctx), !.prev = ctx.prompt]]
   ELSE [ret |-> "ok", counter |-> 0, ctx |-> ctx]}

-------------------------------- (* gssapi *) -------------------------------
\* gss_accept_sec_context, get_name and verify_krb5_constraints on one token: another round, a
\* name (mapped to a local user), no mapping, a ticket too old, or an error.
gss_accept(ctx) ==
  {Result("continue", ctx, amLog), Result("ok", [ctx EXCEPT !.user = amCfg.gssUser], Proves("gss")),
   Result("fail", [ctx EXCEPT !.user = amCfg.gssUser], amLog), Result("fail", ctx, amLog)}

\* gssapi_auth_init: the context is kept unless the token, the name or the mechanism fails.
gssapi_auth_init ==
  {r \in gss_accept(NewCtx) : r.ret = "fail" => r.ctx.user # NoName} \cup {Result("fail", NoCtx, amLog)}

gssapi_auth_pass == gss_accept(amCtx)

----------------------------- (* groups, users *) ---------------------------
\* A group list's answer to the group asked for: {} refuses the login.
FromList(groups, asked) ==
  IF asked # NoName THEN {asked} \cap {groups[k] : k \in DOMAIN groups}
  ELSE IF groups = <<>> THEN {NoName} ELSE {groups[1]}

\* get_user_auth_group: no such account, or too many groups to list, leaves no group.
get_user_auth_group(asked) ==
  IF amCfg.unix = "unknown" \/ (amCfg.unix = "many" /\ asked # NoName) THEN {NoName}
  ELSE FromList(amCfg.groups, asked)

\* plain_auth_group, radius_auth_group, pam_auth_group, gssapi_auth_group
auth_group(ctx) ==
  IF amCfg.method \in {"plain", "radius"} THEN FromList(ctx.groups, amCfg.asked)
  ELSE get_user_auth_group(amCfg.asked)

\* pam_auth_user and gssapi_auth_user name the user; the others leave the name given.
auth_user(ctx, user) ==
  CASE amCfg.method = "gssapi" -> ctx.user [] amCfg.method = "pam" -> amCfg.pamUser [] OTHER -> user

\* check_cert_user_group_status: {} refuses; an entry without a name takes the certificate's.
check_cert_user_group_status(e) ==
  IF ~amCfg.cert THEN {e}
  ELSE IF ~amCfg.tlsOk \/ (amCfg.userOid /\ amCfg.certUser = NoName) THEN {}
  ELSE IF e.user = NoName /\ amCfg.userOid
  THEN {[e EXCEPT !.user = amCfg.certUser,
                  !.group = IF amCfg.certGroups # <<>> /\ amCfg.groupOid /\ @ = NoName
                            THEN amCfg.certGroups[1] ELSE @]}
  ELSE IF amCfg.userOid /\ e.user # amCfg.certUser THEN {}
  ELSE IF amCfg.groupOid /\ \A k \in DOMAIN amCfg.certGroups : amCfg.certGroups[k] # e.group THEN {}
  ELSE {e}

\* check_group
check_group(ctx) ==
  LET fromCert == amCfg.cert /\ amCfg.asked # NoName /\ amCfg.groupOid
      named(g) == IF g = NoName /\ fromCert THEN FromList(amCfg.certGroups, amCfg.asked) ELSE {g}
      entries == {[amEntry EXCEPT !.group = g] : g \in UNION {named(h) : h \in auth_group(ctx)}}
  IN UNION {check_cert_user_group_status(e) : e \in entries}

---------------------------- (* sec-mod's handlers *) -----------------------
auth_msg(ctx) ==
  CASE amCfg.method = "pam" -> pam_auth_msg(ctx)
    [] amCfg.method = "radius" -> radius_auth_msg(ctx)
    [] OTHER -> {[ret |-> "ok", ctx |-> ctx, counter |-> 0]}

allows_retries == amCfg.method \in {"plain", "radius"}

\* The prompt is for another stage than the last one (passwd_retries = 0).
NextStage(counter) == amEntry.counter < counter

\* handle_sec_auth_res for a module that returned r; sent: the reply reached the worker.
handle_sec_auth_res(status, entry, r, sent) ==
  IF r.ret = "fail"
  THEN /\ amStatus' = "failed" /\ amEntry' = entry /\ amCtx' = r.ctx
       /\ amScore' = amScore + 1 /\ amLog' = r.seen
  ELSE \E m \in auth_msg(r.ctx) :
       LET told == [entry EXCEPT !.counter = m.counter]
           accepted == {[e EXCEPT !.counter = m.counter] : e \in check_group(m.ctx)}
       IN /\ amCtx' = m.ctx
          /\ amLog' = r.seen
          /\ amScore' = amScore + (IF r.ret = "continue" /\ m.ret = "ok" /\ status # "init" /\ allows_retries
                                      /\ ~NextStage(m.counter) THEN 1 ELSE 0)
          /\ \/ m.ret # "ok" /\ amStatus' = "failed" /\ amEntry' = entry
             \/ m.ret = "ok" /\ r.ret = "continue" /\ amEntry' = told
                /\ amStatus' = IF sent THEN status ELSE "failed"
             \/ m.ret = "ok" /\ r.ret = "ok" /\ accepted = {} /\ amStatus' = "failed" /\ amEntry' = told
             \/ /\ m.ret = "ok" /\ r.ret = "ok"
                /\ \E e \in accepted : amEntry' = [e EXCEPT !.user = auth_user(m.ctx, @)]
                /\ amStatus' = IF sent THEN "completed" ELSE "failed"

\* handle_sec_auth_init
AmStart ==
  /\ amStatus = "none"
  /\ \E sent \in BOOLEAN, r \in CASE amCfg.method = "plain" -> plain_auth_init
                                  [] amCfg.method = "pam" -> pam_auth_init
                                  [] amCfg.method = "radius" -> radius_auth_init
                                  [] amCfg.method = "gssapi" -> gssapi_auth_init :
       handle_sec_auth_res("init", amEntry, r, sent)
  /\ UNCHANGED amCfg

\* handle_sec_auth_cont; without a password, or in another state, the login fails.
AmPassword ==
  /\ amStatus \in {"init", "cont", "completed", "failed"} /\ amLog.rounds < MaxRounds
  /\ LET log == [amLog EXCEPT !.rounds = @ + 1]
         count(r) == [r EXCEPT !.seen.rounds = @ + 1]
     IN \/ \E sent \in BOOLEAN, right \in BOOLEAN :
             /\ amStatus \in {"init", "cont"}
             /\ \E r \in CASE amCfg.method = "plain" -> plain_auth_pass(right)
                           [] amCfg.method = "pam" -> pam_auth_pass(right)
                           [] amCfg.method = "radius" -> radius_auth_pass
                           [] amCfg.method = "gssapi" -> gssapi_auth_pass :
                  handle_sec_auth_res("cont", amEntry, count(r), sent)
        \/ handle_sec_auth_res(amStatus, amEntry, Result("fail", amCtx, log), TRUE)
  /\ UNCHANGED amCfg

\* handle_sec_auth_ban_ip_reply: main refuses the address.
AmBanned ==
  /\ amStatus \in {"init", "cont", "completed"} /\ amScore > 0
  /\ amStatus' = "failed" /\ UNCHANGED <<amCfg, amEntry, amCtx, amScore, amLog>>

\* sec_auth_user_deinit, when the entry is deleted
AmDelete ==
  /\ amStatus \notin {"none", "gone"} /\ amStatus' = "gone"
  /\ \E c \in IF amCtx.live /\ amCfg.method = "pam" THEN pam_auth_deinit(amCtx) ELSE {amCtx} :
       /\ amLog' = [amLog EXCEPT !.ended = c.cr]
       /\ amCtx' = NoCtx
  /\ UNCHANGED <<amCfg, amEntry, amScore>>

AmInit ==
  /\ amCfg \in AmConfigs /\ amStatus = "none" /\ amCtx = NoCtx /\ amScore = 0 /\ amLog = Log0
  /\ amEntry = [counter |-> 0, group |-> NoName,
                user |-> IF amCfg.method = "gssapi" THEN NoName ELSE amCfg.user]

AmNext == AmStart \/ AmPassword \/ AmBanned \/ AmDelete

------------------------------ (* properties *) -----------------------------
\* A login is complete only when everything its configuration asks for was shown: the password
\* and, with an OTP file, the one-time password after it; the PAM stack content; a framed
\* acceptance of the radius server; a complete GSS context (handle_sec_auth_res, *_auth_pass).
FactorsProved ==
  amStatus = "completed" =>
    CASE amCfg.method = "plain" ->
           /\ amCfg.passwd => "password" \in amLog.proved
           /\ amCfg.otp => "otp" \in amLog.proved
           /\ amCfg.known
      [] amCfg.method = "pam" -> "pam" \in amLog.proved
      [] amCfg.method = "radius" -> "radius" \in amLog.proved
      [] amCfg.method = "gssapi" -> "gss" \in amLog.proved

\* No login outlives MAX_PASSWORD_TRIES wrong answers (plain_auth_pass, radius_auth_pass).
TriesBounded == amLog.wrong <= MaxTries /\ (amStatus \in {"init", "cont", "completed"} => amLog.wrong < MaxTries)

\* Every wrong password of a module with retries costs the address a score, also the last one
\* (handle_sec_auth_res).
WrongIsScored == allows_retries => amScore >= amLog.wrong

\* When a login is deleted in the middle of a PAM conversation, the stack has returned before
\* pam_end is called: the coroutine is never freed while it waits for an answer (pam_auth_deinit).
PamReturned == amLog.ended # "conv"

\* With certificates, the session's group is one the certificate names, and its user the one the
\* certificate names, for the modules that know the user before the check (check_group,
\* check_cert_user_group_status).
CertificateFits ==
  amStatus = "completed" /\ amCfg.cert /\ amCfg.method \in {"plain", "radius"} =>
    /\ amCfg.tlsOk
    /\ amCfg.userOid => amEntry.user = amCfg.certUser
    /\ amCfg.groupOid => \E k \in DOMAIN amCfg.certGroups : amCfg.certGroups[k] = amEntry.group

\* A group asked for is the group of the session, or the backend lists no groups for the user
\* (check_group, *_auth_group).
AskedGroupKept ==
  amStatus = "completed" /\ amCfg.asked # NoName =>
    amEntry.group = amCfg.asked \/ (amEntry.group = NoName /\ amCfg.method \in {"pam", "gssapi"})

\* sec-mod-auth.c:395 scores a password asked for again "if the module allows multiple retries
\* for the password and the password refers to the same stage".
OnlyWrongIsScored == amCfg.method = "plain" /\ amStatus \in {"init", "cont", "completed"} => amScore <= amLog.wrong

\* radius.c:623: a challenge fails once the "max number of password requests exceeded".
ChallengesBounded == amLog.challenges <= MaxChallenges + 1

\* A login is completed only by all it takes, within the tries it has, and each wrong answer
\* costs a score; its user and group fit the certificate and the group that was asked for
\* (handle_sec_auth_res, *_auth_pass, check_group).
LoginEarned ==
  /\ FactorsProved /\ TriesBounded /\ WrongIsScored /\ PamReturned /\ CertificateFits
  /\ AskedGroupKept
=============================================================================
