-------------------------- MODULE SecModLinkProofs --------------------------
(***************************************************************************)
(* Commands of main that concern several sec-mod instances, for any number *)
(* of instances, sessions and requests (SecModLink).                       *)
(***************************************************************************)
EXTENDS SecModLink, SequenceTheorems, TLAPS

Ops == {"open", "close", "terminate-session", "terminate-user", "list", "reload"}
AskType ==
  [op : Ops \cup {"idle"}, sid : LkSids \cup {"none"}, user : LkUsers \cup {"none"}, at : Insts,
   found : BOOLEAN, failed : BOOLEAN, answers : SUBSET LkSids, before : SUBSET LkSids]
ReqType == [op : Ops, sid : LkSids \cup {"none"}, user : LkUsers \cup {"none"}]
RepType == [op : Ops, sids : SUBSET LkSids]

LinkTypes ==
  /\ lkDb \in [Insts -> SUBSET LkSids] /\ lkMade \in SUBSET LkSids /\ lkConfig \in [Insts -> Nat]
  /\ lkReqs \in [Insts -> Seq(ReqType)] /\ lkReps \in [Insts -> Seq(RepType)]
  /\ lkCut \in [Insts -> BOOLEAN] /\ lkMain \in AskType /\ lkLast \in AskType
  /\ lkStopping \in BOOLEAN /\ lkOrderly \in BOOLEAN
  /\ lkMain.op = "idle" => lkMain = NoAsk

\* A cookie is known to the instance that made it and to no other.
AtHome == \A i \in Insts : \A s \in lkDb[i] : s \in lkMade /\ LkHome[s] = i

-----------------------------------------------------------------------------
(* What the prover needs to know of records and one-element queues.         *)

\* The request main sends for ask.
ReqOf(ask) == [op |-> ask.op, sid |-> ask.sid, user |-> ask.user]

\* NoAsk and the updates of an ask have their types, and change what they name.
LEMMA AskFields ==
  /\ NoAsk \in AskType /\ NoAsk.op = "idle"
  /\ \A a \in AskType :
       /\ a.op # "idle" => a # NoAsk
       /\ [a EXCEPT !.failed = TRUE] \in AskType
       /\ \A S \in SUBSET LkSids : LET b == [a EXCEPT !.answers = @ \cup S, !.found = @ \/ S # {}]
                                  IN b \in AskType
<1>1. NoAsk \in AskType
  BY LinkAssumption DEF LinkAssumption, NoAsk, AskType, Insts
<1>2. NoAsk.op = "idle"
  BY DEF NoAsk
<1>3. ASSUME NEW a \in AskType
      PROVE  /\ a.op # "idle" => a # NoAsk
             /\ [a EXCEPT !.failed = TRUE] \in AskType
  BY <1>2 DEF AskType
<1>4. ASSUME NEW a \in AskType, NEW S \in SUBSET LkSids
      PROVE  [a EXCEPT !.answers = @ \cup S, !.found = @ \/ S # {}] \in AskType
  <2>1. a.answers \cup S \in SUBSET LkSids /\ (a.found \/ S # {}) \in BOOLEAN
    BY DEF AskType
  <2> DEFINE x == a.answers \cup S
             f == a.found \/ S # {}
  <2> HIDE DEF x, f
  <2>2. x \in SUBSET LkSids /\ f \in BOOLEAN
    BY <2>1 DEF x, f
  <2>3. [a EXCEPT !.answers = x, !.found = f] \in AskType
    BY <2>2 DEF AskType
  <2> QED
    BY <2>3 DEF x, f
<1> QED
  BY <1>1, <1>2, <1>3, <1>4

\* Proceed and the last two steps of a request, field by field.
LEMMA AskUpdates ==
  ASSUME NEW a \in AskType
  PROVE  /\ LET b == [a EXCEPT !.failed = TRUE]
            IN b.op = a.op /\ b.sid = a.sid /\ b.user = a.user /\ b.at = a.at /\ b.found = a.found
               /\ b.answers = a.answers /\ b.before = a.before /\ b.failed = TRUE
         /\ \A S \in SUBSET LkSids :
              LET b == [a EXCEPT !.answers = @ \cup S, !.found = @ \/ S # {}]
              IN b.op = a.op /\ b.sid = a.sid /\ b.user = a.user /\ b.at = a.at /\ b.failed = a.failed
                 /\ b.answers = a.answers \cup S /\ b.before = a.before /\ b.found = (a.found \/ S # {})
         /\ \A n \in Insts :
              LET b == [a EXCEPT !.at = n]
              IN b \in AskType /\ b.op = a.op /\ b.sid = a.sid /\ b.user = a.user /\ b.at = n /\ b.failed = a.failed
                 /\ b.answers = a.answers /\ b.before = a.before /\ b.found = a.found
         /\ LET b == [a EXCEPT !.at = 0, !.found = FALSE]
            IN b \in AskType /\ b.op = a.op /\ b.sid = a.sid /\ b.answers = a.answers /\ b.before = a.before
<1>1. 0 \in Insts
  BY LinkAssumption DEF LinkAssumption, Insts
<1> QED
  BY <1>1 DEF AskType

\* Queues of requests and replies.
LEMMA Queues ==
  ASSUME NEW T, NEW q \in Seq(T)
  PROVE  /\ q = <<>> <=> Len(q) = 0
         /\ \A x \in T : /\ Append(q, x) \in Seq(T) /\ Len(Append(q, x)) = Len(q) + 1
                         /\ Append(q, x)[Len(q) + 1] = x
                         /\ \A k \in 1..Len(q) : Append(q, x)[k] = q[k]
         /\ q # <<>> => /\ Head(q) = q[1] /\ Head(q) \in T /\ Tail(q) \in Seq(T)
                        /\ Len(q) \in Nat \ {0} /\ Len(Tail(q)) = Len(q) - 1
                        /\ \A k \in 1..Len(Tail(q)) : Tail(q)[k] = q[k + 1]
OBVIOUS

-----------------------------------------------------------------------------
(* Steps of a request.                                                      *)

\* What Proceed does with a request that has its answer or has failed.
LEMMA ProceedEffect ==
  ASSUME LinkTypes, NEW a \in AskType, a.op \in Ops, Proceed(a)
  PROVE  /\ \/ /\ LoopEnds(a) /\ lkMain' = NoAsk /\ lkReqs' = lkReqs /\ lkLast' \in AskType
               /\ lkLast'.op = a.op /\ lkLast'.sid = a.sid /\ lkLast'.before = a.before
               /\ lkLast'.answers = a.answers
            \/ /\ ~LoopEnds(a) /\ a.at + 1 \in Insts /\ lkLast' = lkLast /\ lkMain' \in AskType
               /\ lkMain'.op = a.op /\ lkMain'.sid = a.sid /\ lkMain'.user = a.user /\ lkMain'.at = a.at + 1
               /\ lkMain'.found = a.found /\ lkMain'.failed = a.failed
               /\ lkMain'.before = a.before /\ lkMain'.answers = a.answers
               /\ lkReqs' = [lkReqs EXCEPT ![a.at + 1] = Append(@, ReqOf(a))]
         /\ lkStopping' = (lkStopping \/ StopsServer(a))
         /\ lkOrderly' = (lkOrderly /\ ~a.failed)
<1>1. CASE LoopEnds(a)
  <2> DEFINE b == [a EXCEPT !.at = 0, !.found = FALSE]
  <2>1. b \in AskType /\ b.op = a.op /\ b.sid = a.sid /\ b.answers = a.answers /\ b.before = a.before
    BY AskUpdates
  <2>2. lkMain' = NoAsk /\ lkLast' = b /\ lkReqs' = lkReqs
    BY <1>1 DEF Proceed
  <2> HIDE DEF b
  <2> QED
    BY <1>1, <2>1, <2>2 DEF Proceed
<1>2. CASE ~LoopEnds(a)
  <2>1. a.at + 1 \in Insts /\ a.at \in Insts
    BY <1>2, LinkAssumption DEF LoopEnds, AskType, Insts, LinkAssumption
  <2>2. /\ lkMain' = [a EXCEPT !.at = @ + 1] /\ lkLast' = lkLast
        /\ lkReqs' = [lkReqs EXCEPT ![a.at + 1] = Append(@, ReqOf(a))]
    BY <1>2 DEF Proceed, SendTo, ReqOf
  <2> DEFINE n == a.at + 1
             b == [a EXCEPT !.at = n]
  <2>3. lkMain' = b
    BY <2>2
  <2> HIDE DEF n
  <2>4. n \in Insts
    BY <2>1 DEF n
  <2>5. /\ b \in AskType /\ b.op = a.op /\ b.sid = a.sid /\ b.user = a.user /\ b.at = n /\ b.failed = a.failed
        /\ b.answers = a.answers /\ b.before = a.before /\ b.found = a.found
    BY <2>4, AskUpdates
  <2> HIDE DEF b
  <2> QED
    BY <1>2, <2>1, <2>2, <2>3, <2>5 DEF Proceed, n
<1> QED
  BY <1>1, <1>2

\* The message sent for a request is well formed.
LEMMA ReqOfType ==
  ASSUME NEW a \in AskType, a.op \in Ops
  PROVE  ReqOf(a) \in ReqType
BY DEF ReqOf, ReqType, AskType

\* Proceed keeps the types.
LEMMA ProceedTypes ==
  ASSUME LinkTypes, NEW a \in AskType, a.op \in Ops, Proceed(a)
  PROVE  /\ lkMain' \in AskType /\ lkLast' \in AskType /\ (lkMain'.op = "idle" => lkMain' = NoAsk)
         /\ lkReqs' \in [Insts -> Seq(ReqType)] /\ lkStopping' \in BOOLEAN /\ lkOrderly' \in BOOLEAN
<1>1. ReqOf(a) \in ReqType
  BY ReqOfType
<1>2. lkStopping' \in BOOLEAN /\ lkOrderly' \in BOOLEAN
  BY Zenon DEF Proceed
<1>3. CASE LoopEnds(a)
  BY <1>2, <1>3, ProceedEffect, AskFields DEF LinkTypes
<1>4. CASE ~LoopEnds(a)
  <2>1. lkReqs' = [lkReqs EXCEPT ![a.at + 1] = Append(@, ReqOf(a))] /\ a.at + 1 \in Insts
    BY <1>4, ProceedEffect
  <2>2. lkReqs[a.at + 1] \in Seq(ReqType)
    BY <2>1 DEF LinkTypes
  <2>3. Append(lkReqs[a.at + 1], ReqOf(a)) \in Seq(ReqType)
    BY <1>1, <2>2, Queues
  <2>4. lkReqs' \in [Insts -> Seq(ReqType)]
    BY <2>1, <2>3 DEF LinkTypes
  <2>5. lkMain' \in AskType /\ lkMain'.op \in Ops /\ lkLast' = lkLast
    BY <1>4, ProceedEffect
  <2>6. lkMain'.op # "idle"
    BY <2>5 DEF Ops
  <2> QED
    BY <1>2, <2>4, <2>5, <2>6 DEF LinkTypes
<1> QED
  BY <1>3, <1>4

\* What a command may ask.
LEMMA AskedType ==
  ASSUME LinkTypes, NEW a \in Asks
  PROVE  /\ a \in AskType /\ a.op \in Ops /\ a.found = FALSE /\ a.failed = FALSE /\ a.answers = {}
         /\ a.op \in {"list", "reload", "terminate-session", "terminate-user"} => a.at = 0
         /\ a.op = "terminate-session" => a.sid \in lkMade
<1>0. 0 \in Insts /\ \A s \in lkMade : s \in LkSids /\ LkHome[s] \in Insts
  BY LinkAssumption DEF LinkAssumption, LinkTypes, Insts
<1>1. ASSUME NEW o \in {"open", "close"}, NEW s \in lkMade, a = [NoAsk EXCEPT !.op = o, !.sid = s, !.at = LkHome[s]]
      PROVE  /\ a \in AskType /\ a.op = o /\ a.found = FALSE /\ a.failed = FALSE /\ a.answers = {}
  BY <1>0, <1>1 DEF NoAsk, AskType, Ops
<1>2. ASSUME NEW s \in lkMade, a = [NoAsk EXCEPT !.op = "terminate-session", !.sid = s]
      PROVE  /\ a \in AskType /\ a.op = "terminate-session" /\ a.found = FALSE /\ a.failed = FALSE
             /\ a.answers = {} /\ a.sid = s /\ a.at = 0
  BY <1>0, <1>2 DEF NoAsk, AskType, Ops
<1>3. ASSUME NEW u \in LkUsers, a = [NoAsk EXCEPT !.op = "terminate-user", !.user = u]
      PROVE  /\ a \in AskType /\ a.op = "terminate-user" /\ a.found = FALSE /\ a.failed = FALSE
             /\ a.answers = {} /\ a.at = 0
  BY <1>0, <1>3 DEF NoAsk, AskType, Ops
<1>4. ASSUME NEW o \in {"list", "reload"}, a = [NoAsk EXCEPT !.op = o]
      PROVE  /\ a \in AskType /\ a.op = o /\ a.found = FALSE /\ a.failed = FALSE
             /\ a.answers = {} /\ a.at = 0
  BY <1>0, <1>4, ZenonT(60) DEF NoAsk, AskType, Ops
<1> DEFINE A0 == {[NoAsk EXCEPT !.op = "open", !.sid = s, !.at = LkHome[s]] : s \in lkMade}
           A1 == {[NoAsk EXCEPT !.op = "close", !.sid = s, !.at = LkHome[s]] : s \in lkMade}
           A2 == {[NoAsk EXCEPT !.op = "terminate-session", !.sid = s] : s \in lkMade}
           A3 == {[NoAsk EXCEPT !.op = "terminate-user", !.user = u] : u \in LkUsers}
           A4 == {[NoAsk EXCEPT !.op = o] : o \in {"list", "reload"}}
<1>5. Asks = A0 \cup A1 \cup A2 \cup A3 \cup A4
  BY DEF Asks
<1>6. CASE a \in A0 \cup A1
  BY <1>1, <1>6 DEF Ops
<1>7. CASE a \in A2
  BY <1>2, <1>7 DEF Ops
<1>8. CASE a \in A3
  BY <1>3, <1>8 DEF Ops
<1>9. CASE a \in A4
  BY <1>4, <1>9 DEF Ops
<1> HIDE DEF A0, A1, A2, A3, A4
<1> QED
  BY <1>5, <1>6, <1>7, <1>8, <1>9

\* LkAsk, field by field.
LEMMA AskEffect ==
  ASSUME LinkTypes, LkAsk
  PROVE  \E a \in Asks :
           /\ lkMain.op = "idle" /\ lkMain' \in AskType /\ lkMain'.op = a.op /\ lkMain'.op \in Ops
           /\ lkMain'.sid = a.sid
           /\ lkMain'.at = a.at /\ lkMain'.found = FALSE /\ lkMain'.failed = FALSE /\ lkMain'.answers = {}
           /\ lkMain'.before = UNION {lkDb[i] : i \in Insts}
           /\ lkReqs' = [lkReqs EXCEPT ![a.at] = Append(@, ReqOf(lkMain'))]
           /\ UNCHANGED <<lkDb, lkMade, lkConfig, lkReps, lkCut, lkStopping, lkLast, lkOrderly>>
<1>1. PICK a \in Asks : /\ lkMain' = [a EXCEPT !.before = UNION {lkDb[i] : i \in Insts}]
                        /\ SendTo(a.at, a)
  BY DEF LkAsk
<1>2. /\ a \in AskType /\ a.op \in Ops /\ a.found = FALSE /\ a.failed = FALSE /\ a.answers = {}
  BY AskedType
<1> DEFINE B == UNION {lkDb[i] : i \in Insts}
<1>3. B \in SUBSET LkSids
  BY DEF LinkTypes
<1>4. lkMain' = [a EXCEPT !.before = B]
  BY <1>1
<1> HIDE DEF B
<1>5. /\ lkMain' \in AskType /\ lkMain'.op = a.op /\ lkMain'.sid = a.sid /\ lkMain'.user = a.user
      /\ lkMain'.at = a.at /\ lkMain'.found = a.found /\ lkMain'.failed = a.failed
      /\ lkMain'.answers = a.answers /\ lkMain'.before = B
  BY <1>2, <1>3, <1>4 DEF AskType
<1>6. ReqOf(lkMain') = ReqOf(a)
  BY <1>5 DEF ReqOf
<1>7. lkReqs' = [lkReqs EXCEPT ![a.at] = Append(@, ReqOf(a))]
  BY <1>1 DEF SendTo, ReqOf
<1>8. lkMain.op = "idle"
  BY AskFields DEF LkAsk
<1> QED
  BY <1>2, <1>5, <1>6, <1>7, <1>8 DEF LkAsk, B

\* LkReceive: the reply is taken, or the request has failed.
LEMMA ReceiveEffect ==
  ASSUME LinkTypes, LkReceive
  PROVE  /\ lkMain.op \in Ops /\ lkMain.at \in Insts
         /\ UNCHANGED <<lkDb, lkMade, lkConfig>>
         /\ \/ /\ Proceed([lkMain EXCEPT !.failed = TRUE])
               /\ lkReps' \in [Insts -> Seq(RepType)] /\ lkCut' \in [Insts -> BOOLEAN]
               /\ lkReps' = lkReps \/ (lkReps[lkMain.at] # <<>> /\ lkReps' = [lkReps EXCEPT ![lkMain.at] = Tail(@)])
               /\ lkCut[lkMain.at] \/ (lkReps[lkMain.at] # <<>> /\ lkReps[lkMain.at][1].op # lkMain.op)
            \/ /\ lkReps[lkMain.at] # <<>> /\ lkReps[lkMain.at][1].op = lkMain.op
               /\ lkReps[lkMain.at][1] \in RepType
               /\ Proceed([lkMain EXCEPT !.answers = @ \cup lkReps[lkMain.at][1].sids,
                                         !.found = @ \/ lkReps[lkMain.at][1].sids # {}])
               /\ lkReps' = [lkReps EXCEPT ![lkMain.at] = Tail(@)]
               /\ lkReps' \in [Insts -> Seq(RepType)] /\ lkCut' = lkCut
<1> DEFINE i == lkMain.at
<1>1. i \in Insts /\ lkMain.op \in Ops
  BY DEF LkReceive, LinkTypes, AskType
<1>2. lkReps[i] \in Seq(RepType)
  BY <1>1 DEF LinkTypes
<1>3. lkReps[i] # <<>> => /\ Head(lkReps[i]) = lkReps[i][1] /\ lkReps[i][1] \in RepType
                          /\ [lkReps EXCEPT ![i] = Tail(@)] \in [Insts -> Seq(RepType)]
  BY <1>1, <1>2, Queues DEF LinkTypes
<1>4. CASE lkCut[i]
  <2>1. Proceed([lkMain EXCEPT !.failed = TRUE]) /\ UNCHANGED <<lkReps, lkCut>>
    BY <1>4 DEF LkReceive
  <2> QED
    BY <1>1, <1>4, <2>1 DEF LkReceive, LinkTypes
<1>5. CASE ~lkCut[i]
  <2>1. lkReps[i] # <<>>
    BY <1>5 DEF LkReceive
  <2> DEFINE m == Head(lkReps[i])
  <2>2. /\ lkReps' = [lkReps EXCEPT ![i] = Tail(@)]
        /\ IF m.op = lkMain.op
           THEN /\ Proceed([lkMain EXCEPT !.answers = @ \cup m.sids, !.found = @ \/ m.sids # {}])
                /\ UNCHANGED lkCut
           ELSE /\ Proceed([lkMain EXCEPT !.failed = TRUE])
                /\ lkCut' = [lkCut EXCEPT ![i] = (m.op # "reload")]
    BY <1>5, Zenon DEF LkReceive
  <2>3. m = lkReps[i][1]
    BY <1>3, <2>1
  <2>4. UNCHANGED <<lkDb, lkMade, lkConfig>>
    BY DEF LkReceive
  <2> HIDE DEF m
  <2>5. CASE m.op = lkMain.op
    BY <1>1, <1>3, <2>1, <2>2, <2>3, <2>4, <2>5
  <2>6. CASE m.op # lkMain.op
    <3>1. lkCut' \in [Insts -> BOOLEAN]
      <4>1. (m.op # "reload") \in BOOLEAN
        OBVIOUS
      <4> QED
        BY <1>1, <2>2, <2>6, <4>1, Zenon DEF LinkTypes
    <3> QED
      BY <1>1, <1>3, <2>1, <2>2, <2>3, <2>4, <2>6, <3>1
  <2> QED
    BY <2>5, <2>6
<1> QED
  BY <1>4, <1>5

\* A request that has failed, and one answered by one more instance.
FailedAs(a) == [a EXCEPT !.failed = TRUE]
AnsweredBy(a, S) == [a EXCEPT !.answers = @ \cup S, !.found = @ \/ S # {}]

\* What a failure changes.
LEMMA FailedAsk ==
  ASSUME NEW a \in AskType
  PROVE  LET b == FailedAs(a)
         IN /\ b \in AskType /\ b.op = a.op /\ b.sid = a.sid /\ b.user = a.user /\ b.at = a.at
            /\ b.found = a.found /\ b.answers = a.answers /\ b.before = a.before /\ b.failed = TRUE
BY AskFields, AskUpdates DEF FailedAs

\* What an answer that names the cookies S changes.
LEMMA AnsweredAsk ==
  ASSUME NEW a \in AskType, NEW S \in SUBSET LkSids
  PROVE  LET b == AnsweredBy(a, S)
         IN /\ b \in AskType /\ b.op = a.op /\ b.sid = a.sid /\ b.user = a.user /\ b.at = a.at
            /\ b.failed = a.failed /\ b.answers = a.answers \cup S /\ b.before = a.before
            /\ b.found = (a.found \/ S # {})
<1> DEFINE b == AnsweredBy(a, S)
<1>1. b \in AskType
  BY AskFields DEF AnsweredBy
<1>2. /\ b.op = a.op /\ b.sid = a.sid /\ b.user = a.user /\ b.at = a.at /\ b.failed = a.failed
      /\ b.answers = a.answers \cup S /\ b.before = a.before /\ b.found = (a.found \/ S # {})
  BY DEF AskType, AnsweredBy
<1> HIDE DEF b
<1>3. /\ b \in AskType /\ b.op = a.op /\ b.sid = a.sid /\ b.user = a.user /\ b.at = a.at
      /\ b.failed = a.failed /\ b.answers = a.answers \cup S /\ b.before = a.before
      /\ b.found = (a.found \/ S # {})
  BY <1>1, <1>2
<1> QED
  BY <1>3 DEF b

\* LkServe: one request of an instance is answered.
LEMMA ServeEffect ==
  ASSUME LinkTypes, NEW i \in Insts, LkServe(i)
  PROVE  \E r \in ReqType, gone \in SUBSET LkSids :
           LET m == [op |-> r.op, sids |-> Answer(i, r)]
           IN /\ lkReqs[i] # <<>> /\ r = lkReqs[i][1] /\ gone \in MayDelete(i, r) /\ m \in RepType
              /\ lkReqs' = [lkReqs EXCEPT ![i] = Tail(@)] /\ lkReqs' \in [Insts -> Seq(ReqType)]
              /\ lkReps' = [lkReps EXCEPT ![i] = Append(@, m)] /\ lkReps' \in [Insts -> Seq(RepType)]
              /\ lkDb' = [lkDb EXCEPT ![i] = @ \ gone] /\ lkDb' \in [Insts -> SUBSET LkSids]
              /\ lkConfig' = (IF r.op = "reload" THEN [lkConfig EXCEPT ![i] = @ + 1] ELSE lkConfig)
              /\ lkConfig' \in [Insts -> Nat]
              /\ UNCHANGED <<lkMade, lkCut, lkMain, lkStopping, lkLast, lkOrderly>>
<1> DEFINE r == Head(lkReqs[i])
           m == [op |-> r.op, sids |-> Answer(i, r)]
<1>1. lkReqs[i] # <<>> /\ lkReqs[i] \in Seq(ReqType) /\ lkReps[i] \in Seq(RepType) /\ lkDb[i] \in SUBSET LkSids
  BY DEF LkServe, LinkTypes
<1>2. r \in ReqType /\ r = lkReqs[i][1] /\ Tail(lkReqs[i]) \in Seq(ReqType)
  BY <1>1, Queues
<1>3. PICK gone \in MayDelete(i, r) : lkDb' = [lkDb EXCEPT ![i] = @ \ gone]
  BY DEF LkServe
<1>4. /\ lkReps' = [lkReps EXCEPT ![i] = Append(@, m)]
      /\ lkConfig' = (IF r.op = "reload" THEN [lkConfig EXCEPT ![i] = @ + 1] ELSE lkConfig)
      /\ lkReqs' = [lkReqs EXCEPT ![i] = Tail(@)]
      /\ UNCHANGED <<lkMade, lkCut, lkMain, lkStopping, lkLast, lkOrderly>>
  BY DEF LkServe
<1> HIDE DEF r
<1>5. Answer(i, r) \in SUBSET LkSids /\ gone \in SUBSET LkSids /\ r.op \in Ops
  BY <1>1, <1>2, <1>3 DEF Answer, MayDelete, Deleted, ReqType
<1>6. m \in RepType
  BY <1>5 DEF RepType
<1>7. Append(lkReps[i], m) \in Seq(RepType)
  BY <1>1, <1>6, Queues
<1> HIDE DEF m
<1>8. /\ lkReqs' \in [Insts -> Seq(ReqType)] /\ lkReps' \in [Insts -> Seq(RepType)]
      /\ lkDb' \in [Insts -> SUBSET LkSids] /\ lkConfig' \in [Insts -> Nat]
  BY <1>1, <1>2, <1>3, <1>4, <1>7 DEF LinkTypes
<1>9. m \in RepType /\ m = [op |-> r.op, sids |-> Answer(i, r)]
  BY <1>6 DEF m
<1> QED
  BY <1>1, <1>2, <1>3, <1>4, <1>5, <1>8, <1>9

\* A login, or a report of an instance, leaves the requests alone.
Elsewhere == UNCHANGED <<lkConfig, lkReqs, lkReps, lkCut, lkMain, lkStopping, lkLast, lkOrderly>>

\* The kinds of steps of the link.
LEMMA LinkSteps ==
  ASSUME LinkTypes, [LkNext]_lkvars
  PROVE  \/ \E i \in Insts : LkServe(i)
         \/ LkAsk \/ LkReceive \/ LkTimeout
         \/ Elsewhere /\ UNCHANGED <<lkDb, lkMade>>
         \/ \E s \in LkSids : /\ Elsewhere /\ s \notin lkMade /\ lkMade' = lkMade \cup {s}
                              /\ lkDb' = [lkDb EXCEPT ![LkHome[s]] = @ \cup {s}]
<1>1. CASE \E s \in LkSids : LkLogin(s)
  BY <1>1 DEF LkLogin, Elsewhere, sockets
<1>2. ASSUME NEW i \in Insts, LkReport(i) \/ LkSent(i) \/ LkRead(i)
      PROVE  Elsewhere /\ UNCHANGED <<lkDb, lkMade>>
  BY <1>2 DEF LkReport, LkSent, LkRead, Elsewhere, sockets
<1>3. CASE UNCHANGED lkvars
  BY <1>3 DEF lkvars, Elsewhere
<1> QED
  BY <1>1, <1>2, <1>3 DEF LkNext

\* A timeout fails the request.
LEMMA TimeoutEffect ==
  ASSUME LinkTypes, LkTimeout
  PROVE  /\ lkMain.op \in Ops /\ Proceed(FailedAs(lkMain))
         /\ UNCHANGED <<lkDb, lkMade, lkConfig, lkReps, lkCut>>
BY DEF LkTimeout, LinkTypes, AskType, FailedAs

\* The types are kept.
LEMMA LinkTypesStep == ASSUME LinkTypes, [LkNext]_lkvars PROVE LinkTypes'
<1>0. lkMain \in AskType
  BY DEF LinkTypes
<1>1. ASSUME NEW i \in Insts, LkServe(i)
      PROVE  LinkTypes'
  BY <1>1, ServeEffect DEF LinkTypes
<1>2. CASE LkAsk
  <2>1. PICK a \in Asks :
           /\ lkMain' \in AskType /\ lkMain'.op \in Ops /\ lkMain'.at = a.at
           /\ lkReqs' = [lkReqs EXCEPT ![a.at] = Append(@, ReqOf(lkMain'))]
           /\ UNCHANGED <<lkDb, lkMade, lkConfig, lkReps, lkCut, lkStopping, lkLast, lkOrderly>>
    BY <1>2, AskEffect
  <2>2. ReqOf(lkMain') \in ReqType /\ a.at \in Insts
    BY <2>1, ReqOfType DEF AskType
  <2>3. Append(lkReqs[a.at], ReqOf(lkMain')) \in Seq(ReqType)
    BY <2>2, Queues DEF LinkTypes
  <2>4. lkReqs' \in [Insts -> Seq(ReqType)]
    BY <2>1, <2>2, <2>3 DEF LinkTypes
  <2>5. lkMain'.op # "idle"
    BY <2>1 DEF Ops
  <2> QED
    BY <2>1, <2>4, <2>5 DEF LinkTypes
<1>3. ASSUME NEW a \in AskType, a.op \in Ops, Proceed(a), UNCHANGED <<lkDb, lkMade, lkConfig>>,
             lkReps' \in [Insts -> Seq(RepType)], lkCut' \in [Insts -> BOOLEAN]
      PROVE  LinkTypes'
  BY <1>3, ProceedTypes DEF LinkTypes
<1>4. CASE LkReceive
  <2> DEFINE S == lkReps[lkMain.at][1].sids
  <2>0. lkReps[lkMain.at][1] \in RepType => S \in SUBSET LkSids
    BY DEF RepType
  <2> HIDE DEF S
  <2> DEFINE f == FailedAs(lkMain)
             b == AnsweredBy(lkMain, S)
  <2>1. f \in AskType /\ f.op = lkMain.op
    BY <1>0, FailedAsk
  <2>2. S \in SUBSET LkSids => b \in AskType /\ b.op = lkMain.op
    BY <1>0, AnsweredAsk
  <2>4. /\ lkMain.op \in Ops /\ UNCHANGED <<lkDb, lkMade, lkConfig>>
        /\ lkReps' \in [Insts -> Seq(RepType)] /\ lkCut' \in [Insts -> BOOLEAN]
        /\ Proceed(f) \/ (lkReps[lkMain.at][1] \in RepType /\ Proceed(b))
    BY <1>4, ReceiveEffect DEF LinkTypes, S, FailedAs, AnsweredBy
  <2> HIDE DEF f, b
  <2> QED
    BY <1>3, <2>0, <2>1, <2>2, <2>4
<1>5. CASE LkTimeout
  <2> DEFINE f == FailedAs(lkMain)
  <2>1. f \in AskType /\ f.op = lkMain.op
    BY <1>0, FailedAsk
  <2>2. lkMain.op \in Ops /\ Proceed(f) /\ UNCHANGED <<lkDb, lkMade, lkConfig, lkReps, lkCut>>
    BY <1>5, TimeoutEffect
  <2> HIDE DEF f
  <2> QED
    BY <1>3, <2>1, <2>2 DEF LinkTypes
<1>6. CASE Elsewhere /\ UNCHANGED <<lkDb, lkMade>>
  BY <1>6 DEF Elsewhere, LinkTypes
<1>7. ASSUME NEW s \in LkSids, Elsewhere, lkMade' = lkMade \cup {s}, lkDb' = [lkDb EXCEPT ![LkHome[s]] = @ \cup {s}]
      PROVE  LinkTypes'
  BY <1>7, LinkAssumption DEF LinkAssumption, Elsewhere, LinkTypes
<1> QED
  BY <1>1, <1>2, <1>4, <1>5, <1>6, <1>7, LinkSteps

\* A cookie is only ever known at home.
LEMMA HomeStep == ASSUME LinkTypes, AtHome, [LkNext]_lkvars PROVE AtHome'
<1>1. ASSUME NEW i \in Insts, LkServe(i)
      PROVE  AtHome'
  <2>1. PICK gone : lkDb' = [lkDb EXCEPT ![i] = @ \ gone] /\ lkMade' = lkMade
    BY <1>1, ServeEffect
  <2> QED
    BY <2>1 DEF AtHome, LinkTypes
<1>2. CASE UNCHANGED <<lkDb, lkMade>>
  BY <1>2 DEF AtHome
<1>3. ASSUME NEW s \in LkSids, lkMade' = lkMade \cup {s}, lkDb' = [lkDb EXCEPT ![LkHome[s]] = @ \cup {s}]
      PROVE  AtHome'
  BY <1>3, LinkAssumption DEF LinkAssumption, AtHome, LinkTypes
<1> QED
  BY <1>1, <1>2, <1>3, LinkSteps, AskEffect, ReceiveEffect, TimeoutEffect

-----------------------------------------------------------------------------
(* Reloads.                                                                 *)

ReloadInv ==
  /\ \A i \in Insts : \A k \in 1..Len(lkReps[i]) : lkReps[i][k].op = "reload" => lkConfig[i] > 0
  /\ lkMain.op = "reload" => lkStopping \/ \A i \in Insts : i < lkMain.at => lkConfig[i] > 0
  /\ ReloadIsForAll

\* Proceed with the answer of instance a.at.
LEMMA ReloadProceeds ==
  ASSUME LinkTypes, ReloadInv, NEW a \in AskType, a.op \in Ops, a.op = lkMain.op, a.at = lkMain.at,
         Proceed(a), lkConfig' = lkConfig,
         a.op = "reload" => a.failed = TRUE \/ lkConfig[a.at] > 0
  PROVE  /\ lkMain'.op = "reload" => lkStopping' \/ \A i \in Insts : i < lkMain'.at => lkConfig'[i] > 0
         /\ ReloadIsForAll'
<1>0. a.at \in Insts /\ Insts = 0..LkCount - 1 /\ LkCount \in Nat /\ lkConfig \in [Insts -> Nat]
  BY LinkAssumption DEF LinkAssumption, AskType, Insts, LinkTypes
<1>1. CASE a.op # "reload"
  <2>1. lkMain'.op # "reload" /\ (lkLast'.op = "reload" => lkLast' = lkLast) /\ (lkStopping => lkStopping')
    BY <1>1, ProceedEffect, AskFields
  <2> QED
    BY <2>1 DEF ReloadInv, ReloadIsForAll
<1>2. CASE a.op = "reload" /\ a.failed = TRUE
  <2>1. lkStopping'
    BY <1>2, ProceedEffect DEF StopsServer
  <2> QED
    BY <2>1 DEF ReloadIsForAll
<1>3. CASE a.op = "reload" /\ lkConfig[a.at] > 0
  <2>1. lkStopping \/ \A i \in Insts : i < a.at => lkConfig[i] > 0
    BY <1>3 DEF ReloadInv
  <2>2. lkStopping \/ \A i \in Insts : i < a.at + 1 => lkConfig[i] > 0
    BY <1>0, <1>3, <2>1
  <2>3. lkStopping => lkStopping'
    BY Zenon DEF Proceed
  <2>4. CASE LoopEnds(a)
    <3>1. a.at + 1 = LkCount
      BY <1>3, <2>4 DEF LoopEnds
    <3>2. lkStopping \/ \A i \in Insts : lkConfig[i] > 0
      BY <1>0, <2>2, <3>1
    <3>3. lkMain'.op = "idle"
      BY <2>4, ProceedEffect, AskFields
    <3> QED
      BY <2>3, <3>2, <3>3 DEF ReloadIsForAll
  <2>5. CASE ~LoopEnds(a)
    <3>1. lkMain'.at = a.at + 1 /\ lkLast' = lkLast
      BY <2>5, ProceedEffect
    <3> QED
      BY <2>2, <2>3, <3>1 DEF ReloadInv, ReloadIsForAll
  <2> QED
    BY <2>4, <2>5
<1> QED
  BY <1>1, <1>2, <1>3

\* Every step keeps ReloadInv.
LEMMA ReloadStep == ASSUME LinkTypes, ReloadInv, [LkNext]_lkvars PROVE ReloadInv'
<1>0. lkMain \in AskType /\ lkReps \in [Insts -> Seq(RepType)] /\ lkConfig \in [Insts -> Nat]
  BY DEF LinkTypes
<1>1. ASSUME NEW i \in Insts, LkServe(i)
      PROVE  ReloadInv'
  <2>1. PICK r \in ReqType :
          LET m == [op |-> r.op, sids |-> Answer(i, r)]
          IN /\ m \in RepType /\ lkReps' = [lkReps EXCEPT ![i] = Append(@, m)]
             /\ lkConfig' = (IF r.op = "reload" THEN [lkConfig EXCEPT ![i] = @ + 1] ELSE lkConfig)
             /\ UNCHANGED <<lkMain, lkStopping, lkLast>>
    BY <1>1, ServeEffect
  <2> DEFINE m == [op |-> r.op, sids |-> Answer(i, r)]
  <2>2. m.op = r.op
    OBVIOUS
  <2>3. m \in RepType /\ lkReps' = [lkReps EXCEPT ![i] = Append(@, m)]
    BY <2>1
  <2> HIDE DEF m
  <2>4. \A j \in Insts : lkConfig'[j] >= lkConfig[j] /\ lkConfig[j] \in Nat /\ lkConfig'[j] \in Nat
    BY <1>0, <2>1
  <2>5. m.op = "reload" => lkConfig'[i] > 0
    BY <1>0, <2>1, <2>2
  <2>6. /\ lkReps[i] \in Seq(RepType) /\ lkReps'[i] = Append(lkReps[i], m)
        /\ \A j \in Insts : j # i => lkReps'[j] = lkReps[j]
    BY <1>0, <2>3
  <2>7. \A k \in 1..Len(lkReps'[i]) : lkReps'[i][k] = m \/ (k \in 1..Len(lkReps[i]) /\ lkReps'[i][k] = lkReps[i][k])
    BY <2>3, <2>6, Queues
  <2>8. \A j \in Insts : \A k \in 1..Len(lkReps'[j]) : lkReps'[j][k].op = "reload" => lkConfig'[j] > 0
    <3>1. ASSUME NEW k \in 1..Len(lkReps'[i]), lkReps'[i][k].op = "reload"
          PROVE  lkConfig'[i] > 0
      <4>1. CASE lkReps'[i][k] = m
        BY <2>5, <3>1, <4>1
      <4>2. CASE k \in 1..Len(lkReps[i]) /\ lkReps'[i][k] = lkReps[i][k]
        <5>1. lkConfig[i] > 0
          BY <3>1, <4>2 DEF ReloadInv
        <5> QED
          BY <2>4, <5>1
      <4> QED
        BY <2>7, <4>1, <4>2
    <3>2. ASSUME NEW j \in Insts, j # i, NEW k \in 1..Len(lkReps'[j]), lkReps'[j][k].op = "reload"
          PROVE  lkConfig'[j] > 0
      <4>1. lkConfig[j] > 0
        BY <2>6, <3>2 DEF ReloadInv
      <4> QED
        BY <2>4, <4>1
    <3> QED
      BY <3>1, <3>2
  <2>9. lkMain'.op = "reload" => lkStopping' \/ \A j \in Insts : j < lkMain'.at => lkConfig'[j] > 0
    BY <2>1, <2>4 DEF ReloadInv
  <2>10. ReloadIsForAll'
    BY <2>1, <2>4 DEF ReloadInv, ReloadIsForAll
  <2> QED
    BY <2>8, <2>9, <2>10 DEF ReloadInv
<1>2. CASE LkAsk
  <2>1. PICK a \in Asks :
           /\ lkMain'.op = a.op /\ lkMain'.at = a.at
           /\ UNCHANGED <<lkConfig, lkReps, lkStopping, lkLast>>
    BY <1>2, AskEffect
  <2>2. lkMain'.op = "reload" => lkMain'.at = 0
    BY <2>1, AskedType
  <2>3. \A i \in Insts : ~(i < 0)
    BY DEF Insts
  <2> QED
    BY <2>1, <2>2, <2>3 DEF ReloadInv, ReloadIsForAll
<1>3. ASSUME NEW i \in Insts, lkReps[i] # <<>>, lkReps' = [lkReps EXCEPT ![i] = Tail(@)], lkConfig' = lkConfig
      PROVE  \A j \in Insts : \A k \in 1..Len(lkReps'[j]) : lkReps'[j][k].op = "reload" => lkConfig'[j] > 0
  <2>1. \A k \in 1..Len(lkReps'[i]) : k + 1 \in 1..Len(lkReps[i]) /\ lkReps'[i][k] = lkReps[i][k + 1]
    BY <1>0, <1>3, Queues
  <2>2. \A j \in Insts : j # i => lkReps'[j] = lkReps[j]
    BY <1>0, <1>3
  <2> QED
    BY <1>3, <2>1, <2>2 DEF ReloadInv
<1>4. CASE LkReceive
  <2> DEFINE S == lkReps[lkMain.at][1].sids
  <2>0. lkReps[lkMain.at][1] \in RepType => S \in SUBSET LkSids
    BY DEF RepType
  <2> HIDE DEF S
  <2> DEFINE f == FailedAs(lkMain)
             b == AnsweredBy(lkMain, S)
  <2>1. f \in AskType /\ f.op = lkMain.op /\ f.at = lkMain.at /\ f.failed = TRUE
    BY <1>0, FailedAsk
  <2>2. S \in SUBSET LkSids => b \in AskType /\ b.op = lkMain.op /\ b.at = lkMain.at
    BY <1>0, AnsweredAsk
  <2>4. /\ lkMain.op \in Ops /\ lkMain.at \in Insts /\ lkConfig' = lkConfig
        /\ lkReps' = lkReps \/ (lkReps[lkMain.at] # <<>> /\ lkReps' = [lkReps EXCEPT ![lkMain.at] = Tail(@)])
        /\ \/ Proceed(f)
           \/ /\ lkReps[lkMain.at][1] \in RepType /\ Proceed(b)
              /\ lkReps[lkMain.at] # <<>> /\ lkReps[lkMain.at][1].op = lkMain.op
    BY <1>4, ReceiveEffect DEF S, FailedAs, AnsweredBy
  <2> HIDE DEF f, b
  <2>5. \A j \in Insts : \A k \in 1..Len(lkReps'[j]) : lkReps'[j][k].op = "reload" => lkConfig'[j] > 0
    BY <1>3, <2>4 DEF ReloadInv
  <2>6. CASE Proceed(f)
    BY <2>1, <2>4, <2>5, <2>6, ReloadProceeds DEF ReloadInv
  <2>7. CASE /\ lkReps[lkMain.at][1] \in RepType /\ Proceed(b)
             /\ lkReps[lkMain.at] # <<>> /\ lkReps[lkMain.at][1].op = lkMain.op
    <3>1. 1 \in 1..Len(lkReps[lkMain.at])
      BY <1>0, <2>4, <2>7, Queues
    <3>2. lkMain.op = "reload" => lkConfig[lkMain.at] > 0
      BY <2>4, <2>7, <3>1 DEF ReloadInv
    <3> QED
      BY <2>0, <2>2, <2>4, <2>5, <2>7, <3>2, ReloadProceeds DEF ReloadInv
  <2> QED
    BY <2>4, <2>6, <2>7
<1>5. CASE LkTimeout
  <2> DEFINE f == FailedAs(lkMain)
  <2>1. f \in AskType /\ f.op = lkMain.op /\ f.at = lkMain.at /\ f.failed = TRUE
    BY <1>0, FailedAsk
  <2>2. lkMain.op \in Ops /\ Proceed(f) /\ UNCHANGED <<lkConfig, lkReps>>
    BY <1>5, TimeoutEffect
  <2> HIDE DEF f
  <2> QED
    BY <2>1, <2>2, ReloadProceeds DEF ReloadInv
<1>6. CASE Elsewhere
  BY <1>6 DEF Elsewhere, ReloadInv, ReloadIsForAll
<1> QED
  BY <1>1, <1>2, <1>4, <1>5, <1>6, LinkSteps

-----------------------------------------------------------------------------
(* While no request failed, the synchronous sockets are empty but for the   *)
(* one request that main waits for, or its answer.                          *)

Quiet(i) == Len(lkReqs[i]) = 0 /\ Len(lkReps[i]) = 0

Waiting == /\ Len(lkReqs[lkMain.at]) = 1 /\ Len(lkReps[lkMain.at]) = 0
           /\ lkReqs[lkMain.at][1] = ReqOf(lkMain)

Answered == /\ Len(lkReqs[lkMain.at]) = 0 /\ Len(lkReps[lkMain.at]) = 1
            /\ lkReps[lkMain.at][1].op = lkMain.op

InStep ==
  /\ lkMain.failed = FALSE
  /\ \A i \in Insts : lkCut[i] = FALSE
  /\ \A i \in Insts : lkMain.op = "idle" \/ i # lkMain.at => Quiet(i)
  /\ lkMain.op # "idle" => Waiting \/ Answered

\* The session being terminated is gone from the instances that answered.
Terminating ==
  lkMain.op = "terminate-session" =>
    /\ lkMain.sid \in lkMade /\ lkMain.found = FALSE
    /\ \A i \in Insts : i < lkMain.at => lkMain.sid \notin lkDb[i]
    /\ Answered => /\ lkMain.sid \notin lkDb[lkMain.at]
                   /\ lkReps[lkMain.at][1].sids # {} => LkHome[lkMain.sid] = lkMain.at

\* A cookie to be listed is in the answers so far, or in an answer under way, or still kept.
Listing ==
  lkMain.op = "list" => \A s \in lkMain.before :
    /\ LkHome[s] < lkMain.at => s \in lkMain.answers
    /\ LkHome[s] > lkMain.at => s \in lkDb[LkHome[s]]
    /\ LkHome[s] = lkMain.at => /\ Waiting => s \in lkDb[lkMain.at]
                                /\ Answered => s \in lkReps[lkMain.at][1].sids

LastDone ==
  /\ lkLast.op = "terminate-session" => lkLast.sid \in lkMade /\ \A i \in Insts : lkLast.sid \notin lkDb[i]
  /\ lkLast.op = "list" => lkLast.before \subseteq lkLast.answers

OrderInv == lkOrderly => InStep /\ Terminating /\ Listing /\ LastDone

\* An instance answers main's request.
LEMMA OrderServe ==
  ASSUME LinkTypes, AtHome, OrderInv, NEW i \in Insts, LkServe(i)
  PROVE  OrderInv'
<1>1. SUFFICES ASSUME lkOrderly'
               PROVE  InStep' /\ Terminating' /\ Listing' /\ LastDone'
  BY DEF OrderInv
<1>2. PICK r \in ReqType, gone \in SUBSET LkSids :
        LET m == [op |-> r.op, sids |-> Answer(i, r)]
        IN /\ lkReqs[i] # <<>> /\ r = lkReqs[i][1] /\ gone \in MayDelete(i, r) /\ m \in RepType
           /\ lkReqs' = [lkReqs EXCEPT ![i] = Tail(@)]
           /\ lkReps' = [lkReps EXCEPT ![i] = Append(@, m)]
           /\ lkDb' = [lkDb EXCEPT ![i] = @ \ gone]
           /\ UNCHANGED <<lkMade, lkCut, lkMain, lkLast, lkOrderly>>
  BY ServeEffect
<1> DEFINE m == [op |-> r.op, sids |-> Answer(i, r)]
<1>3. /\ m.op = r.op /\ m.sids = Answer(i, r) /\ m \in RepType
      /\ lkReps' = [lkReps EXCEPT ![i] = Append(@, m)]
  BY <1>2
<1> HIDE DEF m
<1>4. InStep /\ Terminating /\ Listing /\ LastDone
  BY <1>1, <1>2 DEF OrderInv
<1>5. lkReqs[i] \in Seq(ReqType) /\ lkReps[i] \in Seq(RepType) /\ Len(lkReqs[i]) # 0
  BY <1>2, Queues DEF LinkTypes
<1>6. i = lkMain.at /\ lkMain.op # "idle" /\ Waiting
  BY <1>4, <1>5 DEF InStep, Quiet, Answered
<1>7. Len(Tail(lkReqs[i])) = 0 /\ Len(Append(lkReps[i], m)) = 1 /\ Append(lkReps[i], m)[1] = m
  BY <1>2, <1>3, <1>5, <1>6, Queues DEF Waiting
<1>8. /\ lkReqs'[i] = Tail(lkReqs[i]) /\ lkReps'[i] = Append(lkReps[i], m)
      /\ \A j \in Insts : j # i => lkReqs'[j] = lkReqs[j] /\ lkReps'[j] = lkReps[j] /\ lkDb'[j] = lkDb[j]
      /\ lkDb'[i] = lkDb[i] \ gone
  BY <1>2, <1>3 DEF LinkTypes
<1>9. r.op = lkMain.op /\ r.sid = lkMain.sid
  BY <1>2, <1>6 DEF Waiting, ReqOf
<1>10. Answered' /\ ~Waiting' /\ lkReps'[i][1].sids = m.sids
  <2>1. lkMain' = lkMain
    BY <1>2
  <2>2. Len(lkReqs'[i]) = 0 /\ Len(lkReps'[i]) = 1 /\ lkReps'[i][1] = m
    BY <1>7, <1>8
  <2> QED
    BY <1>3, <1>6, <1>9, <2>1, <2>2 DEF Answered, Waiting
<1>11. InStep'
  <2>1. lkMain'.failed = FALSE /\ \A j \in Insts : lkCut'[j] = FALSE
    BY <1>2, <1>4 DEF InStep
  <2>2. \A j \in Insts : lkMain'.op = "idle" \/ j # lkMain'.at => Quiet(j)'
    BY <1>2, <1>4, <1>6, <1>8 DEF InStep, Quiet
  <2> QED
    BY <1>10, <2>1, <2>2 DEF InStep
<1>12. \A j \in Insts : lkDb'[j] \subseteq lkDb[j]
  BY <1>8
<1>13. Terminating'
  <2>1. SUFFICES ASSUME lkMain.op = "terminate-session"
                 PROVE  /\ lkMain.sid \in lkMade /\ lkMain.found = FALSE
                        /\ \A j \in Insts : j < lkMain.at => lkMain.sid \notin lkDb'[j]
                        /\ lkMain.sid \notin lkDb'[i]
                        /\ m.sids # {} => LkHome[lkMain.sid] = i
    BY <1>2, <1>6, <1>10 DEF Terminating
  <2>2. gone = Deleted(i, r) /\ m.sids = Deleted(i, r)
    BY <1>2, <1>3, <1>9, <2>1 DEF MayDelete, Answer
  <2>3. Deleted(i, r) = {s \in lkDb[i] : s = lkMain.sid}
    BY <1>9, <2>1 DEF Deleted
  <2>4. lkMain.sid \notin lkDb'[i]
    BY <1>8, <2>2, <2>3
  <2>5. m.sids # {} => LkHome[lkMain.sid] = i
    BY <2>2, <2>3 DEF AtHome
  <2> QED
    BY <1>4, <1>12, <2>1, <2>4, <2>5 DEF Terminating
<1>14. Listing'
  <2>1. SUFFICES ASSUME lkMain.op = "list", NEW s \in lkMain.before
                 PROVE  /\ LkHome[s] < lkMain.at => s \in lkMain.answers
                        /\ LkHome[s] > lkMain.at => s \in lkDb'[LkHome[s]]
                        /\ LkHome[s] = lkMain.at => s \in m.sids
    BY <1>2, <1>6, <1>10 DEF Listing
  <2>2. m.sids = lkDb[i]
    BY <1>3, <1>9, <2>1 DEF Answer
  <2>3. LkHome[s] \in Insts /\ Insts \subseteq Int
    BY <2>1, LinkAssumption DEF LinkAssumption, LinkTypes, AskType, Insts
  <2> QED
    BY <1>4, <1>6, <1>8, <2>1, <2>2, <2>3 DEF Listing
<1>15. LastDone'
  BY <1>2, <1>4, <1>12 DEF LastDone
<1> QED
  BY <1>11, <1>13, <1>14, <1>15

\* main asks.
LEMMA OrderAsk ==
  ASSUME LinkTypes, AtHome, OrderInv, LkAsk
  PROVE  OrderInv'
<1>1. SUFFICES ASSUME lkOrderly'
               PROVE  InStep' /\ Terminating' /\ Listing' /\ LastDone'
  BY DEF OrderInv
<1>2. PICK a \in Asks :
        /\ lkMain.op = "idle" /\ lkMain' \in AskType /\ lkMain'.op = a.op /\ lkMain'.op \in Ops
        /\ lkMain'.sid = a.sid
        /\ lkMain'.at = a.at /\ lkMain'.found = FALSE /\ lkMain'.failed = FALSE /\ lkMain'.answers = {}
        /\ lkMain'.before = UNION {lkDb[i] : i \in Insts}
        /\ lkReqs' = [lkReqs EXCEPT ![a.at] = Append(@, ReqOf(lkMain'))]
        /\ UNCHANGED <<lkDb, lkMade, lkConfig, lkReps, lkCut, lkStopping, lkLast, lkOrderly>>
  BY AskEffect
<1>3. InStep /\ Terminating /\ Listing /\ LastDone
  BY <1>1, <1>2 DEF OrderInv
<1>4. a.at \in Insts /\ ReqOf(lkMain') \in ReqType /\ lkReqs[a.at] \in Seq(ReqType)
  BY <1>2, ReqOfType DEF AskType, LinkTypes
<1>5. \A i \in Insts : Quiet(i)
  BY <1>2, <1>3 DEF InStep
<1>6. Len(Append(lkReqs[a.at], ReqOf(lkMain'))) = 1 /\ Append(lkReqs[a.at], ReqOf(lkMain'))[1] = ReqOf(lkMain')
  BY <1>4, <1>5, Queues DEF Quiet
<1>7. lkReqs'[a.at] = Append(lkReqs[a.at], ReqOf(lkMain')) /\ \A j \in Insts : j # a.at => lkReqs'[j] = lkReqs[j]
  BY <1>2, <1>4 DEF LinkTypes
<1>8. Waiting' /\ ~Answered'
  <2>1. Len(lkReqs'[lkMain'.at]) = 1 /\ lkReqs'[lkMain'.at][1] = ReqOf(lkMain')
    BY <1>2, <1>6, <1>7
  <2>2. Len(lkReps'[lkMain'.at]) = 0
    BY <1>2, <1>4, <1>5 DEF Quiet
  <2>3. ReqOf(lkMain)' = ReqOf(lkMain')
    BY DEF ReqOf
  <2> QED
    BY <2>1, <2>2, <2>3 DEF Waiting, Answered
<1>9. InStep'
  <2>1. \A j \in Insts : j # lkMain'.at => Quiet(j)'
    BY <1>2, <1>5, <1>7 DEF Quiet
  <2>2. lkMain'.op # "idle"
    BY <1>2 DEF Ops
  <2>3. \A j \in Insts : lkCut'[j] = FALSE
    BY <1>2, <1>3 DEF InStep
  <2> QED
    BY <1>2, <1>8, <2>1, <2>2, <2>3 DEF InStep
<1>10. \A j \in Insts : ~(j < 0)
  BY DEF Insts
<1>11. a.op = "terminate-session" => a.sid \in lkMade /\ a.at = 0
  BY AskedType
<1>12. a.op = "list" => a.at = 0
  BY AskedType
<1>13. Terminating'
  BY <1>2, <1>8, <1>10, <1>11 DEF Terminating
<1>14. Listing'
  <2>1. SUFFICES ASSUME lkMain'.op = "list", NEW s \in lkMain'.before
                 PROVE  ~(LkHome[s] < 0) /\ s \in lkDb[LkHome[s]]
    BY <1>2, <1>8, <1>12 DEF Listing
  <2>2. PICK i \in Insts : s \in lkDb[i]
    BY <1>2, <2>1
  <2>3. LkHome[s] = i
    BY <2>2 DEF AtHome
  <2> QED
    BY <1>10, <2>2, <2>3
<1>15. LastDone'
  BY <1>2, <1>3 DEF LastDone
<1> QED
  BY <1>9, <1>13, <1>14, <1>15

\* main has the answer of the instance it asked.
LEMMA OrderReceive ==
  ASSUME LinkTypes, AtHome, OrderInv, LkReceive
  PROVE  OrderInv'
<1> DEFINE at == lkMain.at
           S == lkReps[at][1].sids
           a == AnsweredBy(lkMain, S)
           f == FailedAs(lkMain)
<1>0. f \in AskType /\ f.op = lkMain.op /\ f.failed = TRUE /\ lkMain \in AskType
  BY FailedAsk DEF LinkTypes
<1>1. lkMain.op \in Ops /\ at \in Insts /\ UNCHANGED <<lkDb, lkMade>>
  BY ReceiveEffect
<1>2. \/ Proceed(f)
      \/ /\ lkReps[at] # <<>> /\ lkReps[at][1].op = lkMain.op /\ lkReps[at][1] \in RepType /\ Proceed(a)
         /\ lkReps' = [lkReps EXCEPT ![at] = Tail(@)] /\ lkCut' = lkCut
  BY ReceiveEffect DEF FailedAs, AnsweredBy
<1>3. S \in SUBSET LkSids =>
        /\ a \in AskType /\ a.op = lkMain.op /\ a.sid = lkMain.sid /\ a.user = lkMain.user /\ a.at = at
        /\ a.failed = lkMain.failed /\ a.answers = lkMain.answers \cup S /\ a.before = lkMain.before
        /\ a.found = (lkMain.found \/ S # {})
  BY <1>0, AnsweredAsk
<1>4. lkReps[at][1] \in RepType => S \in SUBSET LkSids
  BY DEF RepType
<1> HIDE DEF f, a
<1>5. CASE Proceed(f)
  BY <1>0, <1>1, <1>5, ProceedEffect DEF OrderInv
<1>6. CASE /\ lkReps[at] # <<>> /\ lkReps[at][1].op = lkMain.op /\ lkReps[at][1] \in RepType /\ Proceed(a)
           /\ lkReps' = [lkReps EXCEPT ![at] = Tail(@)] /\ lkCut' = lkCut
  <2>1. SUFFICES ASSUME lkOrderly'
                 PROVE  InStep' /\ Terminating' /\ Listing' /\ LastDone'
    BY DEF OrderInv
  <2>2. /\ a \in AskType /\ a.op = lkMain.op /\ a.sid = lkMain.sid /\ a.user = lkMain.user /\ a.at = at
        /\ a.failed = lkMain.failed /\ a.answers = lkMain.answers \cup S /\ a.before = lkMain.before
        /\ a.found = (lkMain.found \/ S # {}) /\ a.op \in Ops
    BY <1>1, <1>3, <1>4, <1>6
  <2>3. lkOrderly
    BY <1>6, <2>1, <2>2, ProceedEffect
  <2>4. InStep /\ Terminating /\ Listing /\ LastDone
    BY <2>3 DEF OrderInv
  <2>5. lkReps[at] \in Seq(RepType) /\ Len(lkReps[at]) # 0
    BY <1>1, <1>6, Queues DEF LinkTypes
  <2>6. lkMain.op # "idle" /\ Answered /\ ~Waiting
    BY <1>1, <2>4, <2>5 DEF InStep, Waiting, Ops
  <2>7. /\ Len(lkReps'[at]) = 0 /\ Len(lkReqs[at]) = 0
        /\ \A j \in Insts : j # at => lkReps'[j] = lkReps[j]
    BY <1>1, <1>6, <2>5, <2>6, Queues DEF Answered, LinkTypes
  <2>8. \A j \in Insts : Len(lkReqs[j]) = 0 /\ Len(lkReps'[j]) = 0
    BY <2>4, <2>7 DEF InStep, Quiet
  <2>9. lkMain.failed = FALSE /\ \A j \in Insts : lkCut'[j] = FALSE
    BY <1>6, <2>4 DEF InStep
  <2>10. Insts = 0..LkCount - 1 /\ LkCount \in Nat
    BY LinkAssumption DEF LinkAssumption, Insts
  <2>11. lkMain.op = "terminate-session" =>
           /\ lkMain.sid \in lkMade /\ lkMain.found = FALSE
           /\ \A i \in Insts : i < at + 1 => lkMain.sid \notin lkDb[i]
           /\ S # {} => LkHome[lkMain.sid] = at
    <3>1. HAVE lkMain.op = "terminate-session"
    <3>2. lkMain.sid \notin lkDb[at] /\ (S # {} => LkHome[lkMain.sid] = at)
      BY <2>4, <2>6, <3>1 DEF Terminating
    <3>3. \A i \in Insts : i < at + 1 => i = at \/ i < at
      BY <1>1, <2>10
    <3> QED
      BY <2>4, <3>1, <3>2, <3>3 DEF Terminating
  <2>12. lkMain.op = "list" => \A s \in lkMain.before :
           /\ LkHome[s] \in Insts
           /\ LkHome[s] < at + 1 => s \in lkMain.answers \cup S
           /\ LkHome[s] > at => s \in lkDb[LkHome[s]]
    <3>1. SUFFICES ASSUME lkMain.op = "list", NEW s \in lkMain.before
                   PROVE  /\ LkHome[s] \in Insts
                          /\ LkHome[s] < at + 1 => s \in lkMain.answers \cup S
                          /\ LkHome[s] > at => s \in lkDb[LkHome[s]]
      OBVIOUS
    <3>2. LkHome[s] \in Insts
      BY <1>0, <3>1, LinkAssumption DEF LinkAssumption, AskType
    <3>3. LkHome[s] < at + 1 => LkHome[s] = at \/ LkHome[s] < at
      BY <1>1, <2>10, <3>2
    <3>4. /\ LkHome[s] < at => s \in lkMain.answers
          /\ LkHome[s] > at => s \in lkDb[LkHome[s]]
          /\ LkHome[s] = at => s \in S
      BY <2>4, <2>6, <3>1 DEF Listing
    <3> QED
      BY <3>2, <3>3, <3>4
  <2> HIDE DEF S, at
  <2>13. CASE LoopEnds(a)
    <3>1. /\ lkMain' = NoAsk /\ lkReqs' = lkReqs /\ lkLast'.op = a.op /\ lkLast'.sid = a.sid
          /\ lkLast'.before = a.before /\ lkLast'.answers = a.answers
      BY <1>6, <2>2, <2>13, ProceedEffect
    <3>2. NoAsk.op = "idle" /\ NoAsk.failed = FALSE
      BY DEF NoAsk
    <3>3. \A j \in Insts : Quiet(j)'
      BY <2>8, <3>1 DEF Quiet
    <3>4. InStep'
      BY <2>9, <3>1, <3>2, <3>3 DEF InStep
    <3>5. Terminating' /\ Listing'
      BY <3>1, <3>2 DEF Terminating, Listing
    <3>6. lkMain.op = "terminate-session" => \A i \in Insts : lkMain.sid \notin lkDb[i]
      <4>1. HAVE lkMain.op = "terminate-session"
      <4>2. CASE at + 1 = LkCount
        <5>1. \A i \in Insts : i < at + 1
          BY <2>10, <4>2
        <5> QED
          BY <2>11, <4>1, <5>1
      <4>3. CASE S # {}
        <5>1. at \in Insts /\ at < at + 1
          BY <1>1, <2>10
        <5>2. LkHome[lkMain.sid] = at /\ lkMain.sid \notin lkDb[at]
          BY <2>11, <4>1, <4>3, <5>1
        <5> QED
          BY <5>2 DEF AtHome
      <4>4. a.found => S # {}
        BY <2>2, <2>11, <4>1
      <4> QED
        BY <2>2, <2>13, <4>1, <4>2, <4>3, <4>4 DEF LoopEnds
    <3>7. lkMain.op = "list" => lkMain.before \subseteq lkMain.answers \cup S
      <4>1. HAVE lkMain.op = "list"
      <4>2. at + 1 = LkCount
        BY <2>2, <2>13, <4>1 DEF LoopEnds
      <4> QED
        BY <2>10, <2>12, <4>1, <4>2
    <3>8. LastDone'
      BY <1>1, <2>2, <2>11, <3>1, <3>6, <3>7 DEF LastDone
    <3> QED
      BY <3>4, <3>5, <3>8
  <2>14. CASE ~LoopEnds(a)
    <3>1. /\ at + 1 \in Insts /\ lkLast' = lkLast /\ lkMain' \in AskType
          /\ lkMain'.op = a.op /\ lkMain'.sid = a.sid /\ lkMain'.user = a.user /\ lkMain'.at = at + 1
          /\ lkMain'.found = a.found /\ lkMain'.failed = a.failed
          /\ lkMain'.before = a.before /\ lkMain'.answers = a.answers
          /\ lkReqs' = [lkReqs EXCEPT ![at + 1] = Append(@, ReqOf(a))]
      BY <1>6, <2>2, <2>14, ProceedEffect
    <3>2. ReqOf(a) \in ReqType /\ ReqOf(lkMain)' = ReqOf(a)
      BY <2>2, <3>1, ReqOfType DEF ReqOf
    <3>3. lkReqs[at + 1] \in Seq(ReqType)
      BY <3>1 DEF LinkTypes
    <3>4. Len(Append(lkReqs[at + 1], ReqOf(a))) = 1 /\ Append(lkReqs[at + 1], ReqOf(a))[1] = ReqOf(a)
      BY <2>8, <3>1, <3>2, <3>3, Queues
    <3>5. lkReqs'[at + 1] = Append(lkReqs[at + 1], ReqOf(a)) /\ \A j \in Insts : j # at + 1 => lkReqs'[j] = lkReqs[j]
      BY <3>1 DEF LinkTypes
    <3>6. Waiting' /\ ~Answered'
      BY <2>8, <3>1, <3>2, <3>4, <3>5 DEF Waiting, Answered
    <3>7. InStep'
      <4>1. \A j \in Insts : j # lkMain'.at => Quiet(j)'
        BY <2>8, <3>1, <3>5 DEF Quiet
      <4>2. lkMain'.op # "idle" /\ lkMain'.failed = FALSE
        BY <2>2, <2>6, <2>9, <3>1
      <4> QED
        BY <2>9, <3>6, <4>1, <4>2 DEF InStep
    <3>8. Terminating'
      <4>1. SUFFICES ASSUME lkMain.op = "terminate-session"
                     PROVE  /\ lkMain.sid \in lkMade /\ lkMain'.found = FALSE
                            /\ \A i \in Insts : i < at + 1 => lkMain.sid \notin lkDb[i]
        BY <1>1, <2>2, <3>1, <3>6 DEF Terminating
      <4>2. ~a.found /\ lkMain'.found \in BOOLEAN
        BY <2>2, <2>14, <3>1, <4>1 DEF LoopEnds, AskType
      <4> QED
        BY <2>11, <3>1, <4>1, <4>2
    <3>9. Listing'
      <4>1. SUFFICES ASSUME lkMain.op = "list", NEW s \in lkMain.before
                     PROVE  /\ LkHome[s] < at + 1 => s \in lkMain.answers \cup S
                            /\ LkHome[s] > at + 1 => s \in lkDb[LkHome[s]]
                            /\ LkHome[s] = at + 1 => s \in lkDb[at + 1]
        BY <1>1, <2>2, <3>1, <3>6 DEF Listing
      <4>2. LkHome[s] >= at + 1 => LkHome[s] > at
        BY <1>1, <2>10, <2>12, <4>1
      <4>3. LkHome[s] \in Int /\ at \in Int
        BY <1>1, <2>10, <2>12, <4>1
      <4> QED
        BY <2>12, <4>1, <4>2, <4>3
    <3>10. LastDone'
      BY <1>1, <2>4, <3>1 DEF LastDone
    <3> QED
      BY <3>7, <3>8, <3>9, <3>10
  <2> QED
    BY <2>13, <2>14
<1> QED
  BY <1>2, <1>5, <1>6

\* Every step keeps OrderInv.
LEMMA OrderStep ==
  ASSUME LinkTypes, AtHome, OrderInv, [LkNext]_lkvars
  PROVE  OrderInv'
<1>0. lkMain \in AskType
  BY DEF LinkTypes
<1>1. CASE LkTimeout
  <2> DEFINE f == FailedAs(lkMain)
  <2>1. f \in AskType /\ f.op = lkMain.op /\ f.failed = TRUE
    BY <1>0, FailedAsk, Zenon
  <2>2. lkMain.op \in Ops /\ Proceed(f)
    BY <1>1, TimeoutEffect
  <2> HIDE DEF f
  <2> QED
    BY <2>1, <2>2, ProceedEffect DEF OrderInv
<1>2. ASSUME Elsewhere
      PROVE  InStep' = InStep /\ Waiting' = Waiting /\ Answered' = Answered
  BY <1>2 DEF Elsewhere, InStep, Waiting, Answered, Quiet, ReqOf
<1>3. CASE Elsewhere /\ UNCHANGED <<lkDb, lkMade>>
  BY <1>3 DEF Elsewhere, OrderInv, InStep, Waiting, Answered, Quiet, ReqOf, Terminating, Listing, LastDone
<1>4. ASSUME NEW s \in LkSids, Elsewhere, s \notin lkMade, lkMade' = lkMade \cup {s},
             lkDb' = [lkDb EXCEPT ![LkHome[s]] = @ \cup {s}]
      PROVE  OrderInv'
  <2>1. \A i \in Insts : lkDb[i] \subseteq lkDb'[i] /\ lkDb'[i] \subseteq lkDb[i] \cup {s}
    BY <1>4 DEF LinkTypes
  <2>2. lkMain.at \in Insts /\ \A t \in lkMain.before : LkHome[t] \in Insts
    BY LinkAssumption DEF LinkAssumption, LinkTypes, AskType
  <2>3. UNCHANGED <<lkMain, lkReps, lkLast, lkOrderly>>
    BY <1>4 DEF Elsewhere
  <2>4. Terminating => Terminating'
    BY <1>2, <1>4, <2>1, <2>2, <2>3 DEF Terminating
  <2>5. Listing => Listing'
    BY <1>2, <1>4, <2>1, <2>2, <2>3 DEF Listing
  <2>6. LastDone => LastDone'
    BY <1>4, <2>1, <2>3 DEF LastDone
  <2> QED
    BY <1>2, <1>4, <2>3, <2>4, <2>5, <2>6 DEF OrderInv
<1> QED
  BY <1>1, <1>3, <1>4, LinkSteps, OrderServe, OrderAsk, OrderReceive

-----------------------------------------------------------------------------
(* The theorems.                                                            *)

LinkInv == LinkTypes /\ AtHome /\ ReloadInv /\ OrderInv

\* The inductive invariant of the link: a cookie stays with its instance, a reload is confirmed
\* only by an instance that applied it, and while no request of main failed the synchronous
\* sockets hold at most the one request it waits for or its answer.
THEOREM LinkInvariant == LkSpec => []LinkInv
<1>1. LkInit => LinkInv
  <2> SUFFICES ASSUME LkInit PROVE LinkInv
    OBVIOUS
  <2>1. NoAsk \in AskType /\ NoAsk.op = "idle" /\ NoAsk.failed = FALSE
    BY AskFields DEF NoAsk
  <2>2. LinkTypes
    <3>1. lkDb \in [Insts -> SUBSET LkSids] /\ lkMade \in SUBSET LkSids /\ lkConfig \in [Insts -> Nat]
      BY DEF LkInit
    <3>2. lkReqs \in [Insts -> Seq(ReqType)] /\ lkReps \in [Insts -> Seq(RepType)]
      BY DEF LkInit
    <3>3. lkCut \in [Insts -> BOOLEAN] /\ lkStopping \in BOOLEAN /\ lkOrderly \in BOOLEAN
      BY DEF LkInit
    <3>4. lkMain = NoAsk /\ lkLast = NoAsk
      BY DEF LkInit
    <3> QED
      BY <2>1, <3>1, <3>2, <3>3, <3>4 DEF LinkTypes
  <2>3. AtHome
    BY DEF LkInit, AtHome
  <2>4. ReloadInv
    <3>1. \A i \in Insts : 1..Len(lkReps[i]) = {}
      BY DEF LkInit
    <3>2. lkMain.op = "idle" /\ lkLast.op = "idle"
      BY <2>1 DEF LkInit
    <3> QED
      BY <3>1, <3>2 DEF ReloadInv, ReloadIsForAll
  <2>5. InStep
    BY <2>1 DEF LkInit, InStep, Quiet
  <2>6. Terminating /\ Listing /\ LastDone
    BY <2>1 DEF LkInit, Terminating, Listing, LastDone
  <2> QED
    BY <2>2, <2>3, <2>4, <2>5, <2>6 DEF LinkInv, OrderInv
<1>2. LinkInv /\ [LkNext]_lkvars => LinkInv'
  BY LinkTypesStep, HomeStep, ReloadStep, OrderStep DEF LinkInv
<1> QED
  BY <1>1, <1>2, PTL DEF LkSpec

\* For any number of instances and cookies, however late the answers of the instances come: what
\* main was told of all its instances is true of all of them (terminate_session_in_secmod,
\* method_list_cookies, reload_sig_watcher_cb).
THEOREM InstancesDoAgree == LkSpec => []InstancesAgree
<1>1. LinkInv => InstancesAgree
  BY DEF LinkInv, OrderInv, ReloadInv, LastDone, InstancesAgree, TerminatedIsGone, ListIsComplete
<1> QED
  BY <1>1, LinkInvariant, PTL
=============================================================================
