------------------------- MODULE RequestPipelineProofs -------------------------
(***************************************************************************)
(* Proofs about RequestPipeline for every set of requests, tokens and      *)
(* inputs.                                                                 *)
(***************************************************************************)
EXTENDS RequestPipelineProperties, TLAPS

\* What the proofs need to know of the routes.
LEMMA RoutingFacts ==
  \A p \in DOMAIN Routing :
    /\ p \notin {"unknown", "outside"}
    /\ Routing[p].auth \in {"none", "jwt", "apiKey", "monitoring"}
    /\ Routing[p].status \in {200, 201}
    /\ p = "health" => Routing[p].status = 200 /\ Routing[p].auth = "monitoring"
BY DEF Routing, Route

LEMMA FailuresAreFailures ==
  \A p : FailureStatuses(p) \subseteq {400, 401, 404, 409, 422, 500}
BY DEF FailureStatuses

-------------------------------------------------------------------------------
\* A step of a request leaves the others alone.

Same(q) ==
  /\ stage'[q] = stage[q] /\ context'[q] = context[q] /\ header'[q] = header[q]
  /\ user'[q] = user[q] /\ log'[q] = log[q] /\ answer'[q] = answer[q]
  /\ before'[q] = before[q]
  /\ q \in called' <=> q \in called

\* A revoked token stays on the blacklist until it has expired.
Monotone ==
  /\ req' = req
  /\ expired \subseteq expired'
  /\ blacklist \cup expired \subseteq blacklist' \cup expired'

\* What the invariant says of one request.
LogTells(r) ==
  /\ log[r] # <<>> => log[r][1].phase = "incoming"
  /\ stage[r] = "answered" =>
       \/ log[r] = <<>> /\ r \notin called /\ answer[r].status >= 400
       \/ /\ Len(log[r]) = 2
          /\ log[r][2].status = answer[r].status
          /\ log[r][2].phase = "completed" <=> answer[r].status < 400

InvOf(r) == IdsOnTheWay(r) /\ LogOnTheWay(r) /\ GuardsOnTheWay(r) /\ LogTells(r)

LEMMA Undisturbed ==
  ASSUME NEW q \in Requests, InvOf(q), Same(q), Monotone
  PROVE  InvOf(q)'
<1> USE DEF Same, Monotone, InvOf
<1>1. NeedsJwt(q)' = NeedsJwt(q) /\ AllyOf(q)' = AllyOf(q)
  BY DEF NeedsJwt, AllyOf
<1>2. IdsOnTheWay(q)'
  BY <1>1 DEF IdsOnTheWay, MeetsMiddleware
<1>3. LogOnTheWay(q)' /\ LogTells(q)'
  BY DEF LogOnTheWay, LogTells
<1>4. GuardsOnTheWay(q)'
  BY <1>1 DEF GuardsOnTheWay, PastGuards
<1> QED BY <1>2, <1>3, <1>4

LEMMA OthersUndisturbed ==
  ASSUME PipelineTypeOK, NEW r \in Requests, Advance(r)
  PROVE  Monotone /\ \A q \in Requests \ {r} : Same(q)
<1> USE DEF Monotone, Same, PipelineTypeOK, sharedVars
<1>0. CASE PassBy(r)
  BY <1>0 DEF PassBy, Refuse, Answer
<1>1. CASE Enter(r)
  BY <1>1 DEF Enter, SetContext, Answer, Goto
<1>2. CASE VerifyJwt(r)
  BY <1>2 DEF VerifyJwt, Refuse, Answer, Goto
<1>3. CASE CheckBlacklist(r)
  BY <1>3 DEF CheckBlacklist, Reject, Admit, SetContext, Refuse, Answer, Goto
<1>4. CASE GuardController(r)
  <2>1. \A q \in Requests \ {r} : stage'[q] = stage[q] /\ answer'[q] = answer[q]
    BY <1>4 DEF GuardController, Refuse, Answer, Goto
  <2>2. \A q \in Requests \ {r} : context'[q] = context[q]
    BY <1>4 DEF GuardController, SetContext
  <2> QED BY <1>4, <2>1, <2>2 DEF GuardController
<1>5. CASE Intercept(r)
  BY <1>5 DEF Intercept, Write, Goto
<1>6. CASE TransformInput(r)
  BY <1>6 DEF TransformInput, Fail, Write, Refuse, Answer, Goto
<1>7. CASE Handle(r)
  <2>1. \A q \in Requests \ {r} :
          stage'[q] = stage[q] /\ answer'[q] = answer[q] /\ log'[q] = log[q]
    BY <1>7 DEF Handle, Fail, Write, Refuse, Succeed, Answer
  <2> QED BY <1>7, <2>1 DEF Handle
<1> QED BY <1>0, <1>1, <1>2, <1>3, <1>4, <1>5, <1>6, <1>7 DEF Advance

-------------------------------------------------------------------------------
\* Types.

LEMMA NewIds == \A r \in Requests : NewId("correlation", r) \in Ids /\ NewId("request", r) \in Ids
BY DEF NewId, Ids

LEMMA InputTypes ==
  ASSUME PipelineTypeOK, NEW r \in Requests
  PROVE  /\ req[r] \in HttpRequests
         /\ req[r].path \in Paths /\ req[r].clientId \in Allies \cup {None}
         /\ req[r].corr \in CorrelationIds \cup {None}
         /\ req[r].token \in Tokens => SubOf[req[r].token] \in Allies
<1>1. req[r] \in HttpRequests
  BY PipelineAssumption DEF PipelineTypeOK
<1> QED BY <1>1, PipelineAssumption DEF HttpRequests

Contexts == [corr : Ids \cup {None}, request : Ids \cup {None}, ally : Allies \cup {None}]

LEMMA ContextTypes ==
  ASSUME PipelineTypeOK, NEW r \in Requests, NEW ally \in Allies,
         SetContext(r, [context[r] EXCEPT !.ally = ally])
  PROVE  context' \in [Requests -> Contexts]
<1>1. context \in [Requests -> Contexts]
  BY DEF PipelineTypeOK, Contexts
<1>2. [context[r] EXCEPT !.ally = ally] \in Contexts
  BY <1>1 DEF Contexts
<1> QED BY <1>1, <1>2 DEF SetContext

\* The frame of a step that changes stage and perhaps the answer.
LEMMA RefuseTypes ==
  ASSUME PipelineTypeOK, NEW r \in Requests, NEW status \in Nat, Refuse(r, status)
  PROVE  /\ stage' \in [Requests -> Stages]
         /\ DOMAIN answer' = Requests
         /\ \A q \in Requests : answer'[q].status \in Nat /\ answer'[q].corr \in Ids \cup {None}
BY DEF PipelineTypeOK, Refuse, Answer, Stages

LEMMA GotoTypes ==
  ASSUME PipelineTypeOK, NEW r \in Requests, NEW s \in Stages, Goto(r, s)
  PROVE  /\ stage' \in [Requests -> Stages]
         /\ DOMAIN answer' = Requests
         /\ \A q \in Requests : answer'[q].status \in Nat /\ answer'[q].corr \in Ids \cup {None}
BY DEF PipelineTypeOK, Goto

LEMMA WriteTypes ==
  ASSUME PipelineTypeOK, NEW r \in Requests, NEW status \in Nat,
         NEW phase \in {"incoming", "completed", "failed"}, Write(r, phase, status)
  PROVE  log' \in [Requests -> Seq(LogLines)]
<1>1. Line(r, phase, status) \in LogLines
  BY DEF PipelineTypeOK, Line, LogLines
<1> QED BY <1>1 DEF PipelineTypeOK, Write

LEMMA PassByRefuses ==
  ASSUME PipelineTypeOK, NEW r \in Requests, PassBy(r)
  PROVE  \E status \in {400, 404, 500} : Refuse(r, status)
<1>1. req[r].body \in {"parsed", "malformed", "tooLarge"}
  BY InputTypes DEF HttpRequests, ParserStatus
<1> QED BY <1>1 DEF PassBy, ParserStatus

LEMMA AdvanceTypes ==
  ASSUME PipelineTypeOK, NEW r \in Requests, Advance(r), GuardsOnTheWay(r)
  PROVE  PipelineTypeOK'
<1> USE DEF sharedVars
<1>0. CASE PassBy(r)
  <2>1. PICK status \in {400, 404, 500} : Refuse(r, status)
    BY <1>0, PassByRefuses
  <2>2. /\ stage' \in [Requests -> Stages]
        /\ DOMAIN answer' = Requests
        /\ \A q \in Requests : answer'[q].status \in Nat /\ answer'[q].corr \in Ids \cup {None}
    BY <2>1, RefuseTypes
  <2> QED BY <1>0, <2>2 DEF PassBy, PipelineTypeOK
<1>1. CASE Enter(r)
  <2> DEFINE corr == IF req[r].corr # None THEN req[r].corr ELSE NewId("correlation", r)
             id == NewId("request", r)
  <2>1. corr \in Ids /\ id \in Ids
    BY InputTypes, NewIds DEF Ids
  <2>2. context' \in [Requests -> [corr : Ids \cup {None}, request : Ids \cup {None},
                                   ally : Allies \cup {None}]]
    BY <1>1, <2>1 DEF Enter, SetContext, PipelineTypeOK
  <2>3. header' \in [Requests -> [corr : Ids \cup {None}, request : Ids \cup {None}]]
    BY <1>1, <2>1 DEF Enter, PipelineTypeOK
  <2>4. before' \in [Requests -> [revoked : SUBSET Tokens, expired : SUBSET Tokens]]
    BY <1>1 DEF Enter, PipelineTypeOK
  <2>5. /\ stage' \in [Requests -> Stages]
        /\ DOMAIN answer' = Requests
        /\ \A q \in Requests : answer'[q].status \in Nat /\ answer'[q].corr \in Ids \cup {None}
    <3>1. \/ Goto(r, "jwtGuard")
          \/ Answer(r, [status |-> 404, code |-> ErrorCode(404), corr |-> corr])
      BY <1>1 DEF Enter
    <3>2. CASE Answer(r, [status |-> 404, code |-> ErrorCode(404), corr |-> corr])
      BY <3>2, <2>1 DEF PipelineTypeOK, Answer, Stages
    <3> QED BY <3>1, <3>2, GotoTypes DEF Stages
  <2> QED BY <1>1, <2>2, <2>3, <2>4, <2>5 DEF Enter, PipelineTypeOK
<1>2. CASE VerifyJwt(r)
  <2>1. Goto(r, "guard") \/ Goto(r, "blacklist") \/ Refuse(r, 401)
    BY <1>2 DEF VerifyJwt
  <2>2. "guard" \in Stages /\ "blacklist" \in Stages /\ 401 \in Nat
    BY DEF Stages
  <2>3. /\ stage' \in [Requests -> Stages]
        /\ DOMAIN answer' = Requests
        /\ \A q \in Requests : answer'[q].status \in Nat /\ answer'[q].corr \in Ids \cup {None}
    BY <2>1, <2>2, GotoTypes, RefuseTypes
  <2> QED BY <1>2, <2>3 DEF VerifyJwt, PipelineTypeOK
<1>3. CASE CheckBlacklist(r)
  <2>1. CASE Admit(r)
    <3>1. stage[r] = "blacklist" /\ SubOf[req[r].token] \in Allies
      BY <1>3, InputTypes DEF CheckBlacklist, GuardsOnTheWay, NeedsJwt
    <3>2. /\ stage' \in [Requests -> Stages]
          /\ DOMAIN answer' = Requests
          /\ \A q \in Requests : answer'[q].status \in Nat /\ answer'[q].corr \in Ids \cup {None}
      BY <2>1, GotoTypes DEF Admit, Stages
    <3>3. context' \in [Requests -> [corr : Ids \cup {None}, request : Ids \cup {None},
                                     ally : Allies \cup {None}]]
      BY <2>1, <3>1, ContextTypes DEF Admit, Contexts
    <3>4. user' \in [Requests -> Allies \cup {None}]
      BY <2>1, <3>1 DEF Admit, PipelineTypeOK
    <3> QED BY <1>3, <3>2, <3>3, <3>4 DEF CheckBlacklist, PipelineTypeOK
  <2>2. CASE Reject(r, 401) \/ Reject(r, 500)
    <3>1. /\ stage' \in [Requests -> Stages]
          /\ DOMAIN answer' = Requests
          /\ \A q \in Requests : answer'[q].status \in Nat /\ answer'[q].corr \in Ids \cup {None}
      BY <2>2, RefuseTypes DEF Reject
    <3> QED BY <1>3, <2>2, <3>1 DEF CheckBlacklist, Reject, PipelineTypeOK
  <2> QED BY <1>3, <2>1, <2>2 DEF CheckBlacklist
<1>4. CASE GuardController(r)
  <2>1. /\ stage' \in [Requests -> Stages]
        /\ DOMAIN answer' = Requests
        /\ \A q \in Requests : answer'[q].status \in Nat /\ answer'[q].corr \in Ids \cup {None}
    <3>1. Goto(r, "interceptors") \/ Refuse(r, 401) \/ Refuse(r, 403)
      BY <1>4 DEF GuardController
    <3> QED BY <3>1, GotoTypes, RefuseTypes DEF Stages
  <2>2. context' \in [Requests -> [corr : Ids \cup {None}, request : Ids \cup {None},
                                   ally : Allies \cup {None}]]
    <3>1. \/ UNCHANGED context
          \/ /\ req[r].clientId # None
             /\ SetContext(r, [context[r] EXCEPT !.ally = req[r].clientId])
      BY <1>4 DEF GuardController
    <3>2. req[r].clientId # None => req[r].clientId \in Allies
      BY InputTypes
    <3>3. CASE UNCHANGED context
      BY <3>3 DEF PipelineTypeOK
    <3>4. CASE /\ req[r].clientId # None
               /\ SetContext(r, [context[r] EXCEPT !.ally = req[r].clientId])
      BY <3>2, <3>4, ContextTypes DEF Contexts
    <3> QED BY <3>1, <3>3, <3>4
  <2> QED BY <1>4, <2>1, <2>2 DEF GuardController, PipelineTypeOK
<1>5. CASE Intercept(r)
  <2>1. log' \in [Requests -> Seq(LogLines)]
    BY <1>5, WriteTypes DEF Intercept
  <2>2. /\ stage' \in [Requests -> Stages]
        /\ DOMAIN answer' = Requests
        /\ \A q \in Requests : answer'[q].status \in Nat /\ answer'[q].corr \in Ids \cup {None}
    BY <1>5, GotoTypes DEF Intercept, Stages
  <2> QED BY <1>5, <2>1, <2>2 DEF Intercept, PipelineTypeOK
<1>6. CASE TransformInput(r)
  <2>1. /\ log' \in [Requests -> Seq(LogLines)]
        /\ called' \subseteq Requests
    BY <1>6, WriteTypes DEF TransformInput, Fail, PipelineTypeOK
  <2>2. /\ stage' \in [Requests -> Stages]
        /\ DOMAIN answer' = Requests
        /\ \A q \in Requests : answer'[q].status \in Nat /\ answer'[q].corr \in Ids \cup {None}
    <3>1. Goto(r, "method") \/ Refuse(r, 400)
      BY <1>6 DEF TransformInput, Fail
    <3> QED BY <3>1, GotoTypes, RefuseTypes DEF Stages
  <2> QED BY <1>6, <2>1, <2>2 DEF TransformInput, PipelineTypeOK
<1>7. CASE Handle(r)
  <2>1. req[r].path \in DOMAIN Routing /\ Routing[req[r].path].status \in Nat
    BY <1>7, RoutingFacts DEF Handle, GuardsOnTheWay
  <2>2. \/ \E failure \in {400, 401, 404, 409, 422, 500} : Fail(r, failure)
        \/ /\ Write(r, "completed", Routing[req[r].path].status)
           /\ \/ \E external \in ExternalAnswers : Answer(r, HealthAnswer(external))
              \/ Succeed(r, Routing[req[r].path].status)
    BY <1>7, FailuresAreFailures DEF Handle
  <2>3. log' \in [Requests -> Seq(LogLines)]
    BY <2>1, <2>2, WriteTypes DEF Fail
  <2>4. /\ stage' \in [Requests -> Stages]
        /\ DOMAIN answer' = Requests
        /\ \A q \in Requests : answer'[q].status \in Nat /\ answer'[q].corr \in Ids \cup {None}
    <3>1. CASE \E failure \in {400, 401, 404, 409, 422, 500} : Fail(r, failure)
      BY <3>1, RefuseTypes DEF Fail
    <3>2. CASE \E external \in ExternalAnswers : Answer(r, HealthAnswer(external))
      BY <3>2 DEF Answer, HealthAnswer, PipelineTypeOK, Stages
    <3>3. CASE Succeed(r, Routing[req[r].path].status)
      BY <3>3, <2>1 DEF Succeed, Answer, PipelineTypeOK, Stages
    <3> QED BY <2>2, <3>1, <3>2, <3>3
  <2> QED BY <1>7, <2>3, <2>4 DEF Handle, PipelineTypeOK
<1> QED BY <1>0, <1>1, <1>2, <1>3, <1>4, <1>5, <1>6, <1>7 DEF Advance

-------------------------------------------------------------------------------
\* One lemma per action: the request that takes the step keeps its invariant.

LEMMA PassByKeeps ==
  ASSUME PipelineTypeOK, NEW r \in Requests, InvOf(r), PassBy(r)
  PROVE  InvOf(r)'
<1>1. /\ stage[r] = "arriving" /\ ~MeetsMiddleware(r)
      /\ UNCHANGED <<redisUp, blacklist, expired, req, context, header, user, log,
                     called, before>>
  BY DEF PassBy, sharedVars
<1>2. /\ log[r] = <<>> /\ r \notin called /\ context[r].corr = None
      /\ header[r].corr = None /\ header[r].request = None
      /\ context[r].request = None
  BY <1>1 DEF InvOf, IdsOnTheWay
<1>3. PICK status \in {400, 404, 500} : Refuse(r, status)
  BY PassByRefuses
<1>4. stage'[r] = "answered" /\ answer'[r].status = status /\ answer'[r].corr = None
  BY <1>2, <1>3 DEF Refuse, Answer, PipelineTypeOK
<1>5. answer'[r].status >= 400
  BY <1>4
<1>6. IdsOnTheWay(r)'
  BY <1>1, <1>2, <1>4, <1>5 DEF IdsOnTheWay, MeetsMiddleware
<1>7. LogOnTheWay(r)' /\ LogTells(r)'
  BY <1>1, <1>2, <1>4, <1>5 DEF LogOnTheWay, LogTells
<1>8. GuardsOnTheWay(r)'
  BY <1>1, <1>2, <1>4 DEF InvOf, GuardsOnTheWay, PastGuards, NeedsJwt
<1> QED BY <1>6, <1>7, <1>8 DEF InvOf

LEMMA EnterKeeps ==
  ASSUME PipelineTypeOK, NEW r \in Requests, InvOf(r), Enter(r)
  PROVE  InvOf(r)'
<1> DEFINE corr == IF req[r].corr # None THEN req[r].corr ELSE NewId("correlation", r)
<1>1. /\ stage[r] = "arriving" /\ log[r] = <<>> /\ r \notin called /\ MeetsMiddleware(r)
      /\ UNCHANGED <<redisUp, blacklist, expired, req, user, log, called>>
  BY DEF Enter, InvOf, LogOnTheWay, sharedVars
<1>2. /\ header'[r] = [corr |-> corr, request |-> NewId("request", r)]
      /\ context'[r] = [corr |-> corr, request |-> NewId("request", r), ally |-> None]
      /\ before'[r] = [revoked |-> blacklist, expired |-> expired]
  BY DEF Enter, PipelineTypeOK, SetContext
<1>3. \/ /\ stage'[r] = "answered"
         /\ answer'[r].corr = corr /\ answer'[r].status = 404
      \/ req[r].path # "unknown" /\ stage'[r] = "jwtGuard"
  BY DEF Enter, PipelineTypeOK, Answer, Goto
<1>4. req[r].path # "unknown" => req[r].path \in DOMAIN Routing
  BY <1>1, InputTypes DEF Paths, MeetsMiddleware
<1>5. IdsOnTheWay(r)'
  BY <1>1, <1>2, <1>3 DEF IdsOnTheWay, MeetsMiddleware
<1>6. LogOnTheWay(r)' /\ LogTells(r)'
  BY <1>1, <1>3 DEF LogOnTheWay, LogTells
<1>7. GuardsOnTheWay(r)'
  BY <1>1, <1>2, <1>3, <1>4 DEF GuardsOnTheWay, PastGuards
<1> QED BY <1>5, <1>6, <1>7 DEF InvOf

\* A request refused before it reaches the interceptors.
LEMMA RefusalKeeps ==
  ASSUME PipelineTypeOK, NEW r \in Requests, InvOf(r), Monotone,
         stage[r] \in {"jwtGuard", "blacklist", "guard"},
         NEW status \in {401, 403, 500}, Refuse(r, status),
         UNCHANGED <<header, user, log, called, before>>,
         context'[r].corr = context[r].corr,
         context'[r].request = context[r].request
  PROVE  InvOf(r)'
<1>1. /\ stage'[r] = "answered"
      /\ answer'[r].status = status /\ answer'[r].corr = context[r].corr
  BY DEF Refuse, Answer, PipelineTypeOK
<1>2. log[r] = <<>> /\ r \notin called
  BY DEF InvOf, LogOnTheWay
<1>3. IdsOnTheWay(r)'
  BY <1>1, <1>2 DEF IdsOnTheWay, MeetsMiddleware, InvOf, Monotone
<1>4. LogOnTheWay(r)' /\ LogTells(r)'
  BY <1>1, <1>2 DEF LogOnTheWay, LogTells
<1>5. GuardsOnTheWay(r)'
  BY <1>1, <1>2 DEF GuardsOnTheWay, PastGuards, InvOf, Monotone
<1> QED BY <1>3, <1>4, <1>5 DEF InvOf

\* A request that goes on to a stage before the interceptors.
LEMMA GuardStepKeeps ==
  ASSUME PipelineTypeOK, NEW r \in Requests, InvOf(r), Monotone,
         stage[r] \in {"jwtGuard", "blacklist", "guard"},
         NEW s \in {"blacklist", "guard", "interceptors"}, Goto(r, s),
         UNCHANGED <<header, log, called, before>>,
         context'[r].corr = context[r].corr,
         context'[r].request = context[r].request,
         GuardsOnTheWay(r)'
  PROVE  InvOf(r)'
<1>1. stage'[r] = s /\ answer' = answer
  BY DEF Goto, PipelineTypeOK
<1>2. log[r] = <<>> /\ r \notin called
  BY DEF InvOf, LogOnTheWay
<1>3. IdsOnTheWay(r)'
  BY <1>1, <1>2 DEF IdsOnTheWay, MeetsMiddleware, InvOf, Monotone
<1>4. LogOnTheWay(r)' /\ LogTells(r)'
  BY <1>1, <1>2 DEF LogOnTheWay, LogTells
<1> QED BY <1>3, <1>4 DEF InvOf

LEMMA VerifyJwtKeeps ==
  ASSUME PipelineTypeOK, NEW r \in Requests, InvOf(r), VerifyJwt(r)
  PROVE  InvOf(r)'
<1>1. /\ stage[r] = "jwtGuard" /\ r \notin called
      /\ UNCHANGED <<redisUp, blacklist, expired, req, context, header, user, log,
                     called, before>>
  BY DEF VerifyJwt, sharedVars, InvOf, LogOnTheWay
<1>2. Monotone
  BY <1>1 DEF Monotone
<1>3. CASE Refuse(r, 401)
  BY <1>1, <1>2, <1>3, RefusalKeeps
<1>4. CASE Routing[req[r].path].auth # "jwt" /\ Goto(r, "guard")
  <2>1. stage'[r] = "guard"
    BY <1>4 DEF Goto, PipelineTypeOK
  <2>2. GuardsOnTheWay(r)'
    BY <1>1, <1>4, <2>1 DEF InvOf, GuardsOnTheWay, PastGuards, NeedsJwt
  <2> QED BY <1>1, <1>2, <1>4, <2>2, GuardStepKeeps
<1>5. CASE /\ Routing[req[r].path].auth = "jwt"
           /\ req[r].token \in Tokens \ expired /\ Goto(r, "blacklist")
  <2>1. stage'[r] = "blacklist" /\ NeedsJwt(r) /\ req[r].token \in Tokens \ before[r].expired
    BY <1>1, <1>5, RoutingFacts DEF Goto, PipelineTypeOK, InvOf, GuardsOnTheWay, NeedsJwt, Routing
  <2>2. GuardsOnTheWay(r)'
    BY <1>1, <2>1 DEF InvOf, GuardsOnTheWay, PastGuards, NeedsJwt
  <2> QED BY <1>1, <1>2, <1>5, <2>2, GuardStepKeeps
<1> QED BY <1>3, <1>4, <1>5 DEF VerifyJwt

LEMMA CheckBlacklistKeeps ==
  ASSUME PipelineTypeOK, NEW r \in Requests, InvOf(r), CheckBlacklist(r)
  PROVE  InvOf(r)'
<1>1. /\ stage[r] = "blacklist" /\ r \notin called /\ NeedsJwt(r)
      /\ UNCHANGED <<redisUp, blacklist, expired, req, header, log, called, before>>
  BY DEF CheckBlacklist, sharedVars, InvOf, LogOnTheWay, GuardsOnTheWay
<1>2. Monotone
  BY <1>1 DEF Monotone
<1>3. CASE Reject(r, 401) \/ Reject(r, 500)
  BY <1>1, <1>2, <1>3, RefusalKeeps DEF Reject
<1>4. CASE req[r].token \notin blacklist /\ Admit(r)
  <2>1. /\ stage'[r] = "guard" /\ user'[r] = SubOf[req[r].token]
        /\ context'[r] = [context[r] EXCEPT !.ally = SubOf[req[r].token]]
    BY <1>4 DEF Admit, Goto, SetContext, PipelineTypeOK
  <2>2. /\ context'[r].ally = SubOf[req[r].token]
        /\ context'[r].corr = context[r].corr /\ context'[r].request = context[r].request
    BY <2>1 DEF PipelineTypeOK
  <2>3. req[r].token \in before[r].revoked => req[r].token \in expired
    BY <1>4 DEF InvOf, GuardsOnTheWay
  <2>4. GuardsOnTheWay(r)'
    BY <1>1, <2>1, <2>2, <2>3 DEF InvOf, GuardsOnTheWay, PastGuards, NeedsJwt
  <2>5. Goto(r, "guard")
    BY <1>4 DEF Admit
  <2> QED
    <3>1. IdsOnTheWay(r)'
      BY <1>1, <1>2, <2>1, <2>2, <2>5 DEF Goto, IdsOnTheWay, MeetsMiddleware, InvOf, LogOnTheWay
    <3>2. LogOnTheWay(r)' /\ LogTells(r)'
      BY <1>1, <2>1 DEF InvOf, LogOnTheWay, LogTells
    <3> QED BY <2>4, <3>1, <3>2 DEF InvOf
<1> QED BY <1>3, <1>4 DEF CheckBlacklist

LEMMA GuardControllerKeeps ==
  ASSUME PipelineTypeOK, NEW r \in Requests, InvOf(r), GuardController(r)
  PROVE  InvOf(r)'
<1> DEFINE auth == Routing[req[r].path].auth
           clientId == IF auth = "apiKey" THEN req[r].clientId ELSE None
<1>1. /\ stage[r] = "guard" /\ r \notin called
      /\ UNCHANGED <<redisUp, blacklist, expired, req, header, user, log, called, before>>
  BY DEF GuardController, sharedVars, InvOf, LogOnTheWay
<1>2. Monotone
  BY <1>1 DEF Monotone
<1>3. \/ clientId # None /\ context'[r] = [context[r] EXCEPT !.ally = clientId]
      \/ clientId = None /\ context'[r] = context[r]
  BY DEF GuardController, SetContext, PipelineTypeOK
<1>4. context'[r].corr = context[r].corr /\ context'[r].request = context[r].request
  BY <1>3 DEF PipelineTypeOK
<1>5. CASE Refuse(r, 401) \/ Refuse(r, 403)
  BY <1>1, <1>2, <1>4, <1>5, RefusalKeeps
<1>6. CASE (auth \in {"none", "jwt"} \/ req[r].key = "right") /\ Goto(r, "interceptors")
  <2>1. stage'[r] = "interceptors"
    BY <1>6 DEF Goto, PipelineTypeOK
  <2>2. /\ req[r].path \in DOMAIN Routing
        /\ auth \in {"none", "jwt", "apiKey", "monitoring"}
    BY <1>1, RoutingFacts DEF InvOf, GuardsOnTheWay
  <2>3. NeedsJwt(r) <=> auth = "jwt"
    BY <2>2 DEF NeedsJwt
  <2>4. context'[r].ally = AllyOf(r)
    <3>1. CASE clientId # None
      BY <1>3, <2>3, <3>1 DEF AllyOf, PipelineTypeOK
    <3>2. CASE clientId = None
      BY <1>1, <1>3, <2>3, <3>2 DEF AllyOf, InvOf, GuardsOnTheWay
    <3> QED BY <3>1, <3>2
  <2>5. AllyOf(r)' = AllyOf(r) /\ NeedsJwt(r)' = NeedsJwt(r)
    BY <1>1 DEF AllyOf, NeedsJwt
  <2>6. NeedsJwt(r) =>
          /\ req[r].token \in Tokens \ before[r].expired
          /\ req[r].token \in before[r].revoked => req[r].token \in expired
          /\ user[r] = SubOf[req[r].token]
          /\ AllyOf(r) = SubOf[req[r].token]
    BY <1>1 DEF InvOf, GuardsOnTheWay, AllyOf
  <2>7. auth \in {"apiKey", "monitoring"} => req[r].key = "right"
    BY <1>6
  <2>8. GuardsOnTheWay(r)'
    <3> USE <1>1, <2>1
    <3>1. before'[r].revoked \subseteq blacklist' \cup expired' /\ before'[r].expired \subseteq expired'
      BY DEF InvOf, GuardsOnTheWay
    <3>2. req'[r].path \in DOMAIN Routing
      BY <2>2
    <3>3. NeedsJwt(r)' =>
            /\ req'[r].token \in Tokens \ before'[r].expired
            /\ req'[r].token \in before'[r].revoked => req'[r].token \in expired'
            /\ user'[r] = SubOf[req'[r].token]
            /\ context'[r].ally = SubOf[req'[r].token]
      BY <2>4, <2>5, <2>6
    <3>4. context'[r].ally = AllyOf(r)'
      BY <2>4, <2>5
    <3>5. Routing[req'[r].path].auth \in {"apiKey", "monitoring"} => req'[r].key = "right"
      BY <2>7
    <3> QED BY <3>1, <3>2, <3>3, <3>4, <3>5 DEF GuardsOnTheWay
  <2> QED BY <1>1, <1>2, <1>4, <1>6, <2>8, GuardStepKeeps
<1> QED BY <1>5, <1>6 DEF GuardController

\* What the invariant knows of a request on its way through the interceptors.
LEMMA InsideFacts ==
  ASSUME PipelineTypeOK, NEW r \in Requests, InvOf(r),
         stage[r] \in {"interceptors", "pipes", "method"}
  PROVE  /\ req[r].path \in DOMAIN Routing
         /\ context[r] = [corr |-> header[r].corr, request |-> header[r].request,
                          ally |-> AllyOf(r)]
<1>1. req[r].path \in DOMAIN Routing
  BY DEF InvOf, GuardsOnTheWay
<1>2. context[r] \in Contexts
  BY DEF PipelineTypeOK, Contexts
<1>3. /\ context[r].corr = header[r].corr /\ context[r].request = header[r].request
      /\ context[r].ally = AllyOf(r)
  BY DEF InvOf, IdsOnTheWay, MeetsMiddleware, GuardsOnTheWay, PastGuards
<1> QED BY <1>1, <1>2, <1>3 DEF Contexts

LEMMA InterceptKeeps ==
  ASSUME PipelineTypeOK, NEW r \in Requests, InvOf(r), Intercept(r)
  PROVE  InvOf(r)'
<1>1. /\ stage[r] = "interceptors" /\ stage'[r] = "pipes" /\ answer' = answer
      /\ UNCHANGED <<redisUp, blacklist, expired, req, context, header, user, called, before>>
  BY DEF Intercept, sharedVars, Goto, PipelineTypeOK
<1>2. AllyOf(r)' = AllyOf(r) /\ NeedsJwt(r)' = NeedsJwt(r)
  BY <1>1 DEF AllyOf, NeedsJwt
<1>3. /\ Len(log'[r]) = 1 /\ log'[r][1].phase = "incoming" /\ log'[r][1].ids = context[r]
      /\ DOMAIN log'[r] = {1} /\ r \notin called /\ log'[r] # <<>>
  <2>1. log[r] = <<>> /\ r \notin called
    BY <1>1 DEF InvOf, LogOnTheWay
  <2>2. log'[r] = <<Line(r, "incoming", 0)>>
    BY <2>1 DEF Intercept, Write, PipelineTypeOK
  <2> QED BY <2>1, <2>2 DEF Line
<1>4. IdsOnTheWay(r)'
  BY <1>1, <1>2, <1>3, InsideFacts DEF InvOf, IdsOnTheWay, MeetsMiddleware
<1>5. LogOnTheWay(r)' /\ LogTells(r)'
  BY <1>1, <1>3 DEF LogOnTheWay, LogTells
<1>6. GuardsOnTheWay(r)'
  BY <1>1, <1>2 DEF InvOf, GuardsOnTheWay, PastGuards
<1> QED BY <1>4, <1>5, <1>6 DEF InvOf

\* The last line of a request and its answer.
LEMMA FinishKeeps ==
  ASSUME PipelineTypeOK, NEW r \in Requests, InvOf(r),
         stage[r] \in {"pipes", "method"}, called' = called,
         UNCHANGED <<redisUp, blacklist, expired, req, context, header, user, before>>,
         NEW status \in Nat, NEW phase, Write(r, phase, status),
         phase = "completed" <=> status < 400,
         stage'[r] = "answered", answer'[r].status = status,
         \/ answer'[r].corr = context[r].corr
         \/ req[r].path = "health" /\ status = 200
  PROVE  InvOf(r)'
<1>1. AllyOf(r)' = AllyOf(r) /\ NeedsJwt(r)' = NeedsJwt(r)
  BY DEF AllyOf, NeedsJwt
<1>2. /\ Len(log'[r]) = 2 /\ DOMAIN log'[r] = {1, 2} /\ log'[r] # <<>>
      /\ log'[r][1] = log[r][1] /\ log[r][1].phase = "incoming" /\ 1 \in DOMAIN log[r]
      /\ log'[r][2].status = status /\ log'[r][2].phase = phase
      /\ log'[r][2].ids = context[r]
  <2>1. log[r] \in Seq(LogLines) /\ Len(log[r]) = 1 /\ log[r][1].phase = "incoming"
    BY DEF PipelineTypeOK, InvOf, LogOnTheWay
  <2>2. log'[r] = Append(log[r], Line(r, phase, status))
    BY DEF Write, PipelineTypeOK
  <2>3. /\ Len(log'[r]) = 2 /\ DOMAIN log'[r] = {1, 2} /\ log'[r] # <<>>
        /\ log'[r][1] = log[r][1] /\ log'[r][2] = Line(r, phase, status)
        /\ 1 \in DOMAIN log[r]
    BY <2>1, <2>2
  <2> QED BY <2>1, <2>3 DEF Line
<1>3. IdsOnTheWay(r)'
  BY <1>1, <1>2, InsideFacts DEF InvOf, IdsOnTheWay, MeetsMiddleware
<1>4. LogOnTheWay(r)' /\ LogTells(r)'
  BY <1>2 DEF LogOnTheWay, LogTells
<1>5. GuardsOnTheWay(r)'
  BY <1>1 DEF InvOf, GuardsOnTheWay, PastGuards
<1> QED BY <1>3, <1>4, <1>5 DEF InvOf

LEMMA TransformInputKeeps ==
  ASSUME PipelineTypeOK, NEW r \in Requests, InvOf(r), TransformInput(r)
  PROVE  InvOf(r)'
<1>1. /\ stage[r] = "pipes"
      /\ UNCHANGED <<redisUp, blacklist, expired, req, context, header, user, before>>
  BY DEF TransformInput, sharedVars
<1>2. CASE Fail(r, 400) /\ UNCHANGED called
  <2>1. /\ Write(r, "failed", 400) /\ stage'[r] = "answered" /\ answer'[r].status = 400
        /\ answer'[r].corr = context[r].corr
    BY <1>2 DEF Fail, Refuse, Answer, PipelineTypeOK
  <2> QED BY <1>1, <1>2, <2>1, FinishKeeps
<1>3. CASE /\ ~RefusedByPipe(r) /\ called' = called \cup {r}
           /\ Goto(r, "method") /\ UNCHANGED log
  <2>1. stage'[r] = "method" /\ r \in called' /\ answer' = answer
    BY <1>3 DEF Goto, PipelineTypeOK
  <2>2. AllyOf(r)' = AllyOf(r) /\ NeedsJwt(r)' = NeedsJwt(r)
    BY <1>1 DEF AllyOf, NeedsJwt
  <2>3. IdsOnTheWay(r)'
    BY <1>1, <1>3, <2>1, <2>2 DEF InvOf, IdsOnTheWay, MeetsMiddleware
  <2>4. LogOnTheWay(r)' /\ LogTells(r)'
    BY <1>1, <1>3, <2>1 DEF InvOf, LogOnTheWay, LogTells
  <2>5. Routing[req[r].path].dto => req[r].clientId = None
    BY <1>3 DEF RefusedByPipe
  <2>6. GuardsOnTheWay(r)'
    BY <1>1, <2>1, <2>2, <2>5 DEF InvOf, GuardsOnTheWay, PastGuards
  <2> QED BY <2>3, <2>4, <2>6 DEF InvOf
<1> QED BY <1>2, <1>3 DEF TransformInput

LEMMA HandleKeeps ==
  ASSUME PipelineTypeOK, NEW r \in Requests, InvOf(r), Handle(r)
  PROVE  InvOf(r)'
<1>1. /\ stage[r] = "method" /\ called' = called
      /\ UNCHANGED <<redisUp, blacklist, expired, req, context, header, user, before>>
      /\ req[r].path \in DOMAIN Routing
  BY InsideFacts DEF Handle, sharedVars
<1>2. CASE \E failure \in FailureStatuses(req[r].path) : Fail(r, failure)
  <2>1. PICK failure \in {400, 401, 404, 409, 422, 500} : Fail(r, failure)
    BY <1>2, FailuresAreFailures
  <2>2. /\ Write(r, "failed", failure) /\ stage'[r] = "answered"
        /\ answer'[r].status = failure /\ answer'[r].corr = context[r].corr
    BY <2>1 DEF Fail, Refuse, Answer, PipelineTypeOK
  <2>3. failure \in Nat /\ ~(failure < 400)
    OBVIOUS
  <2> QED BY <1>1, <2>2, <2>3, FinishKeeps
<1>3. CASE /\ req[r].path = "health" /\ Write(r, "completed", Routing[req[r].path].status)
           /\ \E external \in ExternalAnswers : Answer(r, HealthAnswer(external))
  <2>1. Routing[req[r].path].status = 200
    BY <1>1, <1>3, RoutingFacts
  <2>2. stage'[r] = "answered" /\ answer'[r].status = 200
    BY <1>3 DEF Answer, HealthAnswer, PipelineTypeOK
  <2> QED BY <1>1, <1>3, <2>1, <2>2, FinishKeeps
<1>4. CASE /\ Write(r, "completed", Routing[req[r].path].status)
           /\ Succeed(r, Routing[req[r].path].status)
  <2>1. Routing[req[r].path].status \in Nat /\ Routing[req[r].path].status < 400
    BY <1>1, RoutingFacts
  <2>2. /\ stage'[r] = "answered" /\ answer'[r].status = Routing[req[r].path].status
        /\ answer'[r].corr = context[r].corr
    BY <1>4 DEF Succeed, Answer, PipelineTypeOK
  <2> QED BY <1>1, <1>4, <2>1, <2>2, FinishKeeps
<1> QED BY <1>2, <1>3, <1>4 DEF Handle

-------------------------------------------------------------------------------
\* The invariant is inductive.

LEMMA PipelineInvParts ==
  PipelineInv <=> PipelineTypeOK /\ \A r \in Requests : InvOf(r)
BY DEF PipelineInv, InvOf, LogTells, LogTellsTheAnswer

LEMMA PipelineInitInv == PipelineInit => PipelineInv
<1> SUFFICES ASSUME PipelineInit PROVE PipelineInv
  OBVIOUS
<1> USE DEF PipelineInit
<1>1. PipelineTypeOK
  BY DEF PipelineTypeOK, Stages, EmptyContext, NoAnswer
<1>2. ASSUME NEW r \in Requests PROVE InvOf(r)
  <2>1. IdsOnTheWay(r)
    <3>1. stage[r] = "arriving" /\ log[r] = <<>> /\ r \notin called
      OBVIOUS
    <3>2. /\ header[r].corr = None /\ header[r].request = None
          /\ context[r].corr = None /\ context[r].request = None
      BY DEF EmptyContext
    <3> QED BY <3>1, <3>2 DEF IdsOnTheWay
  <2>2. LogOnTheWay(r) /\ LogTells(r)
    BY DEF LogOnTheWay, LogTells
  <2>3. GuardsOnTheWay(r)
    BY DEF GuardsOnTheWay, EmptyContext, PastGuards
  <2> QED BY <2>1, <2>2, <2>3 DEF InvOf
<1> QED BY <1>1, <1>2, PipelineInvParts

LEMMA PipelineStep == PipelineInv /\ [PipelineNext]_pipelineVars => PipelineInv'
<1> SUFFICES ASSUME PipelineInv, [PipelineNext]_pipelineVars PROVE PipelineInv'
  OBVIOUS
<1>1. PipelineTypeOK /\ \A r \in Requests : InvOf(r)
  BY PipelineInvParts
<1>0. PipelineInv' <=> PipelineTypeOK' /\ \A r \in Requests : InvOf(r)'
  BY DEF PipelineInv, InvOf, LogTells, LogTellsTheAnswer
<1>2. ASSUME NEW r \in Requests, Advance(r) PROVE PipelineInv'
  <2>1. PipelineTypeOK'
    BY <1>1, <1>2, AdvanceTypes DEF InvOf
  <2>2. InvOf(r)'
    BY <1>1, <1>2, PassByKeeps, EnterKeeps, VerifyJwtKeeps, CheckBlacklistKeeps, GuardControllerKeeps,
       InterceptKeeps, TransformInputKeeps, HandleKeeps DEF Advance
  <2>3. ASSUME NEW q \in Requests, q # r PROVE InvOf(q)'
    BY <1>1, <1>2, <2>3, OthersUndisturbed, Undisturbed
  <2>4. \A q \in Requests : InvOf(q)'
    BY <2>2, <2>3
  <2> QED BY <2>1, <2>4, <1>0
<1>3. ASSUME UNCHANGED <<requestVars, called, before>>, Monotone,
             redisUp' \in BOOLEAN, blacklist' \subseteq Tokens, expired' \subseteq Tokens
      PROVE  PipelineInv'
  <2>1. PipelineTypeOK'
    BY <1>1, <1>3 DEF PipelineTypeOK, requestVars
  <2>2. \A q \in Requests : Same(q)
    BY <1>3 DEF Same, requestVars
  <2>3. \A q \in Requests : InvOf(q)'
    BY <1>1, <1>3, <2>2, Undisturbed
  <2> QED BY <2>1, <2>3, <1>0
<1> USE DEF PipelineTypeOK, Monotone, requestVars
<1>4. CASE RedisChanges
  BY <1>1, <1>3, <1>4 DEF RedisChanges
<1>5. ASSUME NEW t \in Tokens, BlacklistJwt(t) \/ ExpireToken(t) \/ ExpireEntry(t)
      PROVE  PipelineInv'
  BY <1>1, <1>3, <1>5 DEF BlacklistJwt, ExpireToken, ExpireEntry
<1>6. CASE UNCHANGED pipelineVars
  BY <1>1, <1>3, <1>6 DEF pipelineVars, sharedVars
<1> QED BY <1>2, <1>4, <1>5, <1>6 DEF PipelineNext

LEMMA PipelineInvariant == PipelineSpec => []PipelineInv
BY PipelineInitInv, PipelineStep, PTL DEF PipelineSpec

-------------------------------------------------------------------------------
\* PipelineTypeOK is an invariant: every variable keeps its type.
THEOREM PipelineTypeCorrect == PipelineSpec => []PipelineTypeOK
BY PipelineInvariant, PTL DEF PipelineInv

\* No method runs for a token that was revoked or had expired when its request
\* arrived, but for one that expires in the guard (jwt-auth.guard.ts:54-127).
THEOREM RevokedTokensAreRefused == PipelineSpec => []RevokedTokenIsRefused
<1>1. PipelineInv => RevokedTokenIsRefused
  BY DEF PipelineInv, PipelineTypeOK, RevokedTokenIsRefused, GuardsOnTheWay, PastGuards
<1> QED BY <1>1, PipelineInvariant, PTL

\* A method acts for the subject of its token, and no line of its log names an
\* ally that was not proved (jwt-auth.guard.ts:66-73, api-key.guard.ts:38-104).
THEOREM AlliesAreAuthentic == PipelineSpec => []AllyIsAuthentic
<1>1. PipelineInv => AllyIsAuthentic
  <2> SUFFICES ASSUME PipelineInv, NEW r \in called
               PROVE  LET route == Routing[req[r].path]
                      IN /\ route.auth = "jwt" => user[r] = SubOf[req[r].token]
                         /\ \A i \in DOMAIN log[r] :
                              \/ log[r][i].ids.ally = None
                              \/ route.auth = "jwt" /\ log[r][i].ids.ally = user[r]
                              \/ /\ route.auth = "apiKey" /\ req[r].key = "right" /\ ~route.dto
                                 /\ log[r][i].ids.ally = req[r].clientId
    BY DEF AllyIsAuthentic
  <2>1. r \in Requests /\ InvOf(r) /\ PastGuards(r)
    BY PipelineInvParts DEF PipelineInv, PipelineTypeOK, PastGuards
  <2>2. req[r].path \in DOMAIN Routing
    BY <2>1 DEF InvOf, GuardsOnTheWay
  <2>3. NeedsJwt(r) <=> Routing[req[r].path].auth = "jwt"
    BY <2>2 DEF NeedsJwt
  <2>4. NeedsJwt(r) => user[r] = SubOf[req[r].token]
    BY <2>1 DEF InvOf, GuardsOnTheWay
  <2>5. ASSUME NEW i \in DOMAIN log[r]
        PROVE  \/ log[r][i].ids.ally = None
               \/ NeedsJwt(r) /\ log[r][i].ids.ally = user[r]
               \/ /\ Routing[req[r].path].auth = "apiKey" /\ req[r].key = "right"
                  /\ ~Routing[req[r].path].dto
                  /\ log[r][i].ids.ally = req[r].clientId
    <3>1. log[r][i].ids.ally = AllyOf(r)
      BY <2>1 DEF InvOf, IdsOnTheWay, MeetsMiddleware
    <3>2. Routing[req[r].path].auth = "apiKey" => req[r].key = "right"
      BY <2>1 DEF InvOf, GuardsOnTheWay
    <3>3. CASE Routing[req[r].path].dto
      <4>1. req[r].clientId = None
        BY <2>1, <3>3 DEF InvOf, GuardsOnTheWay
      <4> QED BY <2>4, <3>1, <4>1 DEF AllyOf
    <3>4. CASE ~Routing[req[r].path].dto
      BY <2>4, <3>1, <3>2, <3>4 DEF AllyOf
    <3> QED BY <3>3, <3>4
  <2> QED BY <2>3, <2>4, <2>5
<1> QED BY <1>1, PipelineInvariant, PTL

\* Answers, headers and log lines carry the ids of their own request, whatever
\* the other requests do; an answer without ids is a refusal of a request that
\* the middleware never met (correlation.service.ts:42-96, app.module.ts:57-63).
THEOREM IdsAreTheirOwn == PipelineSpec => []IdsAreOwn
<1>1. PipelineInv => IdsAreOwn
  <2> SUFFICES ASSUME PipelineInv, NEW r \in Requests, stage[r] # "arriving"
               PROVE  HasOwnIds(r) \/ RefusedWithoutIds(r)
    BY DEF IdsAreOwn
  <2>1. IdsOnTheWay(r)
    BY DEF PipelineInv
  <2>2. CASE MeetsMiddleware(r)
    BY <2>1, <2>2 DEF IdsOnTheWay, HasOwnIds
  <2>3. CASE ~MeetsMiddleware(r)
    BY <2>1, <2>3 DEF IdsOnTheWay, RefusedWithoutIds
  <2> QED BY <2>2, <2>3
<1> QED BY <1>1, PipelineInvariant, PTL

\* The last log line of a request tells the status of its answer, and what was
\* not logged was refused (observability.interceptor.ts:38-68).
THEOREM LogsTellTheAnswer == PipelineSpec => []LogTellsTheAnswer
BY PipelineInvariant, PTL DEF PipelineInv
===============================================================================
