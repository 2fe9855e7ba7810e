--------------------------- MODULE RequestPipeline ---------------------------
(***************************************************************************)
(* What happens to an HTTP request around its controller method:           *)
(* CorrelationIdMiddleware, the global JwtAuthGuard, the guard of the      *)
(* controller, ObservabilityInterceptor, the pipes, the method itself,     *)
(* ResponseTransformInterceptor and HttpExceptionFilter.  A step is what a *)
(* request does from one await to the next.  What a service makes of a     *)
(* request is in the modules of the services; here it is only how the      *)
(* call ends.                                                              *)
(***************************************************************************)
EXTENDS Integers, Sequences

CONSTANTS
  Requests,
  Tokens,          \* the JWTs this server has signed, as their jti
  SubOf,           \* the subject of a token
  NoToken,         \* no Authorization header, or a malformed one
  BadToken,        \* anything verifyAsync refuses, expired tokens apart
  Allies,          \* user names, and what clients send as clientId
  CorrelationIds,  \* what clients send as x-correlation-id
  None,            \* a header, a body field or an id that is not there
  Inputs,          \* the requests that may arrive
  Events           \* what may happen around the requests, see below

\*  redis   Redis stops answering, and answers again
\*  revoke  a token is blacklisted for the rest of its life
\*  expire  a token reaches its exp
AllEvents == {"redis", "revoke", "expire"}

\* The decorators of each route: what it asks the client for ("jwt" unless it
\* has SkipJwt; no route asks for two things), whether a DTO is bound to the
\* body, whether some pipe can refuse the input, and the status of @HttpCode.
Route(auth, dto, pipe, status) ==
  [auth |-> auth, dto |-> dto, pipe |-> pipe, status |-> status]

Routing ==
  [login        |-> Route("none", TRUE, TRUE, 200),
   health       |-> Route("monitoring", FALSE, FALSE, 200),
   assignRandom |-> Route("apiKey", TRUE, TRUE, 200),
   lock         |-> Route("jwt", TRUE, TRUE, 200),     \* and redeem
   unlock       |-> Route("jwt", FALSE, FALSE, 200),   \* and the others
   upload       |-> Route("apiKey", TRUE, TRUE, 201),  \* create, generate
   getBook      |-> Route("apiKey", FALSE, TRUE, 200)] \* and the others

\* A path no controller has is a request as well: "unknown" is one under
\* API_PREFIX, "outside" one that is not.
Paths == DOMAIN Routing \cup {"unknown", "outside"}

\* What becomes of a body that body-parser refuses: Nest makes a
\* BadRequestException of a SyntaxError and leaves other errors as they are.
ParserStatus == [malformed |-> 400, tooLarge |-> 500]

\* key is the API key or the monitoring token; valid is FALSE if a pipe refuses
\* the parameters, the query or the body.
HttpRequests ==
  [path : Paths, token : Tokens \cup {NoToken, BadToken},
   key : {"right", "wrong", "none"}, clientId : Allies \cup {None},
   corr : CorrelationIds \cup {None}, valid : BOOLEAN,
   body : {"parsed"} \cup DOMAIN ParserStatus]

ASSUME PipelineAssumption ==
  /\ SubOf \in [Tokens -> Allies]
  /\ NoToken \notin Tokens /\ BadToken \notin Tokens
  /\ None \notin Allies \cup CorrelationIds
  /\ Inputs \subseteq HttpRequests
  /\ Events \subseteq AllEvents

VARIABLES
  redisUp,    \* whether a command to Redis is answered in time
  blacklist,  \* the tokens with a key in the bucket JWT_BLACKLIST
  expired,    \* the tokens whose exp has gone by
  req,        \* what the client sent
  stage,      \* how far the request is
  context,    \* the CLS store of the request
  header,     \* x-correlation-id and x-request-id of the response
  user,       \* request.user: the subject the guard has taken from the token
  log,        \* what ObservabilityInterceptor has logged
  answer,     \* the response
  called,     \* history: the requests that reached their controller method
  before      \* history: the tokens that were of no use when a request arrived

sharedVars == <<redisUp, blacklist, expired>>
requestVars == <<req, stage, context, header, user, log, answer>>
pipelineVars == <<sharedVars, requestVars, called, before>>

Stages == {"arriving", "jwtGuard", "blacklist", "guard", "interceptors",
           "pipes", "method", "answered"}

Ids == CorrelationIds \cup ({"correlation", "request"} \X Requests)

\* uuidv4
NewId(kind, r) == <<kind, r>>

EmptyContext == [corr |-> None, request |-> None, ally |-> None]
NoAnswer == [status |-> 0, code |-> "none", corr |-> None]

PipelineInit ==
  /\ redisUp = TRUE
  /\ blacklist = {}
  /\ expired = {}
  /\ req \in [Requests -> Inputs]
  /\ stage = [r \in Requests |-> "arriving"]
  /\ context = [r \in Requests |-> EmptyContext]
  /\ header = [r \in Requests |-> [corr |-> None, request |-> None]]
  /\ user = [r \in Requests |-> None]
  /\ log = [r \in Requests |-> <<>>]
  /\ answer = [r \in Requests |-> NoAnswer]
  /\ called = {}
  /\ before = [r \in Requests |-> [revoked |-> {}, expired |-> {}]]

-------------------------------------------------------------------------------
\* The store of the request, and the end of it.

\* Slip: the ids in fields of the service, which all requests share.
SharedStore(r, ids) == context' = [q \in Requests |-> ids]

SetContext(r, ids) == context' = [context EXCEPT ![r] = ids]

Goto(r, next) == /\ stage' = [stage EXCEPT ![r] = next]
                 /\ UNCHANGED answer

Answer(r, response) == /\ stage' = [stage EXCEPT ![r] = "answered"]
                       /\ answer' = [answer EXCEPT ![r] = response]

\* mapStatusToErrorCode; the codes the exceptions bring along are the same.
ErrorCode(status) ==
  CASE status = 400 -> "VALIDATION_ERROR"
    [] status = 401 -> "UNAUTHORIZED_ERROR"
    [] status = 403 -> "FORBIDDEN_ERROR"
    [] status = 404 -> "NOT_FOUND"
    [] status = 409 -> "CONFLICT"
    [] status = 422 -> "BUSINESS_ERROR"
    [] status = 503 -> "SERVICE_UNAVAILABLE"
    [] OTHER        -> "INTERNAL_ERROR"

\* mapStatusToSuccessCode
SuccessCode(status) == IF status = 201 THEN "CREATED" ELSE "OK"

\* HttpExceptionFilter; what is no HttpException is answered with 500.
Refuse(r, status) ==
  Answer(r, [status |-> status, code |-> ErrorCode(status),
             corr |-> context[r].corr])

\* StructuredLoggerService adds the ids of the store to every line.
Line(r, phase, status) == [phase |-> phase, status |-> status, ids |-> context[r]]

Write(r, phase, status) ==
  log' = [log EXCEPT ![r] = Append(@, Line(r, phase, status))]

\* Slip: the line of a failure does not look at the exception.
FailWith500(r, status) == Write(r, "failed", 500) /\ Refuse(r, status)

\* The exception passes ObservabilityInterceptor on its way to the filter.
Fail(r, status) == Write(r, "failed", status) /\ Refuse(r, status)

-------------------------------------------------------------------------------
\* The way in.

\* Nest parses bodies before the middleware of modules, and mounts forRoutes('*')
\* under the global prefix.
MeetsMiddleware(r) == req[r].body = "parsed" /\ req[r].path # "outside"

\* Only the filter sees the request, without a store.
PassBy(r) ==
  /\ stage[r] = "arriving" /\ ~MeetsMiddleware(r)
  /\ Refuse(r, IF req[r].body = "parsed" THEN 404 ELSE ParserStatus[req[r].body])
  /\ UNCHANGED <<sharedVars, req, context, header, user, log, called, before>>

\* CorrelationIdMiddleware; the router has no method for some paths.
Enter(r) ==
  LET corr == IF req[r].corr # None THEN req[r].corr ELSE NewId("correlation", r)
      id == NewId("request", r)
  IN /\ stage[r] = "arriving" /\ MeetsMiddleware(r)
     /\ SetContext(r, [corr |-> corr, request |-> id, ally |-> None])
     /\ header' = [header EXCEPT ![r] = [corr |-> corr, request |-> id]]
     /\ before' = [before EXCEPT ![r] = [revoked |-> blacklist, expired |-> expired]]
     /\ \/ /\ req[r].path = "unknown"
           /\ Answer(r, [status |-> 404, code |-> ErrorCode(404), corr |-> corr])
        \/ req[r].path # "unknown" /\ Goto(r, "jwtGuard")
     /\ UNCHANGED <<sharedVars, req, user, log, called>>

\* JwtAuthGuard up to the answer of verifyAsync.
VerifyJwt(r) ==
  LET token == req[r].token
  IN /\ stage[r] = "jwtGuard"
     /\ \/ Routing[req[r].path].auth # "jwt" /\ Goto(r, "guard")
        \/ /\ Routing[req[r].path].auth = "jwt"
           /\ \/ token \notin Tokens \ expired /\ Refuse(r, 401)
              \/ token \in Tokens \ expired /\ Goto(r, "blacklist")
     /\ UNCHANGED <<sharedVars, req, context, header, user, log, called, before>>

\* Slip: the claim jti of the payload instead of sub.
AdmitByJti(r) ==
  /\ SetContext(r, [context[r] EXCEPT !.ally = req[r].token])
  /\ user' = [user EXCEPT ![r] = req[r].token]
  /\ Goto(r, "guard")

\* The context and the request now say whose token it is.
Admit(r) ==
  /\ SetContext(r, [context[r] EXCEPT !.ally = SubOf[req[r].token]])
  /\ user' = [user EXCEPT ![r] = SubOf[req[r].token]]
  /\ Goto(r, "guard")

Reject(r, status) == Refuse(r, status) /\ UNCHANGED <<context, user>>

\* Slip: a blacklist that cannot be read is taken for empty.
CheckIfReadable(r) ==
  /\ stage[r] = "blacklist"
  /\ \/ redisUp /\ req[r].token \in blacklist /\ Reject(r, 401)
     \/ (redisUp => req[r].token \notin blacklist) /\ Admit(r)
  /\ UNCHANGED <<sharedVars, req, header, log, called, before>>

\* Slip: the guard waits for Redis.
CheckWhenUp(r) ==
  /\ stage[r] = "blacklist" /\ redisUp
  /\ \/ req[r].token \in blacklist /\ Reject(r, 401)
     \/ req[r].token \notin blacklist /\ Admit(r)
  /\ UNCHANGED <<sharedVars, req, header, log, called, before>>

\* checkBlacklist.  isJwtBlacklisted throws when its last attempt has failed.
CheckBlacklist(r) ==
  /\ stage[r] = "blacklist"
  /\ \/ ~redisUp /\ Reject(r, 500)
     \/ redisUp /\ req[r].token \in blacklist /\ Reject(r, 401)
     \/ redisUp /\ req[r].token \notin blacklist /\ Admit(r)
  /\ UNCHANGED <<sharedVars, req, header, log, called, before>>

\* ApiKeyGuard, which takes the clientId of the body before it looks at the
\* key, or MonitoringAuthGuard.
GuardController(r) ==
  LET auth == Routing[req[r].path].auth
      key == req[r].key
      clientId == IF auth = "apiKey" THEN req[r].clientId ELSE None
  IN /\ stage[r] = "guard"
     /\ \/ clientId # None /\ SetContext(r, [context[r] EXCEPT !.ally = clientId])
        \/ clientId = None /\ UNCHANGED context
     /\ \/ auth \in {"apiKey", "monitoring"} /\ key = "none" /\ Refuse(r, 401)
        \/ auth = "apiKey" /\ key = "wrong" /\ Refuse(r, 403)
        \/ auth = "monitoring" /\ key = "wrong" /\ Refuse(r, 401)
        \/ (auth \in {"none", "jwt"} \/ key = "right") /\ Goto(r, "interceptors")
     /\ UNCHANGED <<sharedVars, req, header, user, log, called, before>>

\* Slip: whitelist without forbidNonWhitelisted.
InputRefused(r) == Routing[req[r].path].pipe /\ ~req[r].valid

\* ValidationPipe with forbidNonWhitelisted: no DTO has a clientId.
RefusedByPipe(r) ==
  LET route == Routing[req[r].path]
  IN \/ route.pipe /\ ~req[r].valid
     \/ route.dto /\ req[r].clientId # None

\* ObservabilityInterceptor logs the request; pipes and method run inside of it.
Intercept(r) ==
  /\ stage[r] = "interceptors"
  /\ Write(r, "incoming", 0)
  /\ Goto(r, "pipes")
  /\ UNCHANGED <<sharedVars, req, context, header, user, called, before>>

TransformInput(r) ==
  /\ stage[r] = "pipes"
  /\ \/ RefusedByPipe(r) /\ Fail(r, 400) /\ UNCHANGED called
     \/ /\ ~RefusedByPipe(r)
        /\ called' = called \cup {r}
        /\ Goto(r, "method") /\ UNCHANGED log
  /\ UNCHANGED <<sharedVars, req, context, header, user, before>>

-------------------------------------------------------------------------------
\* The method, and the way out.

\* What the services and TypeORM throw; login refuses its credentials.
FailureStatuses(path) ==
  CASE path = "health" -> {}
    [] path = "login"  -> {401}
    [] OTHER           -> {400, 404, 409, 422, 500}

\* What the external service answers to HealthService, redirects followed.
ExternalAnswers == {"success", "unauthorized", "forbidden", "other", "none"}

\* checkExternal: somebody is there.
IsHealthy(external) == external \in {"success", "unauthorized", "forbidden"}

\* getHealth and SkipResponseTransform: HTTP 200, and the health in the body.
HealthAnswer(external) ==
  [status |-> 200, corr |-> None,
   code |-> IF IsHealthy(external) THEN SuccessCode(200) ELSE ErrorCode(503)]

\* ResponseTransformInterceptor
Succeed(r, status) ==
  Answer(r, [status |-> status, code |-> SuccessCode(status),
             corr |-> context[r].corr])

Handle(r) ==
  LET path == req[r].path
      status == Routing[path].status
  IN /\ stage[r] = "method"
     /\ \/ \E failure \in FailureStatuses(path) : Fail(r, failure)
        \/ path = "health" /\ Write(r, "completed", status)
             /\ \E external \in ExternalAnswers : Answer(r, HealthAnswer(external))
        \/ path # "health" /\ Write(r, "completed", status) /\ Succeed(r, status)
     /\ UNCHANGED <<sharedVars, req, context, header, user, called, before>>

-------------------------------------------------------------------------------
\* Around the requests.

RedisChanges ==
  /\ "redis" \in Events
  /\ redisUp' = ~redisUp
  /\ UNCHANGED <<blacklist, expired, requestVars, called, before>>

\* blacklistJwt, acknowledged.
BlacklistJwt(t) ==
  /\ "revoke" \in Events
  /\ redisUp /\ t \notin blacklist \cup expired
  /\ blacklist' = blacklist \cup {t}
  /\ UNCHANGED <<redisUp, expired, requestVars, called, before>>

ExpireToken(t) ==
  /\ "expire" \in Events
  /\ t \notin expired
  /\ expired' = expired \cup {t}
  /\ UNCHANGED <<redisUp, blacklist, requestVars, called, before>>

\* secondsToExpire is what the token had left to live.
ExpireEntry(t) ==
  /\ t \in blacklist \cap expired
  /\ blacklist' = blacklist \ {t}
  /\ UNCHANGED <<redisUp, expired, requestVars, called, before>>

Advance(r) ==
  \/ PassBy(r) \/ Enter(r) \/ VerifyJwt(r) \/ CheckBlacklist(r) \/ GuardController(r)
  \/ Intercept(r) \/ TransformInput(r) \/ Handle(r)

PipelineNext ==
  \/ \E r \in Requests : Advance(r)
  \/ RedisChanges
  \/ \E t \in Tokens : BlacklistJwt(t) \/ ExpireToken(t) \/ ExpireEntry(t)

PipelineSpec == PipelineInit /\ [][PipelineNext]_pipelineVars

\* Every await ends: verifyAsync and the services always settle, and so does a
\* call of CacheService, with or without Redis.
FairPipelineSpec ==
  PipelineSpec /\ \A r \in Requests : WF_pipelineVars(Advance(r))
===============================================================================
