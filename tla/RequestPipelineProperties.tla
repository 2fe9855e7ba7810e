----------------------- MODULE RequestPipelineProperties -----------------------
(***************************************************************************)
(* What the request pipeline must keep true.                               *)
(***************************************************************************)
EXTENDS RequestPipeline

NeedsJwt(r) == req[r].path \in DOMAIN Routing /\ Routing[req[r].path].auth = "jwt"

LogLines == [phase : {"incoming", "completed", "failed"}, status : Nat,
             ids : [corr : Ids \cup {None}, request : Ids \cup {None},
                    ally : Allies \cup {None}]]

\* Every variable keeps its type.
PipelineTypeOK ==
  /\ redisUp \in BOOLEAN
  /\ blacklist \subseteq Tokens
  /\ expired \subseteq Tokens
  /\ req \in [Requests -> Inputs]
  /\ stage \in [Requests -> Stages]
  /\ context \in [Requests -> [corr : Ids \cup {None}, request : Ids \cup {None},
                               ally : Allies \cup {None}]]
  /\ header \in [Requests -> [corr : Ids \cup {None}, request : Ids \cup {None}]]
  /\ user \in [Requests -> Allies \cup {None}]
  /\ log \in [Requests -> Seq(LogLines)]
  /\ DOMAIN answer = Requests
  /\ \A r \in Requests : answer[r].status \in Nat /\ answer[r].corr \in Ids \cup {None}
  /\ called \subseteq Requests
  /\ before \in [Requests -> [revoked : SUBSET Tokens, expired : SUBSET Tokens]]

\* No method runs for a token that was revoked or had expired before its request
\* arrived, whatever Redis does meanwhile.  The one way through is a token that
\* expires between its verification and the look at the blacklist, when its
\* entry there may be gone (jwt-auth.guard.ts:64-66).
RevokedTokenIsRefused ==
  \A r \in called : NeedsJwt(r) =>
    /\ req[r].token \in Tokens \ before[r].expired
    /\ req[r].token \in before[r].revoked => req[r].token \in expired

\* The method acts for the subject of the token, and the ally of its log lines
\* is that subject or the clientId of a client with the right key: what a
\* client without the key sends as clientId (api-key.guard.ts:41-44) reaches no
\* method, and of the routes with a body no clientId does.
AllyIsAuthentic ==
  \A r \in called :
    LET route == Routing[req[r].path]
    IN /\ route.auth = "jwt" => user[r] = SubOf[req[r].token]
       /\ \A i \in DOMAIN log[r] :
            \/ log[r][i].ids.ally = None
            \/ route.auth = "jwt" /\ log[r][i].ids.ally = user[r]
            \/ /\ route.auth = "apiKey" /\ req[r].key = "right" /\ ~route.dto
               /\ log[r][i].ids.ally = req[r].clientId

\* The correlation id is the one the client sent, or else a new one.
HasOwnIds(r) ==
  /\ header[r].request = NewId("request", r)
  /\ header[r].corr = IF req[r].corr # None THEN req[r].corr
                                            ELSE NewId("correlation", r)
  /\ \A i \in DOMAIN log[r] : /\ log[r][i].ids.corr = header[r].corr
                              /\ log[r][i].ids.request = header[r].request
  /\ stage[r] = "answered" => \/ answer[r].corr = header[r].corr
                              \/ req[r].path = "health" /\ answer[r].status = 200

RefusedWithoutIds(r) ==
  /\ ~MeetsMiddleware(r) /\ answer[r].status >= 400
  /\ log[r] = <<>> /\ r \notin called
  /\ header[r].corr = None /\ header[r].request = None /\ answer[r].corr = None

\* The answer, its headers and its log lines carry the ids of their own request,
\* however the awaits of others interleave with its own.  The only answers
\* without ids are refusals of requests that CorrelationIdMiddleware never
\* meets, and they have nobody else's either (app.module.ts:59 means it to meet
\* them all).
IdsAreOwn ==
  \A r \in Requests :
    stage[r] # "arriving" => HasOwnIds(r) \/ RefusedWithoutIds(r)

\* A request that reaches the interceptors is logged twice, and its last line
\* tells the status of the answer; one that was refused before is not logged,
\* and was not served.
LogTellsTheAnswer ==
  \A r \in Requests :
    /\ log[r] # <<>> => log[r][1].phase = "incoming"
    /\ stage[r] = "answered" =>
         \/ log[r] = <<>> /\ r \notin called /\ answer[r].status >= 400
         \/ /\ Len(log[r]) = 2
            /\ log[r][2].status = answer[r].status
            /\ log[r][2].phase = "completed" <=> answer[r].status < 400

\* The ally of a request past its guards.
AllyOf(r) ==
  IF NeedsJwt(r) THEN SubOf[req[r].token]
  ELSE IF Routing[req[r].path].auth = "apiKey" THEN req[r].clientId
  ELSE None

PastGuards(r) == stage[r] \in {"interceptors", "pipes", "method"} \/ r \in called

\* The ids of a request once the middleware has run, and the lines it logs; what
\* the middleware does not meet has no ids, and is refused.
IdsOnTheWay(r) ==
  /\ stage[r] = "arriving" \/ ~MeetsMiddleware(r) =>
       /\ header[r].corr = None /\ header[r].request = None
       /\ context[r].corr = None /\ context[r].request = None
       /\ log[r] = <<>> /\ r \notin called
  /\ ~MeetsMiddleware(r) =>
       \/ stage[r] = "arriving"
       \/ stage[r] = "answered" /\ answer[r].status >= 400 /\ answer[r].corr = None
  /\ stage[r] # "arriving" /\ MeetsMiddleware(r) =>
       /\ header[r].corr = IF req[r].corr # None THEN req[r].corr
                                                ELSE NewId("correlation", r)
       /\ header[r].request = NewId("request", r)
       /\ context[r].corr = header[r].corr
       /\ context[r].request = header[r].request
  /\ \A i \in DOMAIN log[r] :
       log[r][i].ids = [corr |-> header[r].corr, request |-> header[r].request,
                        ally |-> AllyOf(r)]
  /\ stage[r] = "answered" =>
       \/ answer[r].corr = header[r].corr
       \/ req[r].path = "health" /\ answer[r].status = 200

LogOnTheWay(r) ==
  /\ stage[r] \notin {"pipes", "method", "answered"} => log[r] = <<>>
  /\ stage[r] \in {"pipes", "method"} =>
       Len(log[r]) = 1 /\ log[r][1].phase = "incoming"
  /\ r \in called => stage[r] \in {"method", "answered"}

\* What the guards have made sure of.
GuardsOnTheWay(r) ==
  /\ before[r].revoked \subseteq blacklist \cup expired
  /\ before[r].expired \subseteq expired
  /\ stage[r] \notin {"arriving", "answered"} \/ r \in called =>
       req[r].path \in DOMAIN Routing
  /\ stage[r] = "blacklist" => NeedsJwt(r)
  /\ NeedsJwt(r) /\ (stage[r] \in {"blacklist", "guard"} \/ PastGuards(r)) =>
       req[r].token \in Tokens \ before[r].expired
  /\ NeedsJwt(r) /\ (stage[r] = "guard" \/ PastGuards(r)) =>
       /\ req[r].token \in before[r].revoked => req[r].token \in expired
       /\ user[r] = SubOf[req[r].token]
       /\ context[r].ally = SubOf[req[r].token]
  /\ stage[r] \in {"jwtGuard", "guard"} /\ ~NeedsJwt(r) => context[r].ally = None
  /\ PastGuards(r) =>
       /\ context[r].ally = AllyOf(r)
       /\ Routing[req[r].path].auth \in {"apiKey", "monitoring"} => req[r].key = "right"
  /\ r \in called /\ Routing[req[r].path].dto => req[r].clientId = None

\* The inductive invariant: the properties above and what they rest on.
PipelineInv ==
  /\ PipelineTypeOK
  /\ LogTellsTheAnswer
  /\ \A r \in Requests : IdsOnTheWay(r) /\ LogOnTheWay(r) /\ GuardsOnTheWay(r)

\* Every request is answered, even if Redis never is.
EveryRequestIsAnswered ==
  \A r \in Requests : <>(stage[r] = "answered")
===============================================================================
