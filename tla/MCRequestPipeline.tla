--------------------------- MODULE MCRequestPipeline ---------------------------
EXTENDS RequestPipelineProperties, TLC

CONSTANTS r1, r2, t1, ann, bob, x1

MCSubOf == (t1 :> ann)

Get(path, token, key, clientId, corr, valid) ==
  [path |-> path, token |-> token, key |-> key, clientId |-> clientId,
   corr |-> corr, valid |-> valid, body |-> "parsed"]

Unread(request, body) == [request EXCEPT !.body = body]

\* Every path, with each way it may be refused; one token, and an id that
\* two clients send.
MCInputs ==
  { Get("unknown", NoToken, "none", None, x1, TRUE),
    Get("outside", NoToken, "none", None, x1, TRUE),
    Unread(Get("lock", t1, "none", None, x1, TRUE), "malformed"),
    Unread(Get("upload", NoToken, "right", None, None, TRUE), "tooLarge"),
    Get("login", NoToken, "none", None, None, TRUE),
    Get("login", NoToken, "none", None, None, FALSE),
    Get("health", NoToken, "right", None, None, TRUE),
    Get("health", NoToken, "wrong", None, x1, TRUE),
    Get("assignRandom", NoToken, "right", ann, x1, TRUE),
    Get("upload", NoToken, "right", None, None, TRUE),
    Get("upload", NoToken, "wrong", ann, None, TRUE),
    Get("getBook", NoToken, "right", bob, x1, TRUE),
    Get("lock", t1, "none", ann, x1, TRUE),
    Get("unlock", t1, "none", bob, x1, TRUE),
    Get("unlock", BadToken, "none", None, None, TRUE) }
===============================================================================
