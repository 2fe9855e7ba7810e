--------------------------- MODULE CacheServiceProofs ---------------------------
(***************************************************************************)
(* Proofs about CacheService for any callers, processes, keys, scripts,    *)
(* number of attempts and events.                                          *)
(***************************************************************************)
EXTENDS CacheServiceProperties, SequenceTheorems, TLAPS

-------------------------------------------------------------------------------
\* What each part of a step does to the caller it is about.

LEMMA CallType ==
  ASSUME CacheTypeOK, NEW c \in Callers
  PROVE  /\ Call(c) \in CacheCalls
         /\ Call(c).op \in Ops /\ Call(c).key \in Keys /\ Call(c).ttl \in BOOLEAN
         /\ ConnectionOf(c) \in Connections
<1>1. script[c] \in Scripts /\ step[c] \in DOMAIN script[c]
  BY DEF CacheTypeOK
<1>2. script[c] \in Seq(CacheCalls)
  BY <1>1, CacheAssumption
<1>3. Call(c) \in CacheCalls
  BY <1>1, <1>2 DEF Call
<1>4. Call(c).op \in Ops /\ Call(c).key \in Keys /\ Call(c).ttl \in BOOLEAN
  BY <1>3 DEF CacheCalls
<1> QED BY <1>3, <1>4, CacheAssumption DEF ConnectionOf, Connections

\* A call that settles ends its caller or moves it to its next call.
LEMMA SettleShape ==
  ASSUME CacheTypeOK, NEW c \in Callers, NEW a \in Answers, Settle(c, a)
  PROVE  /\ script' = script
         /\ answer' = [answer EXCEPT ![c] = a]
         /\ \/ /\ step[c] < Len(script[c]) /\ GoesOn(Call(c).op, a)
               /\ pc' = [pc EXCEPT ![c] = "idle"]
               /\ step' = [step EXCEPT ![c] = step[c] + 1]
               /\ attempt' = [attempt EXCEPT ![c] = 1]
            \/ /\ pc' = [pc EXCEPT ![c] = "ended"]
               /\ step' = step /\ attempt' = attempt
         /\ \/ acked' = acked
            \/ /\ Call(c).op = "set" /\ store[Call(c).key] # NoOne
               /\ acked' = acked \cup {Call(c).key}
BY DEF Settle, CacheTypeOK

\* The variables of callers keep their types.
CallerTypes ==
  /\ script \in [Callers -> Scripts]
  /\ step \in [Callers -> Nat \ {0}]
  /\ \A c \in Callers : step[c] \in DOMAIN script[c]
  /\ pc \in [Callers -> CallPCs]
  /\ attempt \in [Callers -> 1 .. MaxRetries]
  /\ answer \in [Callers -> Answers]
  /\ acked \subseteq Keys

LEMMA SettleType ==
  ASSUME CacheTypeOK, NEW c \in Callers, NEW a \in Answers, Settle(c, a)
  PROVE  CallerTypes'
<1>1. script[c] \in Seq(CacheCalls)
  BY CacheAssumption DEF CacheTypeOK
<1>2. step[c] \in Nat \ {0} /\ step[c] <= Len(script[c]) /\ DOMAIN script[c] = 1 .. Len(script[c])
      /\ Len(script[c]) \in Nat
  BY <1>1 DEF CacheTypeOK
<1>3. Call(c).key \in Keys
  BY CallType
<1>4. 1 \in 1 .. MaxRetries
  BY CacheAssumption
<1>5. acked' \subseteq Keys
  BY SettleShape, <1>3 DEF CacheTypeOK
<1>6. script' \in [Callers -> Scripts] /\ answer' \in [Callers -> Answers]
  <2>1. script' = script /\ answer' = [answer EXCEPT ![c] = a]
    BY SettleShape
  <2> QED BY <2>1 DEF CacheTypeOK
<1>7. CASE /\ step[c] < Len(script[c])
           /\ pc' = [pc EXCEPT ![c] = "idle"]
           /\ step' = [step EXCEPT ![c] = step[c] + 1]
           /\ attempt' = [attempt EXCEPT ![c] = 1]
  <2>1. step' \in [Callers -> Nat \ {0}] /\ pc' \in [Callers -> CallPCs]
        /\ attempt' \in [Callers -> 1 .. MaxRetries]
    BY <1>7, <1>2, <1>4 DEF CacheTypeOK, CallPCs
  <2>2. ASSUME NEW d \in Callers PROVE step'[d] \in DOMAIN script'[d]
    <3>1. CASE d = c
      <4>1. step'[c] = step[c] + 1 /\ script' = script
        BY <1>7, SettleShape DEF CacheTypeOK
      <4>2. step[c] + 1 \in 1 .. Len(script[c])
        BY <1>7, <1>2
      <4> QED BY <3>1, <4>1, <4>2, <1>2
    <3>2. CASE d # c
      BY <3>2, <1>7, SettleShape DEF CacheTypeOK
    <3> QED BY <3>1, <3>2
  <2> QED BY <2>1, <2>2, <1>5, <1>6 DEF CallerTypes
<1>8. CASE pc' = [pc EXCEPT ![c] = "ended"] /\ step' = step /\ attempt' = attempt
  BY <1>8, <1>5, <1>6, SettleShape DEF CacheTypeOK, CallPCs, CallerTypes
<1> QED BY <1>7, <1>8, SettleShape

LEMMA AnswerOnFailureType ==
  ASSUME NEW op PROVE AnswerOnFailure(op) \in Answers
BY DEF AnswerOnFailure, Answers

\* An attempt that failed is followed by another, or the call settles.
LEMMA FailAttemptType ==
  ASSUME CacheTypeOK, NEW c \in Callers, FailAttempt(c)
  PROVE  CallerTypes'
<1>1. CASE Settle(c, AnswerOnFailure(Call(c).op))
  BY <1>1, AnswerOnFailureType, SettleType
<1>2. CASE /\ attempt[c] < Attempts(Call(c).op)
           /\ attempt' = [attempt EXCEPT ![c] = @ + 1]
           /\ pc' = [pc EXCEPT ![c] = "retry"]
           /\ UNCHANGED <<script, step, answer, acked>>
  <2>1. attempt[c] + 1 \in 1 .. MaxRetries
    BY <1>2, CacheAssumption DEF CacheTypeOK, Attempts
  <2>2. attempt' \in [Callers -> 1 .. MaxRetries] /\ pc' \in [Callers -> CallPCs]
    BY <1>2, <2>1 DEF CacheTypeOK, CallPCs
  <2> QED BY <1>2, <2>2 DEF CacheTypeOK, CallerTypes
<1> QED BY <1>1, <1>2 DEF FailAttempt

LEMMA BeginType ==
  ASSUME CacheTypeOK, NEW c \in Callers, Begin(c)
  PROVE  known' \subseteq Callers
BY DEF Begin, CacheTypeOK

LEMMA WireType ==
  ASSUME CacheTypeOK, NEW n \in Connections, NEW i \in DOMAIN sent[n]
  PROVE  /\ sent[n] \in Seq(Messages)
         /\ sent[n][i] \in Messages
         /\ sent[n][i].caller \in Callers /\ sent[n][i].step \in Nat \ {0}
         /\ sent[n][i].attempt \in Nat \ {0} /\ sent[n][i].reply \in Replies
<1>1. sent[n] \in Seq(Messages) BY DEF CacheTypeOK
<1>2. sent[n][i] \in Messages BY <1>1
<1> QED BY <1>1, <1>2 DEF Messages

LEMMA AnswerToType ==
  ASSUME NEW op \in Ops, NEW held \in Callers \cup {NoOne}
  PROVE  AnswerTo(op, held) \in Answers
BY DEF AnswerTo, Answers, Ops

-------------------------------------------------------------------------------
\* Type correctness.

LEMMA CacheInitType == CacheInit => CacheTypeOK
<1> SUFFICES ASSUME CacheInit PROVE CacheTypeOK OBVIOUS
<1>1. ASSUME NEW c \in Callers PROVE step[c] \in DOMAIN script[c]
  <2>1. script[c] \in Seq(CacheCalls) \ {<<>>} /\ step[c] = 1
    BY CacheAssumption DEF CacheInit
  <2> QED BY <2>1
<1>2. sent \in [Connections -> Seq(Messages)] /\ attempt \in [Callers -> 1 .. MaxRetries]
  BY CacheAssumption DEF CacheInit
<1> QED BY <1>1, <1>2 DEF CacheInit, CacheTypeOK, CallPCs, Answers

LEMMA CallersTypeNext ==
  ASSUME CacheTypeOK, NEW c \in Callers, Send(c) \/ NotConnected(c) \/ Timeout(c)
  PROVE  CacheTypeOK'
<1>1. CASE Send(c)
  <2> DEFINE m == [caller |-> c, step |-> step[c], attempt |-> attempt[c], reply |-> NotYet]
             n == ConnectionOf(c)
  <2>1. m \in Messages
    BY CacheAssumption DEF CacheTypeOK, Messages, Replies
  <2>2. n \in Connections /\ sent[n] \in Seq(Messages)
    BY CallType DEF CacheTypeOK
  <2>3. Append(sent[n], m) \in Seq(Messages)
    BY <2>1, <2>2
  <2>4. sent' = [sent EXCEPT ![n] = Append(sent[n], m)]
    BY <1>1 DEF Send
  <2>5. sent' \in [Connections -> Seq(Messages)]
    BY <2>2, <2>3, <2>4 DEF CacheTypeOK
  <2>6. known' \subseteq Callers
    BY <1>1, BeginType DEF Send
  <2>7. pc' \in [Callers -> CallPCs]
    BY <1>1 DEF Send, CacheTypeOK, CallPCs
  <2> QED BY <1>1, <2>5, <2>6, <2>7 DEF Send, CacheTypeOK, redisVars
<1>2. CASE NotConnected(c)
  <2>1. CallerTypes' /\ known' \subseteq Callers
    BY <1>2, FailAttemptType, BeginType DEF NotConnected
  <2> QED BY <1>2, <2>1 DEF NotConnected, CallerTypes, CacheTypeOK, redisVars
<1>3. CASE Timeout(c)
  <2>1. CallerTypes'
    BY <1>3, FailAttemptType DEF Timeout
  <2> QED BY <1>3, <2>1 DEF Timeout, CallerTypes, CacheTypeOK, redisVars
<1> QED BY <1>1, <1>2, <1>3

LEMMA ReceiveType ==
  ASSUME CacheTypeOK, NEW n \in Connections, Receive(n)
  PROVE  CacheTypeOK'
<1> DEFINE m == Head(sent[n])
<1>1. sent[n] \in Seq(Messages) /\ sent[n] # <<>>
  BY DEF Receive, CacheTypeOK
<1>2. m \in Messages /\ Tail(sent[n]) \in Seq(Messages)
  BY <1>1
<1>3. sent' \in [Connections -> Seq(Messages)]
  BY <1>2 DEF Receive, CacheTypeOK
<1>4. CallerTypes'
  <2>1. CASE Settle(m.caller, AnswerTo(Call(m.caller).op, m.reply))
    <3>1. m.caller \in Callers /\ m.reply \in Replies /\ m.reply # NotYet
      BY <1>2 DEF Receive, Messages
    <3>2. AnswerTo(Call(m.caller).op, m.reply) \in Answers
      BY <3>1, CallType, AnswerToType DEF Replies
    <3> QED BY <2>1, <3>1, <3>2, SettleType
  <2>2. CASE UNCHANGED <<callVars, acked>>
    BY <2>2 DEF callVars, CallerTypes, CacheTypeOK
  <2> QED BY <2>1, <2>2 DEF Receive
<1> QED BY <1>3, <1>4 DEF Receive, CallerTypes, CacheTypeOK, redisVars

LEMMA ValueAfterType ==
  ASSUME NEW op \in Ops, NEW c \in Callers, NEW held \in Callers \cup {NoOne}
  PROVE  ValueAfter(op, c, held) \in Callers \cup {NoOne}
BY DEF ValueAfter, Ops

LEMMA VolatileAfterType ==
  ASSUME CacheTypeOK, NEW call \in CacheCalls, NEW held
  PROVE  VolatileAfter(call, held) \subseteq Keys
BY DEF VolatileAfter, CacheTypeOK, CacheCalls

\* A command on the wire is a call of the script of its caller.
CallOf(m) == script[m.caller][m.step]

\* A command belongs to a call its caller has come to, and travels on the
\* connection of the key of that call.
OnWire(n, m) ==
  /\ m.step <= step[m.caller]
  /\ pc[m.caller] = "idle" => m.step < step[m.caller]
  /\ n = <<ProcessOf[m.caller], BucketOf[CallOf(m).key]>>

WireInv == \A n \in Connections : \A i \in DOMAIN sent[n] : OnWire(n, sent[n][i])

\* Commands are sent in the order of the script and answered in the order sent.
OrderInv ==
  \A n \in Connections : \A i, j \in DOMAIN sent[n] : i < j =>
    /\ sent[n][i].caller = sent[n][j].caller => sent[n][i].step <= sent[n][j].step
    /\ sent[n][j].reply # NotYet => sent[n][i].reply # NotYet

LEMMA CallOfType ==
  ASSUME CacheTypeOK, WireInv, NEW n \in Connections, NEW i \in DOMAIN sent[n]
  PROVE  /\ CallOf(sent[n][i]) \in CacheCalls
         /\ CallOf(sent[n][i]).op \in Ops /\ CallOf(sent[n][i]).key \in Keys
         /\ CallOf(sent[n][i]).ttl \in BOOLEAN
         /\ sent[n][i].step \in DOMAIN script[sent[n][i].caller]
<1> DEFINE m == sent[n][i]
<1>1. m.caller \in Callers /\ m.step \in Nat \ {0} /\ m.step <= step[m.caller]
  BY WireType DEF WireInv, OnWire
<1>2. script[m.caller] \in Seq(CacheCalls) /\ step[m.caller] \in DOMAIN script[m.caller]
      /\ script[m.caller] \in Scripts
  BY <1>1, CacheAssumption DEF CacheTypeOK
<1>3. m.step \in DOMAIN script[m.caller]
  BY <1>1, <1>2
<1>4. CallOf(m) \in CacheCalls
  BY <1>2, <1>3 DEF CallOf
<1> QED BY <1>3, <1>4 DEF CacheCalls

\* What each step does to the commands of a connection.

LEMMA SendShape ==
  ASSUME CacheTypeOK, NEW c \in Callers, Send(c)
  PROVE  LET n == ConnectionOf(c)
         IN /\ \A k \in Connections : k # n => sent'[k] = sent[k]
            /\ DOMAIN sent'[n] = 1 .. (Len(sent[n]) + 1)
            /\ DOMAIN sent[n] = 1 .. Len(sent[n]) /\ Len(sent[n]) \in Nat
            /\ \A j \in 1 .. Len(sent[n]) : sent'[n][j] = sent[n][j]
            /\ sent'[n][Len(sent[n]) + 1] = [caller |-> c, step |-> step[c],
                                  attempt |-> attempt[c], reply |-> NotYet]
<1> DEFINE n == ConnectionOf(c)
           m == [caller |-> c, step |-> step[c], attempt |-> attempt[c], reply |-> NotYet]
<1>1. n \in Connections /\ sent[n] \in Seq(Messages)
  BY CallType DEF CacheTypeOK
<1>2. m \in Messages
  BY CacheAssumption DEF CacheTypeOK, Messages, Replies
<1>3. sent' = [sent EXCEPT ![n] = Append(sent[n], m)]
  BY DEF Send
<1>4. sent'[n] = Append(sent[n], m) /\ \A k \in Connections : k # n => sent'[k] = sent[k]
  BY <1>1, <1>3 DEF CacheTypeOK
<1> HIDE DEF n, m
<1>5. /\ Len(Append(sent[n], m)) = Len(sent[n]) + 1
      /\ Append(sent[n], m) \in Seq(Messages)
      /\ \A j \in 1 .. Len(sent[n]) : Append(sent[n], m)[j] = sent[n][j]
      /\ Append(sent[n], m)[Len(sent[n]) + 1] = m
  BY <1>1, <1>2, AppendProperties
<1> QED BY <1>1, <1>4, <1>5 DEF n, m

LEMMA ReceiveShape ==
  ASSUME CacheTypeOK, NEW n \in Connections, Receive(n)
  PROVE  /\ \A k \in Connections : k # n => sent'[k] = sent[k]
         /\ 1 \in DOMAIN sent[n] /\ Head(sent[n]) = sent[n][1]
         /\ \A j \in DOMAIN sent'[n] : j \in Nat \ {0} /\ j + 1 \in DOMAIN sent[n]
                                       /\ sent'[n][j] = sent[n][j + 1]
<1>1. sent[n] \in Seq(Messages) /\ sent[n] # <<>>
  BY DEF Receive, CacheTypeOK
<1>2. sent' = [sent EXCEPT ![n] = Tail(sent[n])]
  BY DEF Receive
<1>3. sent'[n] = Tail(sent[n]) /\ \A k \in Connections : k # n => sent'[k] = sent[k]
  BY <1>2 DEF CacheTypeOK
<1>4. /\ Tail(sent[n]) \in Seq(Messages) /\ Len(Tail(sent[n])) = Len(sent[n]) - 1
      /\ \A j \in 1 .. Len(Tail(sent[n])) : Tail(sent[n])[j] = sent[n][j + 1]
  BY <1>1, HeadTailProperties
<1> QED BY <1>1, <1>3, <1>4

\* Redis answers the first command that has no answer yet.
ExecutesAt(n, i) ==
  LET m == sent[n][i]
      held == store[CallOf(m).key]
  IN /\ i \in DOMAIN sent[n]
     /\ FirstUnanswered(n, i)
     /\ \A k \in Connections : k # n => sent'[k] = sent[k]
     /\ DOMAIN sent'[n] = DOMAIN sent[n]
     /\ sent'[n][i] = [m EXCEPT !.reply = held]
     /\ \A j \in DOMAIN sent[n] : j # i => sent'[n][j] = sent[n][j]
     /\ store' = [store EXCEPT ![CallOf(m).key] = ValueAfter(CallOf(m).op, m.caller, held)]
     /\ volatile' = VolatileAfter(CallOf(m), held)
     /\ taken' = IF CallOf(m).op = "releaseLock" /\ held \notin {NoOne, m.caller}
                 THEN taken \cup {held} ELSE taken

LEMMA ExecuteShape ==
  ASSUME CacheTypeOK, NEW n \in Connections, Execute(n)
  PROVE  \E i \in DOMAIN sent[n] : ExecutesAt(n, i)
<1>1. PICK i \in DOMAIN sent[n] :
        LET c == sent[n][i].caller
            call == script[c][sent[n][i].step]
            held == store[call.key]
        IN /\ FirstUnanswered(n, i)
           /\ sent' = [sent EXCEPT ![n][i].reply = held]
           /\ store' = [store EXCEPT ![call.key] = ValueAfter(call.op, c, held)]
           /\ volatile' = VolatileAfter(call, held)
           /\ taken' = IF call.op = "releaseLock" /\ held \notin {NoOne, c}
                       THEN taken \cup {held} ELSE taken
  BY DEF Execute
<1>2. sent[n] \in Seq(Messages)
  BY DEF CacheTypeOK
<1>3. sent' = [sent EXCEPT ![n] =
                 [sent[n] EXCEPT ![i] = [sent[n][i] EXCEPT !.reply = store[CallOf(sent[n][i]).key]]]]
  BY <1>1 DEF CallOf
<1>4. sent'[n] = [sent[n] EXCEPT ![i] = [sent[n][i] EXCEPT !.reply = store[CallOf(sent[n][i]).key]]]
      /\ \A k \in Connections : k # n => sent'[k] = sent[k]
  BY <1>3 DEF CacheTypeOK
<1>5. /\ DOMAIN sent'[n] = DOMAIN sent[n]
      /\ sent'[n][i] = [sent[n][i] EXCEPT !.reply = store[CallOf(sent[n][i]).key]]
      /\ \A j \in DOMAIN sent[n] : j # i => sent'[n][j] = sent[n][j]
  BY <1>4, <1>2
<1>6. /\ FirstUnanswered(n, i)
      /\ store' = [store EXCEPT ![CallOf(sent[n][i]).key] =
           ValueAfter(CallOf(sent[n][i]).op, sent[n][i].caller, store[CallOf(sent[n][i]).key])]
      /\ volatile' = VolatileAfter(CallOf(sent[n][i]), store[CallOf(sent[n][i]).key])
      /\ taken' = IF /\ CallOf(sent[n][i]).op = "releaseLock"
                     /\ store[CallOf(sent[n][i]).key] \notin {NoOne, sent[n][i].caller}
                  THEN taken \cup {store[CallOf(sent[n][i]).key]} ELSE taken
  BY <1>1 DEF CallOf
<1>7. ExecutesAt(n, i)
  BY <1>4, <1>5, <1>6 DEF ExecutesAt
<1> QED BY <1>7

LEMMA ReconnectShape ==
  ASSUME CacheTypeOK, NEW n \in Connections, Reconnect(n)
  PROVE  /\ \A k \in Connections : k # n => sent'[k] = sent[k]
         /\ \A j \in DOMAIN sent'[n] :
              j \in DOMAIN sent[n] /\ sent'[n][j] = [sent[n][j] EXCEPT !.reply = NotYet]
<1>1. CASE sent' = [sent EXCEPT ![n] = <<>>]
  BY <1>1 DEF CacheTypeOK
<1>2. CASE sent' = [sent EXCEPT ![n] =
                     [i \in DOMAIN sent[n] |-> [sent[n][i] EXCEPT !.reply = NotYet]]]
  BY <1>2 DEF CacheTypeOK
<1> QED BY <1>1, <1>2 DEF Reconnect

LEMMA ExecuteType ==
  ASSUME CacheTypeOK, WireInv, NEW n \in Connections, Execute(n)
  PROVE  CacheTypeOK'
<1>1. PICK i \in DOMAIN sent[n] : ExecutesAt(n, i)
  BY ExecuteShape
<1> DEFINE m == sent[n][i]
           held == store[CallOf(m).key]
<1>2. m \in Messages /\ m.caller \in Callers /\ CallOf(m) \in CacheCalls
      /\ CallOf(m).op \in Ops /\ CallOf(m).key \in Keys /\ sent[n] \in Seq(Messages)
  BY <1>1, WireType, CallOfType
<1>3. held \in Callers \cup {NoOne}
  BY <1>2 DEF CacheTypeOK
<1>4. [m EXCEPT !.reply = held] \in Messages
  BY <1>2, <1>3 DEF Messages, Replies
<1>5. sent' \in [Connections -> Seq(Messages)]
  <2>1. PICK j \in DOMAIN sent[n] :
          sent' = [sent EXCEPT ![n] = [sent[n] EXCEPT ![j] =
                    [sent[n][j] EXCEPT !.reply = store[CallOf(sent[n][j]).key]]]]
    BY DEF Execute, CallOf
  <2>2. sent[n][j] \in Messages /\ CallOf(sent[n][j]).key \in Keys
    BY WireType, CallOfType
  <2>3. store[CallOf(sent[n][j]).key] \in Replies
    BY <2>2 DEF CacheTypeOK, Replies
  <2>4. [sent[n][j] EXCEPT !.reply = store[CallOf(sent[n][j]).key]] \in Messages
    BY <2>2, <2>3 DEF Messages
  <2>5. [sent[n] EXCEPT ![j] =
          [sent[n][j] EXCEPT !.reply = store[CallOf(sent[n][j]).key]]] \in Seq(Messages)
    BY <2>4, <1>2, ExceptSeq
  <2> QED BY <2>1, <2>5 DEF CacheTypeOK
<1>6. store' \in [Keys -> Callers \cup {NoOne}]
  BY <1>1, <1>2, <1>3, ValueAfterType DEF ExecutesAt, CacheTypeOK
<1>7. volatile' \subseteq Keys
  BY <1>1, <1>2, VolatileAfterType DEF ExecutesAt
<1>8. taken' \subseteq Callers
  BY <1>1, <1>3 DEF ExecutesAt, CacheTypeOK
<1> QED BY <1>5, <1>6, <1>7, <1>8 DEF Execute, CacheTypeOK, callVars

LEMMA ExpireType ==
  ASSUME CacheTypeOK, NEW k \in Keys, Expire(k)
  PROVE  CacheTypeOK'
<1>1. store' \in [Keys -> Callers \cup {NoOne}] /\ taken' \subseteq Callers
  BY DEF Expire, CacheTypeOK
<1> QED BY <1>1 DEF Expire, CacheTypeOK, callVars

LEMMA ReconnectType ==
  ASSUME CacheTypeOK, NEW n \in Connections, Reconnect(n)
  PROVE  CacheTypeOK'
<1>1. CASE sent' = [sent EXCEPT ![n] = <<>>]
  BY <1>1 DEF Reconnect, CacheTypeOK, callVars, redisVars, history
<1>2. CASE sent' = [sent EXCEPT ![n] =
                     [i \in DOMAIN sent[n] |-> [sent[n][i] EXCEPT !.reply = NotYet]]]
  <2>1. sent[n] \in Seq(Messages)
    BY DEF CacheTypeOK
  <2>2. ASSUME NEW i \in 1 .. Len(sent[n])
        PROVE  [sent[n][i] EXCEPT !.reply = NotYet] \in Messages
    <3>1. sent[n][i] \in Messages
      BY <2>1
    <3> QED BY <3>1 DEF Messages, Replies
  <2>3. [i \in 1 .. Len(sent[n]) |-> [sent[n][i] EXCEPT !.reply = NotYet]] \in Seq(Messages)
    BY <2>1, <2>2
  <2>4. sent' \in [Connections -> Seq(Messages)]
    <3>1. DOMAIN sent[n] = 1 .. Len(sent[n])
      BY <2>1
    <3>2. sent' = [sent EXCEPT ![n] =
                    [i \in 1 .. Len(sent[n]) |-> [sent[n][i] EXCEPT !.reply = NotYet]]]
      BY <1>2, <3>1
    <3> QED BY <3>2, <2>3 DEF CacheTypeOK
  <2> QED BY <2>4 DEF Reconnect, CacheTypeOK, callVars, redisVars, history
<1> QED BY <1>1, <1>2 DEF Reconnect

LEMMA CacheNextType == CacheTypeOK /\ WireInv /\ [CacheNext]_cacheVars => CacheTypeOK'
<1> SUFFICES ASSUME CacheTypeOK, WireInv, [CacheNext]_cacheVars PROVE CacheTypeOK'
  OBVIOUS
<1>1. CASE UNCHANGED cacheVars
  BY <1>1 DEF CacheTypeOK, cacheVars, callVars, redisVars, history
<1>2. CASE \E c \in Callers : Send(c) \/ NotConnected(c) \/ Timeout(c)
  BY <1>2, CallersTypeNext
<1>3. CASE \E n \in Connections : Receive(n) \/ Execute(n) \/ Reconnect(n)
  BY <1>3, ReceiveType, ExecuteType, ReconnectType
<1>4. CASE \E k \in Keys : Expire(k)
  BY <1>4, ExpireType
<1> QED BY <1>1, <1>2, <1>3, <1>4 DEF CacheNext

-------------------------------------------------------------------------------
\* The order of the commands on the wire.

\* A step leaves a caller where it is or moves it to its next call, and only
\* such a move makes it idle.
Moves ==
  /\ script' = script
  /\ \A c \in Callers : \/ step'[c] = step[c] /\ (pc'[c] = "idle" => pc[c] = "idle")
                        \/ step'[c] = step[c] + 1

LEMMA SettleMoves ==
  ASSUME CacheTypeOK, NEW c \in Callers, NEW a \in Answers, Settle(c, a)
  PROVE  Moves
<1>1. script' = script
      /\ \/ /\ pc' = [pc EXCEPT ![c] = "idle"]
            /\ step' = [step EXCEPT ![c] = step[c] + 1]
         \/ pc' = [pc EXCEPT ![c] = "ended"] /\ step' = step
  BY SettleShape
<1> QED BY <1>1 DEF Moves, CacheTypeOK

LEMMA FailAttemptMoves ==
  ASSUME CacheTypeOK, NEW c \in Callers, FailAttempt(c)
  PROVE  Moves
<1>1. CASE Settle(c, AnswerOnFailure(Call(c).op))
  BY <1>1, SettleMoves, AnswerOnFailureType
<1>2. CASE pc' = [pc EXCEPT ![c] = "retry"] /\ UNCHANGED <<script, step>>
  BY <1>2 DEF Moves, CacheTypeOK
<1> QED BY <1>1, <1>2 DEF FailAttempt

LEMMA ReceiveAnswer ==
  ASSUME CacheTypeOK, NEW n \in Connections, Receive(n), Awaited(Head(sent[n]))
  PROVE  LET m == Head(sent[n])
         IN /\ m.caller \in Callers /\ m.reply \in Callers \cup {NoOne}
            /\ Settle(m.caller, AnswerTo(Call(m.caller).op, m.reply))
            /\ AnswerTo(Call(m.caller).op, m.reply) \in Answers
<1> DEFINE m == Head(sent[n])
<1>1. 1 \in DOMAIN sent[n] /\ m = sent[n][1]
  BY ReceiveShape
<1>2. m.caller \in Callers /\ m.reply \in Callers \cup {NoOne}
  BY <1>1, WireType DEF Receive, Replies
<1>3. Settle(m.caller, AnswerTo(Call(m.caller).op, m.reply))
  BY DEF Receive
<1> QED BY <1>2, <1>3, CallType, AnswerToType

LEMMA StepMoves == CacheTypeOK /\ CacheNext => Moves
<1> SUFFICES ASSUME CacheTypeOK, CacheNext PROVE Moves OBVIOUS
<1>1. ASSUME NEW c \in Callers, Send(c) \/ NotConnected(c) \/ Timeout(c) PROVE Moves
  <2>1. CASE Send(c)
    BY <2>1 DEF Send, Moves, CacheTypeOK
  <2>2. CASE NotConnected(c) \/ Timeout(c)
    BY <2>2, FailAttemptMoves DEF NotConnected, Timeout
  <2> QED BY <1>1, <2>1, <2>2
<1>2. ASSUME NEW n \in Connections, Receive(n) \/ Execute(n) \/ Reconnect(n) PROVE Moves
  <2>1. CASE Receive(n) /\ Awaited(Head(sent[n]))
    BY <2>1, ReceiveAnswer, SettleMoves
  <2>2. CASE UNCHANGED callVars
    BY <2>2 DEF Moves, callVars
  <2> QED BY <1>2, <2>1, <2>2 DEF Receive, Execute, Reconnect
<1>3. ASSUME NEW k \in Keys, Expire(k) PROVE Moves
  BY <1>3 DEF Expire, Moves, callVars
<1> QED BY <1>1, <1>2, <1>3 DEF CacheNext

LEMMA OnWireKept ==
  ASSUME CacheTypeOK, Moves, NEW n, NEW m, m.caller \in Callers, m.step \in Nat, OnWire(n, m)
  PROVE  OnWire(n, m)'
BY DEF OnWire, Moves, CacheTypeOK, CallOf

\* The commands that were on a connection before this step, in the same order.
Survivors(n) ==
  \E shift \in {0, 1} : \A j \in DOMAIN sent'[n] :
    /\ j \in Nat /\ j + shift \in DOMAIN sent[n]
    /\ sent'[n][j].caller = sent[n][j + shift].caller
    /\ sent'[n][j].step = sent[n][j + shift].step

LEMMA SurvivorsOnWire ==
  ASSUME CacheTypeOK, WireInv, OrderInv, Moves, NEW n \in Connections, Survivors(n)
  PROVE  /\ \A j \in DOMAIN sent'[n] : OnWire(n, sent[n][j])'
         /\ \A i, j \in DOMAIN sent'[n] : i < j =>
              (sent'[n][i].caller = sent'[n][j].caller => sent'[n][i].step <= sent'[n][j].step)
<1>1. PICK shift \in {0, 1} : \A j \in DOMAIN sent'[n] :
        /\ j \in Nat /\ j + shift \in DOMAIN sent[n]
        /\ sent'[n][j].caller = sent[n][j + shift].caller
        /\ sent'[n][j].step = sent[n][j + shift].step
  BY DEF Survivors
<1>2. ASSUME NEW j \in DOMAIN sent'[n] PROVE OnWire(n, sent[n][j])'
  <2>1. OnWire(n, sent[n][j + shift]) /\ sent[n][j + shift].caller \in Callers
        /\ sent[n][j + shift].step \in Nat
    BY <1>1, WireType DEF WireInv
  <2>2. OnWire(n, sent'[n][j])
    BY <2>1, <1>1 DEF OnWire, CallOf
  <2> QED BY <2>1, <2>2, <1>1, OnWireKept DEF OnWire, CallOf, Moves, CacheTypeOK
<1>3. ASSUME NEW i \in DOMAIN sent'[n], NEW j \in DOMAIN sent'[n], i < j,
             sent'[n][i].caller = sent'[n][j].caller
      PROVE  sent'[n][i].step <= sent'[n][j].step
  BY <1>1, <1>3 DEF OrderInv
<1> QED BY <1>2, <1>3

LEMMA SendWire ==
  ASSUME CacheTypeOK, WireInv, OrderInv, NEW c \in Callers, Send(c)
  PROVE  (WireInv /\ OrderInv)'
<1> DEFINE n == ConnectionOf(c)
           top == Len(sent[n]) + 1
<1>1. Moves
  BY StepMoves DEF CacheNext
<1>2. n \in Connections
  BY CallType
<1>3. /\ \A k \in Connections : k # n => sent'[k] = sent[k]
      /\ DOMAIN sent'[n] = 1 .. top /\ DOMAIN sent[n] = 1 .. (top - 1) /\ top \in Nat
      /\ \A j \in 1 .. (top - 1) : sent'[n][j] = sent[n][j]
      /\ sent'[n][top].caller = c /\ sent'[n][top].step = step[c]
      /\ sent'[n][top].reply = NotYet
  <2>0. /\ DOMAIN sent'[n] = 1 .. (Len(sent[n]) + 1)
        /\ DOMAIN sent[n] = 1 .. Len(sent[n]) /\ Len(sent[n]) \in Nat
    BY SendShape
  <2>1. Len(sent[n]) \in Nat /\ top - 1 = Len(sent[n])
    BY <2>0
  <2>2. sent'[n][top] = [caller |-> c, step |-> step[c], attempt |-> attempt[c], reply |-> NotYet]
    BY SendShape
  <2> HIDE DEF top
  <2>3. \A k \in Connections : k # n => sent'[k] = sent[k]
    BY SendShape
  <2>4. DOMAIN sent'[n] = 1 .. top /\ DOMAIN sent[n] = 1 .. (top - 1) /\ top \in Nat
    BY <2>0, <2>1 DEF top
  <2>5. \A j \in 1 .. (top - 1) : sent'[n][j] = sent[n][j]
    BY <2>1, SendShape
  <2> QED BY <2>2, <2>3, <2>4, <2>5
<1>4. step' = step /\ script' = script /\ pc'[c] = "awaiting"
  BY DEF Send, CacheTypeOK
<1> HIDE DEF n, top
<1>5. ASSUME NEW k \in Connections, NEW i \in DOMAIN sent'[k]
      PROVE  OnWire(k, sent[k][i])'
  <2>1. CASE k = n /\ i = top
    <3>1. n = <<ProcessOf[c], BucketOf[Call(c).key]>>
      BY DEF n, ConnectionOf
    <3>2. step[c] \in Nat
      BY DEF CacheTypeOK
    <3>3. sent'[k][i].caller = c /\ sent'[k][i].step = step[c]
      BY <2>1, <1>3
    <3>4. CallOf(sent[k][i])' = Call(c)
      BY <3>3, <1>4 DEF CallOf, Call
    <3> QED BY <2>1, <3>1, <3>2, <3>3, <3>4, <1>4 DEF OnWire
  <2>2. CASE ~(k = n /\ i = top)
    <3>1. i \in DOMAIN sent[k] /\ sent'[k][i] = sent[k][i]
      BY <2>2, <1>3
    <3>2. sent[k][i].caller \in Callers /\ sent[k][i].step \in Nat /\ OnWire(k, sent[k][i])
      BY <3>1, WireType DEF WireInv
    <3> QED BY <3>1, <3>2, <1>1, OnWireKept DEF OnWire, CallOf
  <2> QED BY <2>1, <2>2
<1>6. ASSUME NEW k \in Connections, NEW i \in DOMAIN sent'[k], NEW j \in DOMAIN sent'[k], i < j
      PROVE  /\ sent'[k][i].caller = sent'[k][j].caller => sent'[k][i].step <= sent'[k][j].step
             /\ sent'[k][j].reply # NotYet => sent'[k][i].reply # NotYet
  <2>1. CASE k = n /\ j = top
    <3>1. i \in DOMAIN sent[n] /\ sent'[n][i] = sent[n][i]
      BY <2>1, <1>3, <1>6
    <3>2. OnWire(n, sent[n][i])
      BY <3>1, <1>2 DEF WireInv
    <3> QED BY <2>1, <3>1, <3>2, <1>3 DEF OnWire
  <2>2. CASE ~(k = n /\ j = top)
    <3>1. i \in DOMAIN sent[k] /\ sent'[k][i] = sent[k][i]
          /\ j \in DOMAIN sent[k] /\ sent'[k][j] = sent[k][j]
      <4>1. CASE k # n
        BY <4>1, <1>3
      <4>2. CASE k = n
        <5>1. i \in 1 .. (top - 1) /\ j \in 1 .. (top - 1)
          BY <4>2, <2>2, <1>3, <1>6
        <5> QED BY <4>2, <5>1, <1>3
      <4> QED BY <4>1, <4>2
    <3> QED BY <3>1, <1>6 DEF OrderInv
  <2> QED BY <2>1, <2>2
<1> QED BY <1>5, <1>6 DEF WireInv, OrderInv

\* The other steps keep, answer or drop what is there.
LEMMA WireKept ==
  ASSUME CacheTypeOK, WireInv, OrderInv, Moves,
         \A k \in Connections : Survivors(k),
         \A k \in Connections : \A i, j \in DOMAIN sent'[k] : i < j =>
           (sent'[k][j].reply # NotYet => sent'[k][i].reply # NotYet)
  PROVE  (WireInv /\ OrderInv)'
BY SurvivorsOnWire DEF WireInv, OrderInv

LEMMA Unchanged ==
  ASSUME CacheTypeOK, NEW k \in Connections, sent'[k] = sent[k]
  PROVE  Survivors(k)
<1>1. sent[k] \in Seq(Messages)
  BY DEF CacheTypeOK
<1>2. \A j \in DOMAIN sent'[k] :
        /\ j \in Nat /\ j + 0 \in DOMAIN sent[k]
        /\ sent'[k][j].caller = sent[k][j + 0].caller
        /\ sent'[k][j].step = sent[k][j + 0].step
  BY <1>1
<1> QED BY <1>2 DEF Survivors

LEMMA ReceiveWire ==
  ASSUME CacheTypeOK, WireInv, OrderInv, NEW n \in Connections, Receive(n)
  PROVE  (WireInv /\ OrderInv)'
<1>1. Moves
  BY StepMoves DEF CacheNext
<1>2. /\ \A k \in Connections : k # n => sent'[k] = sent[k]
      /\ \A j \in DOMAIN sent'[n] : j \in Nat \ {0} /\ j + 1 \in DOMAIN sent[n]
                                    /\ sent'[n][j] = sent[n][j + 1]
  BY ReceiveShape
<1>3. Survivors(n)
  BY <1>2 DEF Survivors
<1>4. ASSUME NEW k \in Connections PROVE Survivors(k)
  BY <1>2, <1>3, Unchanged
<1>5. ASSUME NEW k \in Connections, NEW i \in DOMAIN sent'[k], NEW j \in DOMAIN sent'[k], i < j,
             sent'[k][j].reply # NotYet
      PROVE  sent'[k][i].reply # NotYet
  <2>1. CASE k = n
    BY <2>1, <1>2, <1>5 DEF OrderInv
  <2>2. CASE k # n
    BY <2>2, <1>2, <1>5 DEF OrderInv
  <2> QED BY <2>1, <2>2
<1> QED BY <1>1, <1>4, <1>5, WireKept

LEMMA ExecuteWire ==
  ASSUME CacheTypeOK, WireInv, OrderInv, NEW n \in Connections, Execute(n)
  PROVE  (WireInv /\ OrderInv)'
<1>1. Moves
  BY StepMoves DEF CacheNext
<1>2. PICK e \in DOMAIN sent[n] : ExecutesAt(n, e)
  BY ExecuteShape
<1>3. sent[n][e] \in Messages /\ sent[n] \in Seq(Messages)
  BY WireType
<1>4. /\ sent'[n][e].caller = sent[n][e].caller /\ sent'[n][e].step = sent[n][e].step
      /\ sent'[n][e].reply = store[CallOf(sent[n][e]).key]
  BY <1>2, <1>3 DEF ExecutesAt, Messages
<1>5. Survivors(n)
  <2>1. \A j \in DOMAIN sent'[n] :
          /\ j \in Nat /\ j + 0 \in DOMAIN sent[n]
          /\ sent'[n][j].caller = sent[n][j + 0].caller
          /\ sent'[n][j].step = sent[n][j + 0].step
    <3>1. ASSUME NEW j \in DOMAIN sent'[n]
          PROVE  j \in Nat /\ j + 0 = j /\ j \in DOMAIN sent[n]
      BY <1>2, <1>3 DEF ExecutesAt
    <3>2. ASSUME NEW j \in DOMAIN sent'[n]
          PROVE  sent'[n][j].caller = sent[n][j].caller /\ sent'[n][j].step = sent[n][j].step
      BY <3>1, <1>2, <1>4 DEF ExecutesAt
    <3> QED BY <3>1, <3>2
  <2> QED BY <2>1 DEF Survivors
<1>6. ASSUME NEW k \in Connections PROVE Survivors(k)
  BY <1>2, <1>5, Unchanged DEF ExecutesAt
<1>7. ASSUME NEW k \in Connections, NEW i \in DOMAIN sent'[k], NEW j \in DOMAIN sent'[k], i < j,
             sent'[k][j].reply # NotYet
      PROVE  sent'[k][i].reply # NotYet
  <2>1. CASE k # n
    BY <2>1, <1>2, <1>7 DEF OrderInv, ExecutesAt
  <2>2. CASE k = n /\ i = e
    <3>1. store[CallOf(sent[n][e]).key] # NotYet
      BY CallOfType, CacheAssumption DEF CacheTypeOK
    <3> QED BY <2>2, <3>1, <1>4
  <2>3. CASE k = n /\ i # e /\ j # e
    BY <2>3, <1>2, <1>7 DEF OrderInv, ExecutesAt
  <2>4. CASE k = n /\ i # e /\ j = e
    <3>1. i \in 1 .. (e - 1) /\ sent'[n][i] = sent[n][i]
      BY <2>4, <1>2, <1>3, <1>7 DEF ExecutesAt
    <3> QED BY <2>4, <3>1, <1>2 DEF ExecutesAt, FirstUnanswered
  <2> QED BY <2>1, <2>2, <2>3, <2>4
<1> QED BY <1>1, <1>6, <1>7, WireKept

LEMMA ReconnectWire ==
  ASSUME CacheTypeOK, WireInv, OrderInv, NEW n \in Connections, Reconnect(n)
  PROVE  (WireInv /\ OrderInv)'
<1>1. Moves
  BY StepMoves DEF CacheNext
<1>2. /\ \A k \in Connections : k # n => sent'[k] = sent[k]
      /\ \A j \in DOMAIN sent'[n] :
           j \in DOMAIN sent[n] /\ sent'[n][j] = [sent[n][j] EXCEPT !.reply = NotYet]
  BY ReconnectShape
<1>3. ASSUME NEW j \in DOMAIN sent'[n]
      PROVE  /\ j \in Nat /\ j + 0 \in DOMAIN sent[n]
             /\ sent'[n][j].caller = sent[n][j + 0].caller
             /\ sent'[n][j].step = sent[n][j + 0].step
             /\ sent'[n][j].reply = NotYet
  <2>1. j \in DOMAIN sent[n] /\ sent[n][j] \in Messages /\ sent[n] \in Seq(Messages)
    BY <1>2, WireType
  <2>2. j \in Nat /\ j + 0 = j
    BY <2>1
  <2>3. sent'[n][j] = [sent[n][j] EXCEPT !.reply = NotYet]
    BY <1>2
  <2>4. /\ sent'[n][j].caller = sent[n][j].caller
        /\ sent'[n][j].step = sent[n][j].step
        /\ sent'[n][j].reply = NotYet
    BY <2>1, <2>3 DEF Messages
  <2> QED BY <2>1, <2>2, <2>4
<1>4. Survivors(n)
  BY <1>3 DEF Survivors
<1>5. ASSUME NEW k \in Connections PROVE Survivors(k)
  BY <1>2, <1>4, Unchanged
<1>6. ASSUME NEW k \in Connections, NEW i \in DOMAIN sent'[k], NEW j \in DOMAIN sent'[k], i < j,
             sent'[k][j].reply # NotYet
      PROVE  sent'[k][i].reply # NotYet
  BY <1>2, <1>3, <1>6 DEF OrderInv
<1> QED BY <1>1, <1>5, <1>6, WireKept

LEMMA WireNext ==
  CacheTypeOK /\ WireInv /\ OrderInv /\ [CacheNext]_cacheVars => (WireInv /\ OrderInv)'
<1> SUFFICES ASSUME CacheTypeOK, WireInv, OrderInv, [CacheNext]_cacheVars
             PROVE  (WireInv /\ OrderInv)'
  OBVIOUS
<1>1. CASE UNCHANGED cacheVars
  BY <1>1 DEF WireInv, OrderInv, OnWire, CallOf, cacheVars, callVars
<1>2. ASSUME CacheNext, sent' = sent PROVE (WireInv /\ OrderInv)'
  <2>1. Moves
    BY <1>2, StepMoves
  <2>2. \A k \in Connections : Survivors(k)
    BY <1>2, Unchanged
  <2>3. \A k \in Connections : \A i, j \in DOMAIN sent'[k] : i < j =>
          (sent'[k][j].reply # NotYet => sent'[k][i].reply # NotYet)
    BY <1>2 DEF OrderInv
  <2> QED BY <2>1, <2>2, <2>3, WireKept
<1>3. CASE \E c \in Callers : Send(c) \/ NotConnected(c) \/ Timeout(c)
  BY <1>2, <1>3, SendWire DEF CacheNext, NotConnected, Timeout
<1>4. CASE \E n \in Connections : Receive(n) \/ Execute(n) \/ Reconnect(n)
  BY <1>4, ReceiveWire, ExecuteWire, ReconnectWire
<1>5. CASE \E k \in Keys : Expire(k)
  BY <1>2, <1>5 DEF CacheNext, Expire
<1> QED BY <1>1, <1>3, <1>4, <1>5 DEF CacheNext

LEMMA WireInit == CacheInit => WireInv /\ OrderInv
BY DEF CacheInit, WireInv, OrderInv

\* Theorem: every variable keeps its type, for any scripts and events.
THEOREM CacheTypeCorrect == CacheSpec => []CacheTypeOK
<1> DEFINE Inv == CacheTypeOK /\ WireInv /\ OrderInv
<1>1. CacheInit => Inv
  BY CacheInitType, WireInit
<1>2. Inv /\ [CacheNext]_cacheVars => Inv'
  BY CacheNextType, WireNext
<1>3. Inv => CacheTypeOK
  OBVIOUS
<1> QED BY <1>1, <1>2, <1>3, PTL DEF CacheSpec

-------------------------------------------------------------------------------
\* Whoever is told that it has the lock has it.

\* The SET NX of a lock that found no key left the key of its caller, as long
\* as the caller is at that call.
Won(m) ==
  /\ m.reply = NoOne
  /\ CallOf(m).op = "acquireLock"
  /\ m.step = step[m.caller]
  => m.caller \in taken \/ store[CallOf(m).key] = m.caller

GrantOnWire == \A n \in Connections : \A i \in DOMAIN sent[n] : Won(sent[n][i])

\* No DEL of an earlier call is left on the wire when a caller is told.
NoStaleDel ==
  \A c \in Callers : Granted(c) /\ pc[c] = "idle" =>
    \A i \in DOMAIN sent[ConnectionOf(c)] :
      sent[ConnectionOf(c)][i].caller = c => sent[ConnectionOf(c)][i].step >= step[c] - 1

LEMMA ScriptFacts ==
  ASSUME CacheTypeOK, NEW c \in Callers, NEW s \in DOMAIN script[c]
  PROVE  LET call == script[c][s]
         IN /\ s \in Nat \ {0} /\ call \in CacheCalls
            /\ call.op \in {"acquireLock", "releaseLock"} <=> call.key \in LockKeys
            /\ call.op = "releaseLock" =>
                 /\ s > 1 /\ s - 1 \in DOMAIN script[c]
                 /\ script[c][s - 1].op = "acquireLock" /\ script[c][s - 1].key = call.key
<1>1. script[c] \in Scripts /\ script[c] \in Seq(CacheCalls)
  BY CacheAssumption DEF CacheTypeOK
<1>2. s \in 1 .. Len(script[c]) /\ Len(script[c]) \in Nat
  BY <1>1
<1> QED BY <1>1, <1>2, ScriptAssumption

LEMMA ExecutesKept ==
  ASSUME CacheTypeOK, WireInv, NEW n \in Connections, NEW e, ExecutesAt(n, e),
         NEW k \in LockKeys, NEW d \in Callers, store[k] = d
  PROVE  \/ store'[k] = d \/ d \in taken'
         \/ /\ sent[n][e].caller = d
            /\ CallOf(sent[n][e]).op = "releaseLock" /\ CallOf(sent[n][e]).key = k
<1> DEFINE m == sent[n][e]
<1>1. m.caller \in Callers /\ CallOf(m).op \in Ops /\ CallOf(m).key \in Keys
      /\ m.step \in DOMAIN script[m.caller]
  BY WireType, CallOfType DEF ExecutesAt
<1>2. k \in Keys /\ d # NoOne
  BY CacheAssumption
<1>3. store' = [store EXCEPT ![CallOf(m).key] =
                  ValueAfter(CallOf(m).op, m.caller, store[CallOf(m).key])]
  BY DEF ExecutesAt
<1>4. CASE CallOf(m).key # k
  BY <1>2, <1>3, <1>4 DEF CacheTypeOK
<1>5. CASE CallOf(m).key = k
  <2>1. CallOf(m).op \in {"acquireLock", "releaseLock"}
    BY <1>1, <1>5, ScriptFacts DEF CallOf
  <2>2. store'[k] = ValueAfter(CallOf(m).op, m.caller, d)
    BY <1>2, <1>3, <1>5 DEF CacheTypeOK
  <2>3. CASE CallOf(m).op = "acquireLock"
    BY <2>2, <2>3, <1>2 DEF ValueAfter
  <2>4. CASE CallOf(m).op = "releaseLock"
    BY <2>4, <1>2, <1>5 DEF ExecutesAt
  <2> QED BY <2>1, <2>3, <2>4
<1> QED BY <1>4, <1>5

\* A key of a lock goes by its TTL, by a DEL of another, which is recorded, or
\* by a DEL of its owner.
LEMMA StoreKept ==
  ASSUME CacheTypeOK, WireInv, CacheNext, NEW k \in LockKeys, NEW d \in Callers, store[k] = d
  PROVE  \/ store'[k] = d \/ d \in taken'
         \/ \E n \in Connections : \E e \in DOMAIN sent[n] :
              /\ sent[n][e].reply = NotYet
              /\ sent[n][e].caller = d
              /\ CallOf(sent[n][e]).op = "releaseLock" /\ CallOf(sent[n][e]).key = k
<1>1. CASE \E c \in Callers : Send(c) \/ NotConnected(c) \/ Timeout(c)
  BY <1>1 DEF Send, NotConnected, Timeout, redisVars
<1>2. ASSUME NEW n \in Connections, Receive(n) \/ Reconnect(n)
      PROVE  store'[k] = d
  BY <1>2 DEF Receive, Reconnect, redisVars
<1>3. ASSUME NEW n \in Connections, Execute(n)
      PROVE  \/ store'[k] = d \/ d \in taken'
             \/ \E e \in DOMAIN sent[n] :
                  /\ sent[n][e].reply = NotYet
                  /\ sent[n][e].caller = d
                  /\ CallOf(sent[n][e]).op = "releaseLock" /\ CallOf(sent[n][e]).key = k
  <2>1. PICK e \in DOMAIN sent[n] : ExecutesAt(n, e)
    BY <1>3, ExecuteShape
  <2>2. sent[n][e].reply = NotYet
    BY <2>1 DEF ExecutesAt, FirstUnanswered
  <2>3. \/ store'[k] = d \/ d \in taken'
        \/ /\ sent[n][e].caller = d
           /\ CallOf(sent[n][e]).op = "releaseLock" /\ CallOf(sent[n][e]).key = k
    BY <2>1, ExecutesKept
  <2> QED BY <2>2, <2>3
<1>4. ASSUME NEW x \in Keys, Expire(x)
      PROVE  store'[k] = d \/ d \in taken'
  <2>1. k \in Keys /\ d # NoOne
    BY CacheAssumption
  <2> QED BY <1>4, <2>1 DEF Expire, CacheTypeOK
<1> QED BY <1>1, <1>2, <1>3, <1>4 DEF CacheNext

LEMMA TakenGrows ==
  ASSUME CacheTypeOK, CacheNext
  PROVE  taken \subseteq taken'
<1>1. ASSUME NEW n \in Connections, Execute(n) PROVE taken \subseteq taken'
  <2>1. PICK e \in DOMAIN sent[n] : ExecutesAt(n, e)
    BY <1>1, ExecuteShape
  <2> QED BY <2>1 DEF ExecutesAt
<1> QED BY <1>1 DEF CacheNext, Send, NotConnected, Timeout, Receive, Reconnect, Expire, history

LEMMA WonKept ==
  ASSUME CacheTypeOK, WireInv, OrderInv, CacheNext, NEW n \in Connections,
         NEW i \in DOMAIN sent[n], Won(sent[n][i]), NEW m, m = sent[n][i]
  PROVE  Won(m)'
<1>1. m.caller \in Callers /\ CallOf(m).key \in Keys /\ m.step \in Nat
      /\ m.step <= step[m.caller] /\ m.step \in DOMAIN script[m.caller]
  BY WireType, CallOfType DEF WireInv, OnWire
<1>2. Moves
  BY StepMoves
<1>3. CallOf(m)' = CallOf(m)
  BY <1>2 DEF Moves, CallOf
<1> SUFFICES ASSUME m.reply = NoOne, CallOf(m).op = "acquireLock", m.step = step'[m.caller]
             PROVE  m.caller \in taken' \/ store'[CallOf(m).key] = m.caller
  BY <1>3 DEF Won
<1>4. m.step = step[m.caller]
  BY <1>1, <1>2 DEF Moves, CacheTypeOK
<1>5. m.caller \in taken \/ store[CallOf(m).key] = m.caller
  BY <1>4 DEF Won
<1>6. CASE m.caller \in taken
  BY <1>6, TakenGrows
<1>7. CASE store[CallOf(m).key] = m.caller
  <2>1. CallOf(m).key \in LockKeys
    BY <1>1, ScriptFacts DEF CallOf
  <2>2. ASSUME NEW k \in Connections, NEW e \in DOMAIN sent[k],
               sent[k][e].reply = NotYet, sent[k][e].caller = m.caller,
               CallOf(sent[k][e]).op = "releaseLock", CallOf(sent[k][e]).key = CallOf(m).key
        PROVE  FALSE
    <3>1. k = n
      BY <2>2 DEF WireInv, OnWire
    <3>2. m.reply # NotYet
      BY CacheAssumption
    <3>3. i \in Nat /\ e \in Nat
      BY <3>1 DEF CacheTypeOK
    <3>4. i < e
      BY <2>2, <3>1, <3>2, <3>3 DEF OrderInv
    <3>5. m.step <= sent[n][e].step /\ sent[n][e].step <= step[m.caller]
          /\ sent[n][e].step \in Nat
      BY <2>2, <3>1, <3>4, WireType DEF OrderInv, WireInv, OnWire
    <3>6. sent[n][e].step = m.step
      BY <3>5, <1>4, <1>1
    <3> QED BY <3>6, <3>1, <2>2 DEF CallOf
  <2> QED BY <2>1, <2>2, <1>1, <1>7, StoreKept
<1> QED BY <1>5, <1>6, <1>7

LEMMA GrantOnWireNext ==
  ASSUME CacheTypeOK, WireInv, OrderInv, GrantOnWire, CacheNext
  PROVE  GrantOnWire'
<1>1. ASSUME NEW n \in Connections, NEW j \in DOMAIN sent'[n],
             NEW i \in DOMAIN sent[n], sent'[n][j] = sent[n][i]
      PROVE  Won(sent[n][j])'
  <2>1. Won(sent[n][i])
    BY DEF GrantOnWire
  <2> QED BY <1>1, <2>1, WonKept DEF Won, CallOf
<1>2. ASSUME NEW n \in Connections, NEW j \in DOMAIN sent'[n], sent'[n][j].reply # NoOne
      PROVE  Won(sent[n][j])'
  BY <1>2 DEF Won
<1>3. NotYet # NoOne
  BY CacheAssumption
<1>4. ASSUME NEW n \in Connections, sent'[n] = sent[n], NEW j \in DOMAIN sent'[n]
      PROVE  Won(sent[n][j])'
  BY <1>1, <1>4
<1>5. ASSUME NEW c \in Callers, Send(c), NEW n \in Connections, NEW j \in DOMAIN sent'[n]
      PROVE  Won(sent[n][j])'
  <2> DEFINE k == ConnectionOf(c)
  <2>1. CASE n # k
    BY <2>1, <1>5, <1>4, SendShape
  <2>2. CASE n = k /\ j = Len(sent[k]) + 1
    <3>1. sent'[k][Len(sent[k]) + 1] = [caller |-> c, step |-> step[c],
                                         attempt |-> attempt[c], reply |-> NotYet]
      BY <1>5, SendShape
    <3>2. sent'[n][j].reply = NotYet
      BY <2>2, <3>1
    <3> QED BY <3>2, <1>2, <1>3
  <2>3. CASE n = k /\ j # Len(sent[k]) + 1
    <3>1. j \in DOMAIN sent[n] /\ sent'[n][j] = sent[n][j]
      <4>1. /\ DOMAIN sent'[k] = 1 .. (Len(sent[k]) + 1) /\ Len(sent[k]) \in Nat
            /\ DOMAIN sent[k] = 1 .. Len(sent[k])
            /\ \A x \in 1 .. Len(sent[k]) : sent'[k][x] = sent[k][x]
        BY <1>5, SendShape
      <4> HIDE DEF k
      <4> QED BY <2>3, <4>1
    <3> QED BY <3>1, <1>1
  <2> QED BY <2>1, <2>2, <2>3
<1>6. ASSUME NEW k \in Connections, Receive(k), NEW n \in Connections, NEW j \in DOMAIN sent'[n]
      PROVE  Won(sent[n][j])'
  <2>1. CASE n # k
    BY <2>1, <1>6, <1>4, ReceiveShape
  <2>2. CASE n = k
    <3>1. j + 1 \in DOMAIN sent[n] /\ sent'[n][j] = sent[n][j + 1]
      BY <2>2, <1>6, ReceiveShape
    <3> QED BY <3>1, <1>1
  <2> QED BY <2>1, <2>2
<1>7. ASSUME NEW k \in Connections, Execute(k), NEW n \in Connections, NEW j \in DOMAIN sent'[n]
      PROVE  Won(sent[n][j])'
  <2>1. PICK e \in DOMAIN sent[k] : ExecutesAt(k, e)
    BY <1>7, ExecuteShape
  <2>2. CASE n # k
    BY <2>2, <2>1, <1>4 DEF ExecutesAt
  <2>3. CASE n = k /\ j # e
    BY <2>3, <2>1, <1>1 DEF ExecutesAt
  <2>4. CASE n = k /\ j = e
    <3> DEFINE m == sent[k][e]
    <3>1. m \in Messages /\ m.caller \in Callers /\ CallOf(m).key \in Keys
      BY WireType, CallOfType
    <3>2. /\ sent'[n][j].caller = m.caller /\ sent'[n][j].step = m.step
          /\ sent'[n][j].reply = store[CallOf(m).key]
      BY <2>1, <2>4, <3>1 DEF ExecutesAt, Messages
    <3>3. script' = script
      BY <1>7 DEF Execute, callVars
    <3>4. CASE store[CallOf(m).key] # NoOne
      BY <3>2, <3>4, <1>2
    <3>5. CASE store[CallOf(m).key] = NoOne /\ CallOf(m).op = "acquireLock"
      <4>1. store'[CallOf(m).key] = m.caller
        BY <2>1, <3>1, <3>5 DEF ExecutesAt, ValueAfter, CacheTypeOK
      <4> QED BY <3>2, <3>3, <4>1 DEF Won, CallOf
    <3>6. CASE CallOf(m).op # "acquireLock"
      BY <3>2, <3>3, <3>6 DEF Won, CallOf
    <3> QED BY <3>4, <3>5, <3>6
  <2> QED BY <2>2, <2>3, <2>4
<1>8. ASSUME NEW k \in Connections, Reconnect(k), NEW n \in Connections, NEW j \in DOMAIN sent'[n]
      PROVE  Won(sent[n][j])'
  <2>1. CASE n # k
    BY <2>1, <1>8, <1>4, ReconnectShape
  <2>2. CASE n = k
    <3>1. j \in DOMAIN sent[n] /\ sent[n][j] \in Messages
          /\ sent'[n][j] = [sent[n][j] EXCEPT !.reply = NotYet]
      BY <2>2, <1>8, ReconnectShape, WireType
    <3>2. sent'[n][j].reply = NotYet
      BY <3>1 DEF Messages
    <3> QED BY <3>2, <1>2, <1>3
  <2> QED BY <2>1, <2>2
<1>9. ASSUME sent' = sent PROVE GrantOnWire'
  BY <1>4, <1>9 DEF GrantOnWire
<1> QED BY <1>5, <1>6, <1>7, <1>8, <1>9 DEF CacheNext, GrantOnWire, NotConnected, Timeout, Expire

\* A caller comes to its DEL by an answer to its SET NX that found no key.
LEMMA HowGranted ==
  ASSUME CacheTypeOK, CacheNext, NEW c \in Callers, Granted(c)', pc'[c] = "idle"
  PROVE  \/ Granted(c) /\ pc[c] = "idle" /\ step'[c] = step[c] /\ Call(c)' = Call(c)
         \/ \E n \in Connections :
              /\ Receive(n) /\ Awaited(Head(sent[n])) /\ Head(sent[n]).caller = c
              /\ Head(sent[n]).reply = NoOne /\ step'[c] = step[c] + 1
              /\ Call(c).op = "acquireLock" /\ (Call(c).key)' = Call(c).key
<1>1. Moves
  BY StepMoves
<1>2. CASE step'[c] = step[c]
  <2>1. step[c] \in Nat
    BY DEF CacheTypeOK
  <2> QED BY <1>1, <1>2, <2>1 DEF Moves, Granted, Call
<1>3. CASE step'[c] = step[c] + 1
  <2>1. script[c] \in Seq(CacheCalls) /\ step[c] \in DOMAIN script[c] /\ step[c] \in Nat \ {0}
    BY CacheAssumption DEF CacheTypeOK
  <2>2. Call(c)' = script[c][step[c] + 1] /\ Call(c)'.op = "releaseLock"
    BY <1>1, <1>3 DEF Moves, Granted, Call
  <2>3. ASSUME step[c] < Len(script[c])
        PROVE  Call(c).op = "acquireLock" /\ Call(c)'.key = Call(c).key
    <3>1. step[c] + 1 \in DOMAIN script[c] /\ step[c] + 1 - 1 = step[c]
      BY <2>1, <2>3
    <3>2. /\ script[c][step[c]].op = "acquireLock"
          /\ script[c][step[c]].key = script[c][step[c] + 1].key
      <4> DEFINE next == step[c] + 1
      <4>1. script[c][next].op = "releaseLock"
        BY <2>2
      <4>2. next \in DOMAIN script[c] /\ next - 1 = step[c]
        BY <3>1, <2>1
      <4> HIDE DEF next
      <4>3. script[c][next - 1].op = "acquireLock"
            /\ script[c][next - 1].key = script[c][next].key
        BY <4>1, <4>2, ScriptFacts
      <4> QED BY <4>2, <4>3 DEF next
    <3> QED BY <3>2, <2>2 DEF Call
  <2>4. ASSUME NEW d \in Callers, NEW a \in Answers, Settle(d, a)
        PROVE  d = c /\ step[c] < Len(script[c]) /\ GoesOn(Call(c).op, a)
    <3>1. \/ step[d] < Len(script[d]) /\ GoesOn(Call(d).op, a)
             /\ step' = [step EXCEPT ![d] = step[d] + 1]
          \/ step' = step
      BY <2>4, SettleShape
    <3> QED BY <3>1, <2>1, <1>3 DEF CacheTypeOK
  <2>5. ASSUME NEW d \in Callers, FailAttempt(d) PROVE FALSE
    <3>1. Settle(d, AnswerOnFailure(Call(d).op))
      BY <2>5, <2>1, <1>3 DEF FailAttempt
    <3>2. d = c /\ Call(c).op = "acquireLock" /\ GoesOn(Call(c).op, AnswerOnFailure(Call(c).op))
      BY <3>1, <2>3, <2>4, AnswerOnFailureType
    <3> QED BY <3>2 DEF GoesOn, AnswerOnFailure
  <2>6. ASSUME UNCHANGED step PROVE FALSE
    BY <2>1, <2>6, <1>3
  <2>7. PICK n \in Connections : Receive(n) /\ Awaited(Head(sent[n]))
    BY <2>5, <2>6 DEF CacheNext, Send, NotConnected, Timeout, Receive, Execute, Reconnect,
                      Expire, callVars
  <2> DEFINE m == Head(sent[n])
  <2>8. m.caller = c /\ step[c] < Len(script[c]) /\ GoesOn(Call(c).op, AnswerTo(Call(c).op, m.reply))
    BY <2>7, <2>4, ReceiveAnswer
  <2>9. m.reply = NoOne
    BY <2>8, <2>3 DEF GoesOn, AnswerTo
  <2> QED BY <2>7, <2>8, <2>9, <2>3, <1>3
<1> QED BY <1>1, <1>2, <1>3 DEF Moves

LEMMA NoStaleDelNext ==
  ASSUME CacheTypeOK, WireInv, OrderInv, NoStaleDel, CacheNext
  PROVE  NoStaleDel'
<1> SUFFICES ASSUME NEW c \in Callers, Granted(c)', pc'[c] = "idle",
                    NEW j \in DOMAIN sent'[ConnectionOf(c)'],
                    sent'[ConnectionOf(c)'][j].caller = c
             PROVE  sent'[ConnectionOf(c)'][j].step >= step'[c] - 1
  BY DEF NoStaleDel
<1>1. Moves /\ step[c] \in Nat
  BY StepMoves DEF CacheTypeOK
<1>2. ConnectionOf(c)' = ConnectionOf(c) /\ ConnectionOf(c) \in Connections
  <2>1. Call(c)'.key = Call(c).key
    BY HowGranted
  <2> QED BY <2>1, CallType DEF ConnectionOf
<1> DEFINE n == ConnectionOf(c)
<1> HIDE DEF n
<1>3. n \in Connections /\ j \in DOMAIN sent'[n] /\ sent'[n][j].caller = c
  BY <1>2 DEF n
<1>4. ASSUME Granted(c), pc[c] = "idle", step'[c] = step[c], NEW i \in DOMAIN sent[n],
             sent'[n][j].caller = sent[n][i].caller, sent'[n][j].step = sent[n][i].step
      PROVE  sent'[n][j].step >= step'[c] - 1
  BY <1>3, <1>4 DEF NoStaleDel, n
<1>5. ASSUME Granted(c), pc[c] = "idle", step'[c] = step[c]
      PROVE  sent'[n][j].step >= step'[c] - 1
  <2>1. ASSUME NEW d \in Callers, Send(d) PROVE sent'[n][j].step >= step'[c] - 1
    <3> DEFINE k == ConnectionOf(d)
    <3>1. c # d
      BY <2>1 DEF Send, CacheTypeOK
    <3>2. CASE n # k
      <4>1. sent'[n] = sent[n]
        BY <3>2, <2>1, <1>3, SendShape
      <4> QED BY <4>1, <1>3, <1>4, <1>5
    <3>3. CASE n = k
      <4>1. /\ DOMAIN sent'[k] = 1 .. (Len(sent[k]) + 1) /\ Len(sent[k]) \in Nat
            /\ DOMAIN sent[k] = 1 .. Len(sent[k])
            /\ \A x \in 1 .. Len(sent[k]) : sent'[k][x] = sent[k][x]
            /\ sent'[k][Len(sent[k]) + 1] = [caller |-> d, step |-> step[d],
                                             attempt |-> attempt[d], reply |-> NotYet]
        BY <2>1, SendShape
      <4> HIDE DEF k
      <4>2. j # Len(sent[k]) + 1
        BY <4>1, <3>1, <3>3, <1>3
      <4>3. j \in DOMAIN sent[n] /\ sent'[n][j] = sent[n][j]
        BY <4>1, <4>2, <3>3, <1>3
      <4> QED BY <4>3, <1>4, <1>5
    <3> QED BY <3>2, <3>3
  <2>3. ASSUME sent'[n] = sent[n] PROVE sent'[n][j].step >= step'[c] - 1
    BY <2>3, <1>3, <1>4, <1>5
  <2>4. ASSUME NEW k \in Connections, Receive(k) PROVE sent'[n][j].step >= step'[c] - 1
    <3>1. CASE n # k
      BY <3>1, <2>3, <2>4, <1>3, ReceiveShape
    <3>2. CASE n = k
      <4>1. j + 1 \in DOMAIN sent[n] /\ sent'[n][j] = sent[n][j + 1]
        BY <3>2, <2>4, <1>3, ReceiveShape
      <4> QED BY <4>1, <1>4, <1>5
    <3> QED BY <3>1, <3>2
  <2>5. ASSUME NEW k \in Connections, Execute(k) PROVE sent'[n][j].step >= step'[c] - 1
    <3>1. PICK e \in DOMAIN sent[k] : ExecutesAt(k, e)
      BY <2>5, ExecuteShape
    <3>2. CASE n # k
      BY <3>2, <3>1, <2>3, <1>3 DEF ExecutesAt
    <3>3. CASE n = k
      <4>1. sent[n][e] \in Messages
        BY <3>3, WireType
      <4>2. j \in DOMAIN sent[n] /\ sent'[n][j].caller = sent[n][j].caller
            /\ sent'[n][j].step = sent[n][j].step
        BY <4>1, <3>1, <3>3, <1>3 DEF ExecutesAt, Messages
      <4> QED BY <4>2, <1>4, <1>5
    <3> QED BY <3>2, <3>3
  <2>6. ASSUME NEW k \in Connections, Reconnect(k) PROVE sent'[n][j].step >= step'[c] - 1
    <3>1. CASE n # k
      BY <3>1, <2>3, <2>6, <1>3, ReconnectShape
    <3>2. CASE n = k
      <4>1. j \in DOMAIN sent[n] /\ sent'[n][j] = [sent[n][j] EXCEPT !.reply = NotYet]
        BY <3>2, <2>6, <1>3, ReconnectShape
      <4>2. sent[n][j] \in Messages
        BY <4>1, <1>3, WireType
      <4>3. sent'[n][j].caller = sent[n][j].caller /\ sent'[n][j].step = sent[n][j].step
        BY <4>1, <4>2 DEF Messages
      <4> QED BY <4>1, <4>3, <1>4, <1>5
    <3> QED BY <3>1, <3>2
  <2>7. ASSUME sent' = sent PROVE sent'[n][j].step >= step'[c] - 1
    BY <2>3, <2>7
  <2> QED BY <2>1, <2>4, <2>5, <2>6, <2>7 DEF CacheNext, NotConnected, Timeout, Expire
<1>6. ASSUME NEW k \in Connections, Receive(k), Awaited(Head(sent[k])), Head(sent[k]).caller = c,
             step'[c] = step[c] + 1
      PROVE  sent'[n][j].step >= step'[c] - 1
  <2>1. 1 \in DOMAIN sent[k] /\ sent[k][1].caller = c /\ sent[k][1].step = step[c]
    BY <1>6, ReceiveShape DEF Awaited
  <2>2. OnWire(k, sent[k][1])
    BY <2>1 DEF WireInv
  <2>3. k = n
    BY <2>1, <2>2 DEF OnWire, CallOf, n, ConnectionOf, Call
  <2>4. j \in Nat \ {0} /\ j + 1 \in DOMAIN sent[n] /\ sent'[n][j] = sent[n][j + 1]
    BY <2>3, <1>3, <1>6, ReceiveShape
  <2>5. 1 < j + 1
    BY <2>4
  <2>6. sent[n][j + 1].step >= step[c]
    <3>1. sent[n][1].step <= sent[n][j + 1].step /\ sent[n][j + 1].step \in Nat
      BY <2>1, <2>3, <2>4, <2>5, <1>3, WireType DEF OrderInv
    <3> QED BY <3>1, <2>1, <2>3, <1>1
  <2> QED BY <2>4, <2>6, <1>1, <1>6
<1> QED BY <1>2, <1>5, <1>6, HowGranted DEF n

LEMMA GrantIsOwnedNext ==
  ASSUME CacheTypeOK, WireInv, OrderInv, GrantOnWire, NoStaleDel, GrantIsOwned, CacheNext
  PROVE  GrantIsOwned'
<1> SUFFICES ASSUME NEW c \in Callers, Granted(c)', pc'[c] = "idle", c \notin taken'
             PROVE  store'[Call(c)'.key] = c
  BY DEF GrantIsOwned
<1>1. c \notin taken
  BY TakenGrows
<1>2. CASE Granted(c) /\ pc[c] = "idle" /\ step'[c] = step[c] /\ Call(c)' = Call(c)
  <2> DEFINE k == Call(c).key
  <2>1. step[c] \in DOMAIN script[c] /\ Call(c) = script[c][step[c]] /\ Call(c).op = "releaseLock"
        /\ step[c] \in Nat
    BY <1>2 DEF CacheTypeOK, Call, Granted
  <2>2. k \in LockKeys
    BY <2>1, ScriptFacts
  <2>3. script[c][step[c] - 1].op = "acquireLock"
    BY <2>1, ScriptFacts
  <2>4. store[k] = c
    BY <1>1, <1>2 DEF GrantIsOwned
  <2>5. ASSUME NEW n \in Connections, NEW e \in DOMAIN sent[n], sent[n][e].caller = c,
               CallOf(sent[n][e]).op = "releaseLock", CallOf(sent[n][e]).key = k
        PROVE  FALSE
    <3>1. OnWire(n, sent[n][e]) /\ sent[n][e].step \in Nat
      BY WireType DEF WireInv
    <3>2. n = ConnectionOf(c) /\ sent[n][e].step < step[c]
      BY <3>1, <2>5, <1>2 DEF OnWire, ConnectionOf
    <3>3. sent[n][e].step >= step[c] - 1
      BY <3>2, <2>5, <1>2 DEF NoStaleDel
    <3>4. sent[n][e].step = step[c] - 1
      BY <3>1, <3>2, <3>3, <2>1
    <3> QED BY <3>4, <2>3, <2>5 DEF CallOf
  <2> QED BY <2>2, <2>4, <2>5, <1>2, StoreKept
<1>3. ASSUME NEW n \in Connections, Receive(n), Awaited(Head(sent[n])), Head(sent[n]).caller = c,
             Head(sent[n]).reply = NoOne, step'[c] = step[c] + 1,
             Call(c).op = "acquireLock", Call(c)'.key = Call(c).key
      PROVE  store'[Call(c)'.key] = c
  <2>1. 1 \in DOMAIN sent[n] /\ sent[n][1] = Head(sent[n])
    BY <1>3, ReceiveShape
  <2>2. Won(sent[n][1]) /\ sent[n][1].step = step[c] /\ CallOf(sent[n][1]) = Call(c)
    BY <2>1, <1>3 DEF GrantOnWire, Awaited, CallOf, Call
  <2>3. store[Call(c).key] = c
    BY <2>1, <2>2, <1>1, <1>3 DEF Won
  <2> QED BY <2>3, <1>3 DEF Receive, redisVars
<1> QED BY <1>2, <1>3, HowGranted

\* The lock that acquireLock grants: see GrantIsOwned.
GrantInv ==
  CacheTypeOK /\ WireInv /\ OrderInv /\ GrantOnWire /\ NoStaleDel /\ GrantIsOwned

LEMMA GrantInit == CacheInit => GrantInv
<1> SUFFICES ASSUME CacheInit PROVE GrantInv OBVIOUS
<1>1. CacheTypeOK /\ WireInv /\ OrderInv
  BY CacheInitType, WireInit
<1>2. ASSUME NEW c \in Callers PROVE ~Granted(c)
  <2>1. step[c] = 1 /\ step[c] \in DOMAIN script[c]
    BY <1>1 DEF CacheInit, CacheTypeOK
  <2>2. Call(c).op # "releaseLock"
    BY <2>1, <1>1, ScriptFacts DEF Call
  <2> QED BY <2>2 DEF Granted
<1>3. GrantOnWire
  BY DEF CacheInit, GrantOnWire
<1> QED BY <1>1, <1>2, <1>3 DEF GrantInv, NoStaleDel, GrantIsOwned

LEMMA GrantNext == GrantInv /\ [CacheNext]_cacheVars => GrantInv'
<1> SUFFICES ASSUME GrantInv, [CacheNext]_cacheVars PROVE GrantInv' OBVIOUS
<1>1. CASE CacheNext
  BY <1>1, CacheNextType, WireNext, GrantOnWireNext, NoStaleDelNext, GrantIsOwnedNext DEF GrantInv
<1>2. CASE UNCHANGED cacheVars
  <2>1. (CacheTypeOK /\ WireInv /\ OrderInv)'
    BY CacheNextType, WireNext DEF GrantInv
  <2>2. GrantOnWire' /\ NoStaleDel' /\ GrantIsOwned'
    BY <1>2 DEF GrantInv, GrantOnWire, NoStaleDel, GrantIsOwned, Won, CallOf, Granted, Call,
                ConnectionOf, cacheVars, callVars, redisVars, history
  <2> QED BY <2>1, <2>2 DEF GrantInv
<1> QED BY <1>1, <1>2

\* Theorem: acquireLock tells nobody that it has a lock it does not have, for
\* any number of attempts, however late they are applied or answered.
THEOREM GrantsAreOwned == CacheSpec => []GrantIsOwned
<1>1. GrantInv => GrantIsOwned
  BY DEF GrantInv
<1> QED BY <1>1, GrantInit, GrantNext, PTL DEF CacheSpec

\* Two callers in the critical section of one lock: one of them had its key
\* taken away.
THEOREM MutualExclusion ==
  CacheSpec => [](\A c, d \in Callers :
    /\ Granted(c) /\ pc[c] = "idle" /\ Granted(d) /\ pc[d] = "idle"
    /\ Call(c).key = Call(d).key /\ c # d
    => c \in taken \/ d \in taken)
<1>1. GrantIsOwned => \A c, d \in Callers :
        /\ Granted(c) /\ pc[c] = "idle" /\ Granted(d) /\ pc[d] = "idle"
        /\ Call(c).key = Call(d).key /\ c # d
        => c \in taken \/ d \in taken
  BY DEF GrantIsOwned
<1> QED BY <1>1, GrantsAreOwned, PTL

-------------------------------------------------------------------------------
\* A flag that was set is seen.

AckedStored == \A k \in acked : k \notin LockKeys /\ store[k] # NoOne

\* What Redis has answered, and will answer, to one who asks after the flag.
AskedAfter(c) ==
  /\ Call(c).op = "exists" /\ pc[c] # "idle"
  /\ pc[c] = "ended" => answer[c] # "false"
  /\ store[Call(c).key] # NoOne
  /\ \A n \in Connections : \A i \in DOMAIN sent[n] :
       sent[n][i].caller = c /\ sent[n][i].step = step[c] => sent[n][i].reply # NoOne

FlagInv ==
  /\ CacheTypeOK /\ WireInv /\ OrderInv /\ AckedStored
  /\ \A c \in known : AskedAfter(c)

\* Only a DEL, which is for locks, and the TTL remove a key.
LEMMA FlagStays ==
  ASSUME CacheTypeOK, WireInv, CacheNext, NEW k \in Keys, k \notin LockKeys, store[k] # NoOne,
         ~Expire(k)
  PROVE  store'[k] # NoOne
<1>1. ASSUME NEW n \in Connections, Execute(n) PROVE store'[k] # NoOne
  <2>1. PICK e \in DOMAIN sent[n] : ExecutesAt(n, e)
    BY <1>1, ExecuteShape
  <2> DEFINE m == sent[n][e]
  <2>2. m.caller \in Callers /\ CallOf(m).op \in Ops /\ CallOf(m).key \in Keys
        /\ m.step \in DOMAIN script[m.caller]
    BY WireType, CallOfType
  <2>3. CASE CallOf(m).key # k
    BY <2>1, <2>2, <2>3 DEF ExecutesAt, CacheTypeOK
  <2>4. CASE CallOf(m).key = k
    <3>1. CallOf(m).op # "releaseLock"
      BY <2>2, <2>4, ScriptFacts DEF CallOf
    <3>2. store'[k] = ValueAfter(CallOf(m).op, m.caller, store[k])
      BY <2>1, <2>4 DEF ExecutesAt, CacheTypeOK
    <3> QED BY <3>1, <3>2, <2>2, CacheAssumption DEF ValueAfter
  <2> QED BY <2>3, <2>4
<1>2. ASSUME NEW x \in Keys, Expire(x), x # k PROVE store'[k] # NoOne
  BY <1>2 DEF Expire, CacheTypeOK
<1> QED BY <1>1, <1>2 DEF CacheNext, Send, NotConnected, Timeout, Receive, Reconnect, redisVars

LEMMA AckedStoredNext ==
  ASSUME FlagInv, CacheNext
  PROVE  AckedStored'
<1> USE DEF FlagInv
<1>1. ASSUME acked' \subseteq acked, \A k \in acked' : ~Expire(k) PROVE AckedStored'
  BY <1>1, FlagStays DEF AckedStored, CacheTypeOK
<1>2. ASSUME NEW c \in Callers, NEW a \in Answers, Settle(c, a), store' = store
      PROVE  AckedStored'
  <2>1. \/ acked' = acked
        \/ /\ Call(c).op = "set" /\ store[Call(c).key] # NoOne
           /\ acked' = acked \cup {Call(c).key}
    BY <1>2, SettleShape
  <2>2. Call(c).op = "set" => Call(c).key \notin LockKeys
    BY ScriptFacts DEF Call, CacheTypeOK
  <2> QED BY <2>1, <2>2, <1>2 DEF AckedStored
<1>3. ASSUME UNCHANGED <<acked, store>> PROVE AckedStored'
  BY <1>3 DEF AckedStored
<1>4. ASSUME NEW c \in Callers, Send(c) \/ NotConnected(c) \/ Timeout(c) PROVE AckedStored'
  <2>1. CASE Send(c)
    BY <2>1, <1>3 DEF Send, redisVars
  <2>2. CASE FailAttempt(c) /\ UNCHANGED redisVars
    BY <2>2, <1>2, <1>3, AnswerOnFailureType DEF FailAttempt, redisVars
  <2> QED BY <1>4, <2>1, <2>2 DEF NotConnected, Timeout
<1>5. ASSUME NEW n \in Connections, Receive(n) PROVE AckedStored'
  <2>1. CASE Awaited(Head(sent[n]))
    BY <1>2, <1>5, <2>1, ReceiveAnswer DEF Receive, redisVars
  <2>2. CASE ~Awaited(Head(sent[n]))
    BY <1>3, <1>5, <2>2 DEF Receive, redisVars
  <2> QED BY <2>1, <2>2
<1>6. ASSUME NEW n \in Connections, Execute(n) PROVE AckedStored'
  <2>1. ASSUME NEW k \in acked PROVE store'[k] # NoOne /\ k \notin LockKeys
    <3>1. k \in Keys /\ k \notin LockKeys /\ store[k] # NoOne
      BY DEF AckedStored, CacheTypeOK
    <3>2. ~Expire(k)
      BY <1>6 DEF Execute, Expire, FirstUnanswered, CacheTypeOK
    <3> QED BY <3>1, <3>2, FlagStays
  <2> QED BY <2>1, <1>6 DEF AckedStored, Execute
<1>7. ASSUME NEW n \in Connections, Reconnect(n) PROVE AckedStored'
  BY <1>3, <1>7 DEF Reconnect, redisVars, history
<1>8. ASSUME NEW x \in Keys, Expire(x) PROVE AckedStored'
  BY <1>8 DEF Expire, AckedStored, CacheTypeOK
<1> QED BY <1>4, <1>5, <1>6, <1>7, <1>8 DEF CacheNext

\* No answer that says the flag is absent is under way.
NoDenial(c) ==
  \A n \in Connections : \A i \in DOMAIN sent[n] :
    sent[n][i].caller = c /\ sent[n][i].step = step[c] => sent[n][i].reply # NoOne

LEMMA NoDenialNext ==
  ASSUME CacheTypeOK, WireInv, CacheNext, NEW c \in Callers, step'[c] = step[c],
         NoDenial(c), store[Call(c).key] # NoOne
  PROVE  NoDenial(c)'
<1>1. ASSUME NEW n \in Connections, NEW j \in DOMAIN sent'[n],
             \/ sent'[n][j].reply = NotYet
             \/ \E i \in DOMAIN sent[n] : sent'[n][j] = sent[n][i]
      PROVE  sent'[n][j].caller = c /\ sent'[n][j].step = step'[c] => sent'[n][j].reply # NoOne
  BY <1>1, CacheAssumption DEF NoDenial
<1>2. ASSUME sent' = sent PROVE NoDenial(c)'
  BY <1>2 DEF NoDenial
<1>3. ASSUME NEW d \in Callers, Send(d), NEW n \in Connections, NEW j \in DOMAIN sent'[n]
      PROVE  sent'[n][j].caller = c /\ sent'[n][j].step = step'[c] => sent'[n][j].reply # NoOne
  <2> DEFINE k == ConnectionOf(d)
  <2>1. /\ \A x \in Connections : x # k => sent'[x] = sent[x]
        /\ DOMAIN sent'[k] = 1 .. (Len(sent[k]) + 1) /\ Len(sent[k]) \in Nat
        /\ DOMAIN sent[k] = 1 .. Len(sent[k])
        /\ \A x \in 1 .. Len(sent[k]) : sent'[k][x] = sent[k][x]
        /\ sent'[k][Len(sent[k]) + 1] = [caller |-> d, step |-> step[d],
                                         attempt |-> attempt[d], reply |-> NotYet]
    BY <1>3, SendShape
  <2> HIDE DEF k
  <2>2. CASE n # k
    BY <2>1, <2>2, <1>1
  <2>3. CASE n = k /\ j = Len(sent[k]) + 1
    BY <2>1, <2>3, CacheAssumption
  <2>4. CASE n = k /\ j # Len(sent[k]) + 1
    <3>1. j \in DOMAIN sent[n] /\ sent'[n][j] = sent[n][j]
      BY <2>1, <2>4
    <3> QED BY <3>1, <1>1
  <2> QED BY <2>2, <2>3, <2>4
<1>4. ASSUME NEW k \in Connections, Receive(k), NEW n \in Connections, NEW j \in DOMAIN sent'[n]
      PROVE  sent'[n][j].caller = c /\ sent'[n][j].step = step'[c] => sent'[n][j].reply # NoOne
  <2>1. CASE n # k
    BY <2>1, <1>1, <1>4, ReceiveShape
  <2>2. CASE n = k
    <3>1. j + 1 \in DOMAIN sent[n] /\ sent'[n][j] = sent[n][j + 1]
      BY <2>2, <1>4, ReceiveShape
    <3> QED BY <3>1, <1>1
  <2> QED BY <2>1, <2>2
<1>5. ASSUME NEW k \in Connections, Execute(k), NEW n \in Connections, NEW j \in DOMAIN sent'[n]
      PROVE  sent'[n][j].caller = c /\ sent'[n][j].step = step'[c] => sent'[n][j].reply # NoOne
  <2>1. PICK e \in DOMAIN sent[k] : ExecutesAt(k, e)
    BY <1>5, ExecuteShape
  <2>2. CASE n # k
    BY <2>2, <2>1, <1>1 DEF ExecutesAt
  <2>3. CASE n = k /\ j # e
    BY <2>3, <2>1, <1>1 DEF ExecutesAt
  <2>4. CASE n = k /\ j = e
    <3> DEFINE m == sent[k][e]
    <3>1. m \in Messages
      BY WireType
    <3>2. /\ sent'[n][j].caller = m.caller /\ sent'[n][j].step = m.step
          /\ sent'[n][j].reply = store[CallOf(m).key]
      BY <2>1, <2>4, <3>1 DEF ExecutesAt, Messages
    <3>3. m.caller = c /\ m.step = step[c] => CallOf(m) = Call(c)
      BY DEF CallOf, Call
    <3> QED BY <3>2, <3>3
  <2> QED BY <2>2, <2>3, <2>4
<1>6. ASSUME NEW k \in Connections, Reconnect(k), NEW n \in Connections, NEW j \in DOMAIN sent'[n]
      PROVE  sent'[n][j].caller = c /\ sent'[n][j].step = step'[c] => sent'[n][j].reply # NoOne
  <2>1. CASE n # k
    BY <2>1, <1>1, <1>6, ReconnectShape
  <2>2. CASE n = k
    <3>1. j \in DOMAIN sent[n] /\ sent[n][j] \in Messages
          /\ sent'[n][j] = [sent[n][j] EXCEPT !.reply = NotYet]
      BY <2>2, <1>6, ReconnectShape, WireType
    <3>2. sent'[n][j].reply = NotYet
      BY <3>1 DEF Messages
    <3> QED BY <3>2, <1>1
  <2> QED BY <2>1, <2>2
<1> QED BY <1>2, <1>3, <1>4, <1>5, <1>6 DEF CacheNext, NoDenial, NotConnected, Timeout, Expire

\* A question that fails ends in an error, never in a false.
LEMMA AskingFails ==
  ASSUME CacheTypeOK, NEW c \in Callers, Call(c).op = "exists", FailAttempt(c)
  PROVE  /\ step' = step /\ script' = script /\ pc'[c] # "idle"
         /\ pc'[c] = "ended" => answer'[c] # "false"
<1>1. CASE Settle(c, AnswerOnFailure(Call(c).op))
  <2>1. AnswerOnFailure("exists") = "error" /\ ~GoesOn("exists", "error")
    BY DEF AnswerOnFailure, GoesOn
  <2>2. script' = script /\ step' = step /\ pc' = [pc EXCEPT ![c] = "ended"]
        /\ answer' = [answer EXCEPT ![c] = "error"]
    BY <1>1, <2>1, SettleShape DEF Answers
  <2> QED BY <2>2 DEF CacheTypeOK
<1>2. CASE pc' = [pc EXCEPT ![c] = "retry"] /\ UNCHANGED <<script, step>>
  BY <1>2 DEF CacheTypeOK
<1> QED BY <1>1, <1>2 DEF FailAttempt

\* The step of another leaves a caller as it was.
LEMMA SettledOther ==
  ASSUME CacheTypeOK, NEW d \in Callers, NEW a \in Answers, Settle(d, a), NEW c \in Callers, c # d
  PROVE  script' = script /\ step'[c] = step[c] /\ pc'[c] = pc[c] /\ answer'[c] = answer[c]
<1>1. script' = script /\ answer' = [answer EXCEPT ![d] = a]
      /\ \/ pc' = [pc EXCEPT ![d] = "idle"] /\ step' = [step EXCEPT ![d] = step[d] + 1]
         \/ pc' = [pc EXCEPT ![d] = "ended"] /\ step' = step
  BY SettleShape
<1> QED BY <1>1 DEF CacheTypeOK

LEMMA OthersFail ==
  ASSUME CacheTypeOK, NEW d \in Callers, FailAttempt(d), NEW c \in Callers, c # d
  PROVE  script' = script /\ step'[c] = step[c] /\ pc'[c] = pc[c] /\ answer'[c] = answer[c]
<1>1. CASE Settle(d, AnswerOnFailure(Call(d).op))
  BY <1>1, SettledOther, AnswerOnFailureType
<1>2. CASE pc' = [pc EXCEPT ![d] = "retry"] /\ UNCHANGED <<script, step, answer>>
  BY <1>2 DEF CacheTypeOK
<1> QED BY <1>1, <1>2 DEF FailAttempt

\* Whoever begins to ask, or asks already, gets no false by this step.
LEMMA AskingGoesOn ==
  ASSUME FlagInv, CacheNext, NEW c \in known'
  PROVE  /\ c \in Callers /\ Call(c)' = Call(c) /\ step'[c] = step[c]
         /\ Call(c).op = "exists" /\ store[Call(c).key] # NoOne /\ NoDenial(c)
         /\ pc'[c] # "idle" /\ (pc'[c] = "ended" => answer'[c] # "false")
<1> USE DEF FlagInv
<1>1. known' \subseteq Callers
  BY CacheNextType DEF CacheTypeOK
<1>2. ASSUME c \in known, script' = script, step'[c] = step[c],
             pc'[c] # "idle" /\ (pc'[c] = "ended" => answer'[c] # "false")
      PROVE  /\ Call(c)' = Call(c) /\ step'[c] = step[c]
             /\ Call(c).op = "exists" /\ store[Call(c).key] # NoOne /\ NoDenial(c)
  BY <1>2 DEF AskedAfter, NoDenial, Call
<1>3. ASSUME c \in known, script' = script, step'[c] = step[c], pc'[c] = pc[c],
             answer'[c] = answer[c]
      PROVE  pc'[c] # "idle" /\ (pc'[c] = "ended" => answer'[c] # "false")
  BY <1>3 DEF AskedAfter
<1>4. ASSUME c \in known, UNCHANGED callVars
      PROVE  /\ script' = script /\ step'[c] = step[c]
             /\ pc'[c] # "idle" /\ (pc'[c] = "ended" => answer'[c] # "false")
  BY <1>3, <1>4 DEF callVars
<1>5. ASSUME NEW d \in Callers, Begin(d)
      PROVE  \/ c \in known
             \/ /\ c = d /\ pc[c] = "idle" /\ Call(c).op = "exists"
                /\ store[Call(c).key] # NoOne /\ NoDenial(c)
  <2>1. c \in known \/ (c = d /\ pc[c] = "idle" /\ Call(c).op = "exists" /\ Call(c).key \in acked)
    BY <1>5 DEF Begin
  <2>2. ASSUME pc[c] = "idle", c \in Callers PROVE NoDenial(c)
    <3>1. ASSUME NEW n \in Connections, NEW i \in DOMAIN sent[n], sent[n][i].caller = c
          PROVE  sent[n][i].step < step[c]
      BY <2>2, <3>1 DEF WireInv, OnWire
    <3>2. step[c] \in Nat
      BY <2>2 DEF CacheTypeOK
    <3> QED BY <3>1, <3>2 DEF NoDenial
  <2> QED BY <2>1, <2>2 DEF AckedStored
<1>6. ASSUME NEW d \in Callers, Send(d)
      PROVE  /\ Call(c)' = Call(c) /\ step'[c] = step[c]
             /\ Call(c).op = "exists" /\ store[Call(c).key] # NoOne /\ NoDenial(c)
             /\ pc'[c] # "idle" /\ (pc'[c] = "ended" => answer'[c] # "false")
  <2>1. script' = script /\ step' = step /\ answer' = answer
        /\ pc' = [pc EXCEPT ![d] = "awaiting"] /\ Begin(d)
    BY <1>6 DEF Send
  <2>2. CASE c = d
    <3>1. pc'[c] = "awaiting"
      BY <2>1, <2>2, <1>1 DEF CacheTypeOK
    <3> QED BY <2>1, <3>1, <1>2, <1>5 DEF Call
  <2>3. CASE c # d
    <3>1. c \in known /\ pc'[c] = pc[c]
      BY <2>1, <2>3, <1>1, <1>5 DEF CacheTypeOK
    <3> QED BY <2>1, <3>1, <1>2, <1>3
  <2> QED BY <2>2, <2>3
<1>7. ASSUME NEW d \in Callers, FailAttempt(d), Begin(d) \/ known' = known
      PROVE  /\ Call(c)' = Call(c) /\ step'[c] = step[c]
             /\ Call(c).op = "exists" /\ store[Call(c).key] # NoOne /\ NoDenial(c)
             /\ pc'[c] # "idle" /\ (pc'[c] = "ended" => answer'[c] # "false")
  <2>1. \/ c \in known
        \/ /\ c = d /\ pc[c] = "idle" /\ Call(c).op = "exists"
           /\ store[Call(c).key] # NoOne /\ NoDenial(c)
    BY <1>5, <1>7
  <2>2. CASE c = d
    <3>1. Call(c).op = "exists" /\ store[Call(c).key] # NoOne /\ NoDenial(c)
      BY <2>1 DEF AskedAfter, NoDenial
    <3>2. step' = step /\ script' = script /\ pc'[c] # "idle"
          /\ (pc'[c] = "ended" => answer'[c] # "false")
      BY <2>2, <3>1, <1>7, AskingFails
    <3> QED BY <3>1, <3>2 DEF Call
  <2>3. CASE c # d
    <3>1. script' = script /\ step'[c] = step[c] /\ pc'[c] = pc[c] /\ answer'[c] = answer[c]
      BY <2>3, <1>1, <1>7, OthersFail
    <3> QED BY <2>1, <2>3, <3>1, <1>2, <1>3
  <2> QED BY <2>2, <2>3
<1>8. ASSUME NEW n \in Connections, Receive(n)
      PROVE  /\ Call(c)' = Call(c) /\ step'[c] = step[c]
             /\ Call(c).op = "exists" /\ store[Call(c).key] # NoOne /\ NoDenial(c)
             /\ pc'[c] # "idle" /\ (pc'[c] = "ended" => answer'[c] # "false")
  <2> DEFINE m == Head(sent[n])
             a == AnswerTo(Call(m.caller).op, m.reply)
  <2>1. c \in known
    BY <1>8 DEF Receive
  <2>2. CASE ~Awaited(m)
    BY <2>1, <2>2, <1>2, <1>4, <1>8 DEF Receive, callVars
  <2>3. CASE Awaited(m) /\ m.caller # c
    <3>1. m.caller \in Callers /\ a \in Answers /\ Settle(m.caller, a)
      BY <2>3, <1>8, ReceiveAnswer
    <3>2. script' = script /\ step'[c] = step[c] /\ pc'[c] = pc[c] /\ answer'[c] = answer[c]
      BY <2>3, <3>1, <1>1, SettledOther
    <3> QED BY <2>1, <3>2, <1>2, <1>3
  <2>4. CASE Awaited(m) /\ m.caller = c
    <3>1. 1 \in DOMAIN sent[n] /\ m = sent[n][1] /\ m.step = step[c]
      BY <1>8, <2>4, ReceiveShape DEF Awaited
    <3>2. m.reply # NoOne /\ Call(c).op = "exists"
      BY <2>1, <2>4, <3>1 DEF AskedAfter
    <3>3. Settle(c, "true") /\ "true" \in Answers /\ ~GoesOn("exists", "true")
      BY <2>4, <3>2, <1>8, ReceiveAnswer DEF AnswerTo, GoesOn, Answers
    <3>4. script' = script /\ step' = step /\ pc' = [pc EXCEPT ![c] = "ended"]
          /\ answer' = [answer EXCEPT ![c] = "true"]
      BY <3>2, <3>3, <1>1, SettleShape
    <3>5. pc'[c] = "ended" /\ answer'[c] = "true"
      BY <3>4, <1>1 DEF CacheTypeOK
    <3> QED BY <2>1, <3>4, <3>5, <1>2
  <2> QED BY <2>2, <2>3, <2>4
<1>9. ASSUME NEW n \in Connections, Execute(n) \/ Reconnect(n)
      PROVE  /\ Call(c)' = Call(c) /\ step'[c] = step[c]
             /\ Call(c).op = "exists" /\ store[Call(c).key] # NoOne /\ NoDenial(c)
             /\ pc'[c] # "idle" /\ (pc'[c] = "ended" => answer'[c] # "false")
  <2>1. c \in known /\ UNCHANGED callVars
    BY <1>9 DEF Execute, Reconnect, history
  <2> QED BY <2>1, <1>2, <1>4
<1>10. ASSUME NEW x \in Keys, Expire(x)
      PROVE  /\ Call(c)' = Call(c) /\ step'[c] = step[c]
             /\ Call(c).op = "exists" /\ store[Call(c).key] # NoOne /\ NoDenial(c)
             /\ pc'[c] # "idle" /\ (pc'[c] = "ended" => answer'[c] # "false")
  <2>1. c \in known /\ UNCHANGED callVars
    BY <1>10 DEF Expire
  <2> QED BY <2>1, <1>2, <1>4
<1> QED BY <1>1, <1>6, <1>7, <1>8, <1>9, <1>10 DEF CacheNext, NotConnected, Timeout

LEMMA KnownNext ==
  ASSUME FlagInv, CacheNext, NEW c \in known'
  PROVE  AskedAfter(c)'
<1>1. /\ c \in Callers /\ Call(c)' = Call(c) /\ step'[c] = step[c]
      /\ Call(c).op = "exists" /\ store[Call(c).key] # NoOne /\ NoDenial(c)
      /\ pc'[c] # "idle" /\ (pc'[c] = "ended" => answer'[c] # "false")
  BY AskingGoesOn
<1>2. CacheTypeOK /\ WireInv
  BY DEF FlagInv
<1>3. NoDenial(c)'
  BY <1>1, <1>2, NoDenialNext
<1>4. Call(c).key \in Keys /\ Call(c).key \notin LockKeys
  BY <1>1, <1>2, CallType, ScriptFacts DEF Call, CacheTypeOK
<1>5. ~Expire(Call(c).key)
  BY <1>1 DEF Expire
<1>6. store'[Call(c).key] # NoOne
  BY <1>1, <1>2, <1>4, <1>5, FlagStays
<1> QED BY <1>1, <1>3, <1>6 DEF AskedAfter, NoDenial

LEMMA FlagNext == FlagInv /\ [CacheNext]_cacheVars => FlagInv'
<1> SUFFICES ASSUME FlagInv, [CacheNext]_cacheVars PROVE FlagInv' OBVIOUS
<1>1. (CacheTypeOK /\ WireInv /\ OrderInv)'
  BY CacheNextType, WireNext DEF FlagInv
<1>2. CASE CacheNext
  BY <1>1, <1>2, AckedStoredNext, KnownNext DEF FlagInv
<1>3. CASE UNCHANGED cacheVars
  BY <1>1, <1>3 DEF FlagInv, AckedStored, AskedAfter, Call, cacheVars, callVars, redisVars, history
<1> QED BY <1>2, <1>3

\* Theorem: who asks after a flag that was set, and has not reached its TTL,
\* is never told that there is none, whatever fails: the guards fail closed.
THEOREM FlagsAreSeen == CacheSpec => []FlagSeen
<1>1. CacheInit => FlagInv
  BY CacheInitType, WireInit DEF CacheInit, FlagInv, AckedStored
<1>2. FlagInv => FlagSeen
  BY DEF FlagInv, FlagSeen, AskedAfter
<1> QED BY <1>1, <1>2, FlagNext, PTL DEF CacheSpec
===============================================================================
