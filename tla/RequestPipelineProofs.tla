----------------------- MODULE RequestPipelineProofs -----------------------
(***************************************************************************)
(* Safety of the request pipeline, for any number of requests and keys and *)
(* whatever the limiter, the handlers, the database and the shutdown do.   *)
(*                                                                         *)
(* The invariant says, stage by stage, what a request has acquired and     *)
(* written so far; nothing in it relates two requests.                     *)
(***************************************************************************)
EXTENDS RequestPipeline, SequenceTheorems, TLAPS

\* The stages of a request that nobody has written anything to.
Silent == {"new", "session", "auth", "limit", "query", "answer", "panic"}

\* Up to authentication a request is nobody's; there it carries its session.
Unidentified(r) ==
    /\ pc[r] \in {"new", "session", "auth"} => identity[r] = NoToken
    /\ pc[r] = "auth" => r \in session

\* A key that was invalid once remains so.
Doomed(r) ==
    /\ pc[r] = "new" => r \notin stillborn
    /\ r \in stillborn => token[r] \in Keys \ valid

\* What a handler answers with is never the refusal of a key, and is known from the
\* query on only.
HandlersStatus(r) ==
    /\ result[r] \in {0, 200, 400, 500}
    /\ pc[r] \in {"answer", "answered"} => result[r] # 0
    /\ pc[r] \in Silent \ {"answer"} => result[r] = 0

\* The bodies of a request that has left the handlers, or never got there.
Sent(r) ==
    writes[r] = IF r \in expired /\ result[r] # 0 THEN <<result[r], 504>>
                ELSE <<StatusOf(r)>>

\* The bodies written: none up to the handler, then its answer, then the deadline's.
Bodies(r) ==
    /\ pc[r] \in Silent => writes[r] = <<>>
    /\ pc[r] = "answered" => writes[r] = <<result[r]>>
    /\ pc[r] \in {"log", "done"} => Sent(r)

\* The log line comes last, shows what was written first, and is missing only
\* where a panic was recovered from.
LoggedLast(r) ==
    /\ pc[r] # "done" => logged[r] = 0
    /\ pc[r] = "done" => \/ logged[r] = StatusOf(r)
                         \/ result[r] = 0 /\ StatusOf(r) = 500 /\ logged[r] = 0

Cause(r) ==
    /\ StatusOf(r) = 401
    /\ token[r] \in Keys \ Revocable
    => r \in Unlucky \/ ~DbOpen

Front(r) ==
    Past(r) => identity[r] = token[r] /\ r \notin stillborn

ReqInv(r) ==
    /\ Unidentified(r)
    /\ Doomed(r)
    /\ HandlersStatus(r)
    /\ Bodies(r)
    /\ LoggedLast(r)
    /\ Cause(r)
    /\ Front(r)

IInv ==
    /\ TypeOK
    /\ Keys \ Revocable \subseteq valid
    /\ \A r \in Requests : ReqInv(r)

----------------------------------------------------------------------------
(* What one more body does to those written so far. *)

\* A body is added at the end.
LEMMA OneMore ==
    ASSUME NEW S, NEW w \in Seq(S), NEW s \in S
    PROVE  Append(w, s) \in Seq(S)
  OBVIOUS

\* The first body of a sequence.
LEMMA FirstBody ==
    ASSUME NEW S, NEW s \in S
    PROVE  Append(<<>>, s) = <<s>> /\ <<s>> # <<>> /\ Head(<<s>>) = s
<1>1. <<>> \in Seq(S) /\ Len(<<>>) = 0
  BY EmptySeq
<1>2. Append(<<>>, s) = <<s>>
  OBVIOUS
<1>3. QED
  BY <1>2

\* The second one: the first is still what the client sees.
LEMMA SecondBody ==
    ASSUME NEW S, NEW a \in S, NEW s \in S
    PROVE  Append(<<a>>, s) = <<a, s>> /\ <<a, s>> # <<>> /\ Head(<<a, s>>) = a
<1> DEFINE w == Append(<<a>>, s)
<1> DEFINE v == <<a, s>>
<1>1. <<a>> \in Seq(S) /\ Len(<<a>>) = 1 /\ <<a>>[1] = a
  OBVIOUS
<1>2. w \in Seq(S) /\ Len(w) = 2 /\ w[1] = a /\ w[2] = s
  BY <1>1, AppendProperties
<1>3. v \in Seq(S) /\ Len(v) = 2 /\ v[1] = a /\ v[2] = s
  OBVIOUS
<1>4. \A i \in 1 .. Len(w) : w[i] = v[i]
  <2> HIDE DEF w, v
  <2>1. \A i \in 1 .. 2 : i = 1 \/ i = 2
    OBVIOUS
  <2>2. QED
    BY <1>2, <1>3, <2>1
<1>5. w = v
  <2> HIDE DEF w, v
  <2>1. QED
    BY <1>2, <1>3, <1>4, SeqEqual
<1>6. v # <<>> /\ Head(v) = a
  OBVIOUS
<1>7. QED
  BY <1>5, <1>6

\* A body that is written to one request.
LEMMA Wrote ==
    ASSUME TypeOK, NEW r \in Requests, NEW s \in Statuses, Write(r, s)
    PROVE  /\ writes' \in [Requests -> Seq(Statuses)]
           /\ writes'[r] = Append(writes[r], s)
           /\ \A q \in Requests \ {r} : writes'[q] = writes[q]
<1>1. writes[r] \in Seq(Statuses) /\ writes \in [Requests -> Seq(Statuses)]
  BY DEF TypeOK
<1>2. writes' = [writes EXCEPT ![r] = Append(writes[r], s)]
  BY DEF Write
<1>3. Append(writes[r], s) \in Seq(Statuses)
  BY <1>1, OneMore
<1>4. QED
  BY <1>1, <1>2, <1>3, Zenon

\* What has not been written to shows the same status.
LEMMA Unwritten ==
    ASSUME NEW r \in Requests, writes'[r] = writes[r]
    PROVE  StatusOf(r)' = StatusOf(r)
  BY DEF StatusOf

\* Before anything is written there is no status.
LEMMA NoStatus ==
    ASSUME NEW r \in Requests, writes[r] = <<>>
    PROVE  StatusOf(r) = 0
  BY DEF StatusOf

----------------------------------------------------------------------------
(* Types. *)

\* A step keeps the types; what a handler answers with is a status.
LEMMA TypeStep == IInv /\ [Next]_vars => TypeOK'
<1> SUFFICES ASSUME IInv, [Next]_vars
             PROVE  TypeOK'
  OBVIOUS
<1> TypeOK
  BY DEF IInv
<1>1. \A s \in {200, 400, 401, 429, 500, 504} : s \in Statuses
  BY DEF Statuses
<1>2. ASSUME NEW r \in Requests, Arrive(r) PROVE TypeOK'
  <2>1. PICK t \in Tokens : /\ token' = [token EXCEPT ![r] = t]
                            /\ stillborn' = IF t \in Keys \ valid THEN stillborn \cup {r}
                                            ELSE stillborn
    BY <1>2 DEF Arrive
  <2>2. QED
    BY <1>2, <2>1 DEF Arrive, TypeOK, Move, Stages
<1>3. ASSUME NEW r \in Requests, NEW s \in Statuses, Write(r, s)
      PROVE  writes' \in [Requests -> Seq(Statuses)]
  BY <1>3, Wrote
<1>4. ASSUME NEW r \in Requests, ArriveElsewhere(r) \/ AuthRefuses(r) \/ LimiterRejects(r)
                                 \/ Recover(r) \/ DeadlineMissed(r)
      PROVE  TypeOK'
  <2>1. PICK s \in Statuses : Write(r, s)
    BY <1>1, <1>4 DEF ArriveElsewhere, AuthRefuses, LimiterRejects, Recover, DeadlineMissed
  <2>2. writes' \in [Requests -> Seq(Statuses)]
    BY <1>3, <2>1
  <2>3. QED
    BY <1>4, <2>2 DEF ArriveElsewhere, AuthRefuses, LimiterRejects, Recover, DeadlineMissed,
                      TypeOK, Move, Stages
<1>5. ASSUME NEW r \in Requests, OpenSession(r) \/ AuthAnonymous(r) \/ LimiterPasses(r)
                                 \/ Panic(r) \/ DeadlineMet(r)
      PROVE  TypeOK'
  BY <1>5 DEF OpenSession, AuthAnonymous, LimiterPasses, Panic, DeadlineMet, TypeOK, Move,
              Stages, InHandler
<1>6. ASSUME NEW r \in Requests, AuthAccepts(r) PROVE TypeOK'
  BY <1>6 DEF AuthAccepts, TypeOK, Move, Stages
<1>7. ASSUME NEW r \in Requests, DeadlinePasses(r) PROVE TypeOK'
  BY <1>7 DEF DeadlinePasses, TypeOK
<1>8. ASSUME NEW r \in Requests, BadRequest(r) \/ QueryAnswers(r) \/ QueryFails(r)
      PROVE  TypeOK'
  <2>1. PICK s \in Statuses : result' = [result EXCEPT ![r] = s]
    BY <1>1, <1>8 DEF BadRequest, QueryAnswers, QueryFails
  <2>2. pc' = [pc EXCEPT ![r] = "answer"]
    BY <1>8 DEF BadRequest, QueryAnswers, QueryFails, Move
  <2>3. UNCHANGED <<valid, proc, token, stillborn, session, identity, expired, writes,
                    logged, job>>
    BY <1>8 DEF BadRequest, QueryAnswers, QueryFails
  <2>4. QED
    BY <2>1, <2>2, <2>3 DEF TypeOK, Stages, InHandler
<1>9. ASSUME NEW r \in Requests, Answer(r) PROVE TypeOK'
  <2>1. result[r] \in Statuses
    BY <1>1, <1>9 DEF Answer, Move, IInv, ReqInv, HandlersStatus
  <2>2. writes' \in [Requests -> Seq(Statuses)]
    BY <1>3, <1>9, <2>1 DEF Answer
  <2>3. QED
    BY <1>9, <2>2 DEF Answer, TypeOK, Move, Stages, InHandler
<1>10. ASSUME NEW r \in Requests, Log(r) PROVE TypeOK'
  <2>1. StatusOf(r) \in Statuses \cup {0}
    BY HeadTailProperties DEF StatusOf, TypeOK
  <2>2. QED
    BY <1>10, <2>1 DEF Log, TypeOK, Move, Stages
<1>11. ASSUME NEW r \in Requests, UpdateLastUsed(r) PROVE TypeOK'
  BY <1>11 DEF UpdateLastUsed, TypeOK
<1>12. ASSUME NEW k \in Keys, Revoke(k) PROVE TypeOK'
  BY <1>12 DEF Revoke, TypeOK
<1>13. ASSUME ShutDown PROVE TypeOK'
  BY <1>13 DEF ShutDown, TypeOK, Lives
<1>14. ASSUME UNCHANGED vars PROVE TypeOK'
  BY <1>14 DEF vars, TypeOK
<1>15. QED
  BY <1>2, <1>4, <1>5, <1>6, <1>7, <1>8, <1>9, <1>10, <1>11, <1>12, <1>13, <1>14
     DEF Next, Authenticate, Handle, Leave

----------------------------------------------------------------------------
(* Requests that a step leaves alone, or harms in no way. *)

\* What a step may change of a request without consequences: its job, its deadline.
Spared(q) ==
    /\ pc'[q] = pc[q] /\ token'[q] = token[q] /\ identity'[q] = identity[q]
    /\ result'[q] = result[q] /\ writes'[q] = writes[q] /\ logged'[q] = logged[q]
    /\ q \in stillborn' <=> q \in stillborn
    /\ q \in session' <=> q \in session
    /\ pc[q] \notin InHandler => (q \in expired' <=> q \in expired)
    /\ valid' \subseteq valid
    /\ DbOpen' => DbOpen

\* The invariant of a spared request.
LEMMA SparedKeeps ==
    ASSUME NEW q \in Requests, ReqInv(q), Spared(q)
    PROVE  ReqInv(q)'
<1>1. StatusOf(q)' = StatusOf(q)
  BY Unwritten DEF Spared
<1>2. Unidentified(q)' /\ Doomed(q)' /\ HandlersStatus(q)'
  BY DEF ReqInv, Spared, Unidentified, Doomed, HandlersStatus
<1>3. Bodies(q)'
  BY <1>1 DEF ReqInv, Spared, Bodies, Sent, InHandler
<1>4. LoggedLast(q)' /\ Cause(q)'
  BY <1>1 DEF ReqInv, Spared, LoggedLast, Cause
<1>5. Front(q)'
  BY DEF ReqInv, Spared, Front, Past
<1>6. QED
  BY <1>2, <1>3, <1>4, <1>5 DEF ReqInv

\* A step of one request spares all others.
LEMMA OthersKeep ==
    ASSUME IInv, NEW r \in Requests, NEW q \in Requests \ {r},
           \/ Arrive(r) \/ ArriveElsewhere(r) \/ OpenSession(r) \/ Authenticate(r)
           \/ LimiterPasses(r) \/ LimiterRejects(r) \/ Handle(r) \/ Leave(r)
    PROVE  ReqInv(q)'
<1> TypeOK /\ ReqInv(q)
  BY DEF IInv
<1>1. CASE Arrive(r)
  <2>1. PICK t \in Tokens : /\ token' = [token EXCEPT ![r] = t]
                            /\ stillborn' = IF t \in Keys \ valid THEN stillborn \cup {r}
                                            ELSE stillborn
    BY <1>1 DEF Arrive
  <2>2. Spared(q)
    BY <1>1, <2>1 DEF Arrive, Move, TypeOK, Spared, DbOpen
  <2>3. QED
    BY <2>2, SparedKeeps
<1>2. CASE OpenSession(r) \/ Authenticate(r)
  <2>1. Spared(q)
    BY <1>2 DEF OpenSession, Authenticate, AuthAnonymous, AuthAccepts, AuthRefuses,
                Move, Write, TypeOK, Spared, DbOpen
  <2>2. QED
    BY <2>1, SparedKeeps
<1>3. CASE ArriveElsewhere(r) \/ LimiterPasses(r) \/ LimiterRejects(r)
  <2>1. Spared(q)
    BY <1>3 DEF ArriveElsewhere, LimiterPasses, LimiterRejects, Move, Write, TypeOK,
                Spared, DbOpen
  <2>2. QED
    BY <2>1, SparedKeeps
<1>4. CASE Handle(r)
  <2>1. Spared(q)
    BY <1>4 DEF Handle, BadRequest, QueryAnswers, QueryFails, Answer, Panic, Move, Write,
                TypeOK, Spared, DbOpen
  <2>2. QED
    BY <2>1, SparedKeeps
<1>5. CASE Leave(r)
  <2>1. Spared(q)
    BY <1>5 DEF Leave, DeadlineMet, DeadlineMissed, Recover, Log, Move, Write, TypeOK,
                Spared, DbOpen
  <2>2. QED
    BY <2>1, SparedKeeps
<1>6. QED
  BY <1>1, <1>2, <1>3, <1>4, <1>5

----------------------------------------------------------------------------
(* The request that a step is about. *)

\* The first body that is written for a request, whoever writes it: the handler its
\* answer, RecoveryLogger a 500 without a log line, everybody else a refusal.
LEMMA FirstAnswer ==
    ASSUME IInv, NEW r \in Requests, NEW s \in Statuses, Write(r, s),
           \/ pc[r] = "answer" /\ pc'[r] = "answered" /\ s = result[r]
           \/ pc[r] \in Silent \ {"answer"} /\ pc'[r] = "log"
           \/ pc[r] \in Silent \ {"answer"} /\ pc'[r] = "done" /\ s = 500,
           s = 401 => r \in Unlucky \/ token[r] \notin Keys \ Revocable \/ ~DbOpen,
           UNCHANGED <<valid, proc, token, stillborn, session, identity, expired, result,
                       logged>>
    PROVE  ReqInv(r)'
<1> TypeOK /\ ReqInv(r)
  BY DEF IInv
<1>1. pc[r] \in Silent /\ writes[r] = <<>> /\ logged[r] = 0
  BY DEF ReqInv, Bodies, LoggedLast, Silent
<1>2. writes'[r] = <<s>> /\ StatusOf(r)' = s
  <2>1. writes'[r] = Append(writes[r], s)
    BY Wrote
  <2>2. writes'[r] = <<s>>
    BY <1>1, <2>1, FirstBody
  <2>3. StatusOf(r)' = IF writes'[r] = <<>> THEN 0 ELSE Head(writes'[r])
    BY DEF StatusOf
  <2>4. QED
    BY <2>2, <2>3, FirstBody
<1>3. Unidentified(r)' /\ Doomed(r)' /\ HandlersStatus(r)'
  BY DEF ReqInv, Unidentified, Doomed, HandlersStatus, Silent
<1>4. pc'[r] \in {"log", "done"} => result'[r] = 0
  BY DEF ReqInv, HandlersStatus
<1>5. Bodies(r)'
  BY <1>2, <1>4 DEF Bodies, Sent, Silent
<1>6. LoggedLast(r)'
  BY <1>1, <1>2, <1>4 DEF LoggedLast, Silent
<1>7. Cause(r)'
  BY <1>2 DEF Cause, DbOpen
<1>8. Front(r)'
  BY DEF ReqInv, Front, Past, InHandler
<1>9. QED
  BY <1>3, <1>5, <1>6, <1>7, <1>8 DEF ReqInv

\* A request that goes on without anything being written to it.
LEMMA GoesOn ==
    ASSUME IInv, NEW r \in Requests, pc[r] \in Silent, pc'[r] \in Silent,
           UNCHANGED <<valid, proc, writes, logged, expired>>
    PROVE  Bodies(r)' /\ LoggedLast(r)' /\ Cause(r)'
<1> TypeOK /\ ReqInv(r)
  BY DEF IInv
<1>1. writes[r] = <<>> /\ writes'[r] = writes[r]
  BY DEF ReqInv, Bodies
<1>2. StatusOf(r)' = 0
  BY <1>1, NoStatus, Unwritten
<1>3. Bodies(r)'
  BY <1>1 DEF Bodies, Silent
<1>4. LoggedLast(r)' /\ Cause(r)'
  BY <1>2 DEF ReqInv, LoggedLast, Cause, Silent
<1>5. QED
  BY <1>3, <1>4

\* Requests that come.
LEMMA Arrivals ==
    ASSUME IInv, NEW r \in Requests, Arrive(r) \/ ArriveElsewhere(r) \/ OpenSession(r)
    PROVE  ReqInv(r)'
<1> TypeOK /\ ReqInv(r)
  BY DEF IInv
<1>1. CASE Arrive(r)
  <2>1. PICK t \in Tokens : /\ token' = [token EXCEPT ![r] = t]
                            /\ stillborn' = IF t \in Keys \ valid THEN stillborn \cup {r}
                                            ELSE stillborn
    BY <1>1 DEF Arrive
  <2>2. /\ pc[r] = "new" /\ pc'[r] = "session"
        /\ token'[r] = t
        /\ UNCHANGED <<valid, proc, session, identity, expired, result, writes, logged>>
    BY <1>1, <2>1 DEF Arrive, Move, TypeOK
  <2>4. Unidentified(r)' /\ Doomed(r)' /\ HandlersStatus(r)'
    BY <2>1, <2>2 DEF ReqInv, Unidentified, Doomed, HandlersStatus, Silent
  <2>5. Bodies(r)' /\ LoggedLast(r)' /\ Cause(r)'
    BY <2>2, GoesOn DEF Silent
  <2>6. Front(r)'
    BY <2>2 DEF Front, Past, InHandler
  <2>7. QED
    BY <2>4, <2>5, <2>6 DEF ReqInv
<1>2. CASE ArriveElsewhere(r)
  BY <1>2, FirstAnswer DEF ArriveElsewhere, Move, TypeOK, Silent, Statuses, ReqInv, Doomed
<1>3. CASE OpenSession(r)
  <2>1. /\ pc[r] = "session" /\ pc'[r] = "auth"
        /\ r \in session'
        /\ UNCHANGED <<valid, proc, token, stillborn, identity, expired, result, writes,
                       logged>>
    BY <1>3 DEF OpenSession, Move, TypeOK
  <2>2. Unidentified(r)' /\ Doomed(r)' /\ HandlersStatus(r)' /\ Front(r)'
    BY <2>1 DEF ReqInv, Unidentified, Doomed, HandlersStatus, Silent, Front, Past, InHandler
  <2>3. Bodies(r)' /\ LoggedLast(r)' /\ Cause(r)'
    BY <2>1, GoesOn DEF Silent
  <2>4. QED
    BY <2>2, <2>3 DEF ReqInv
<1>4. QED
  BY <1>1, <1>2, <1>3

\* Authentication and the rate limiter. A key that is never revoked is still valid,
\* and the session is there: a refusal has another cause.
LEMMA Gates ==
    ASSUME IInv, NEW r \in Requests,
           Authenticate(r) \/ LimiterPasses(r) \/ LimiterRejects(r)
    PROVE  ReqInv(r)'
<1> TypeOK /\ ReqInv(r) /\ Keys \ Revocable \subseteq valid
  BY DEF IInv
<1>1. CASE AuthAnonymous(r)
  <2>1. /\ pc[r] = "auth" /\ pc'[r] = "limit" /\ token[r] = NoToken
        /\ UNCHANGED <<valid, proc, token, stillborn, session, identity, expired, result,
                       writes, logged>>
    BY <1>1 DEF AuthAnonymous, Move, TypeOK
  <2>2. Bodies(r)' /\ LoggedLast(r)' /\ Cause(r)'
    BY <2>1, GoesOn DEF Silent
  <2>3. Unidentified(r)' /\ Doomed(r)' /\ HandlersStatus(r)'
    BY <2>1 DEF ReqInv, Unidentified, Doomed, HandlersStatus, Silent
  <2>4. Front(r)'
    BY <2>1, PipelineAssumption DEF ReqInv, Unidentified, Doomed, Front
  <2>5. QED
    BY <2>2, <2>3, <2>4 DEF ReqInv
<1>2. CASE AuthAccepts(r)
  <2>1. /\ pc[r] = "auth" /\ pc'[r] = "limit"
        /\ token[r] \in valid /\ identity'[r] = token[r]
        /\ UNCHANGED <<valid, proc, token, stillborn, session, expired, result, writes,
                       logged>>
    BY <1>2 DEF AuthAccepts, Move, TypeOK
  <2>2. Bodies(r)' /\ LoggedLast(r)' /\ Cause(r)'
    BY <2>1, GoesOn DEF Silent
  <2>3. Unidentified(r)' /\ Doomed(r)' /\ HandlersStatus(r)'
    BY <2>1 DEF ReqInv, Unidentified, Doomed, HandlersStatus, Silent
  <2>4. Front(r)'
    BY <2>1 DEF ReqInv, Doomed, Front
  <2>5. QED
    BY <2>2, <2>3, <2>4 DEF ReqInv
<1>3. CASE AuthRefuses(r)
  <2>1. /\ pc[r] = "auth" /\ pc'[r] = "log" /\ Write(r, 401)
        /\ UNCHANGED <<valid, proc, token, stillborn, session, identity, expired, result,
                       logged>>
    BY <1>3 DEF AuthRefuses, Move, TypeOK
  <2>2. r \in session
    BY <2>1 DEF ReqInv, Unidentified
  <2>3. r \in Unlucky \/ token[r] \notin Keys \ Revocable \/ ~DbOpen
    BY <1>3, <2>2, PipelineAssumption DEF AuthRefuses, KeyRefused
  <2>4. QED
    BY <2>1, <2>3, FirstAnswer DEF Silent, Statuses
<1>4. CASE LimiterPasses(r)
  <2>1. /\ pc[r] = "limit" /\ pc'[r] = "query"
        /\ UNCHANGED <<valid, proc, token, stillborn, session, identity, expired, result,
                       writes, logged>>
    BY <1>4 DEF LimiterPasses, Move, TypeOK
  <2>2. Bodies(r)' /\ LoggedLast(r)' /\ Cause(r)'
    BY <2>1, GoesOn DEF Silent
  <2>3. Unidentified(r)' /\ Doomed(r)' /\ HandlersStatus(r)' /\ Front(r)'
    BY <2>1 DEF ReqInv, Unidentified, Doomed, HandlersStatus, Silent, Front, Past
  <2>4. QED
    BY <2>2, <2>3 DEF ReqInv
<1>5. CASE LimiterRejects(r)
  BY <1>5, FirstAnswer DEF LimiterRejects, Move, TypeOK, Silent, Statuses
<1>6. QED
  BY <1>1, <1>2, <1>3, <1>4, <1>5 DEF Authenticate

\* The handler: its query and its answer, or its panic.
LEMMA Handlers ==
    ASSUME IInv, NEW r \in Requests, Handle(r)
    PROVE  ReqInv(r)'
<1> TypeOK /\ ReqInv(r)
  BY DEF IInv
<1>1. CASE BadRequest(r) \/ QueryAnswers(r) \/ QueryFails(r)
  <2>1. /\ pc[r] = "query" /\ pc'[r] = "answer"
        /\ result'[r] \in {200, 400, 500}
        /\ UNCHANGED <<valid, proc, token, stillborn, session, identity, expired, writes,
                       logged>>
    BY <1>1 DEF BadRequest, QueryAnswers, QueryFails, Move, TypeOK
  <2>2. Bodies(r)' /\ LoggedLast(r)' /\ Cause(r)'
    BY <2>1, GoesOn DEF Silent
  <2>3. Unidentified(r)' /\ Doomed(r)' /\ HandlersStatus(r)'
    BY <2>1 DEF ReqInv, Unidentified, Doomed, HandlersStatus, Silent
  <2>4. Front(r)'
    BY <2>1 DEF ReqInv, Front, Past, InHandler
  <2>5. QED
    BY <2>2, <2>3, <2>4 DEF ReqInv
<1>2. CASE Panic(r)
  <2>1. /\ pc[r] = "query" /\ pc'[r] = "panic"
        /\ UNCHANGED <<valid, proc, token, stillborn, session, identity, expired, result,
                       writes, logged>>
    BY <1>2 DEF Panic, Move, TypeOK
  <2>2. Bodies(r)' /\ LoggedLast(r)' /\ Cause(r)'
    BY <2>1, GoesOn DEF Silent
  <2>3. Unidentified(r)' /\ Doomed(r)' /\ HandlersStatus(r)' /\ Front(r)'
    BY <2>1 DEF ReqInv, Unidentified, Doomed, HandlersStatus, Silent, Front, Past, InHandler
  <2>4. QED
    BY <2>2, <2>3 DEF ReqInv
<1>3. CASE Answer(r)
  <2>1. /\ pc[r] = "answer" /\ pc'[r] = "answered" /\ Write(r, result[r])
        /\ UNCHANGED <<valid, proc, token, stillborn, session, identity, expired, result,
                       logged>>
    BY <1>3 DEF Answer, Move, TypeOK
  <2>2. result[r] \in Statuses /\ result[r] # 401
    BY <2>1 DEF ReqInv, HandlersStatus, Statuses
  <2>3. Past(r)
    BY <2>1 DEF Past, InHandler
  <2>4. QED
    BY <2>1, <2>2, <2>3, FirstAnswer DEF Silent
<1>4. QED
  BY <1>1, <1>2, <1>3 DEF Handle

\* Behind the handler: the deadline's verdict, recovery, the log line.
LEMMA Leaving ==
    ASSUME IInv, NEW r \in Requests, Leave(r)
    PROVE  ReqInv(r)'
<1> TypeOK /\ ReqInv(r)
  BY DEF IInv
<1>1. CASE DeadlineMet(r)
  <2>1. /\ pc[r] = "answered" /\ pc'[r] = "log"
        /\ UNCHANGED <<valid, proc, token, stillborn, session, identity, expired, result,
                       writes, logged>>
    BY <1>1 DEF DeadlineMet, Move, TypeOK
  <2>2. StatusOf(r)' = StatusOf(r)
    BY <2>1, Unwritten
  <2>3. Bodies(r)'
    <3>1. writes[r] = <<result[r]>> /\ StatusOf(r) = result[r] /\ r \notin expired
      BY <1>1, <2>1, FirstBody DEF DeadlineMet, ReqInv, Bodies, StatusOf
    <3>2. QED
      BY <2>1, <2>2, <3>1 DEF Bodies, Sent, Silent
  <2>4. LoggedLast(r)' /\ Cause(r)'
    BY <2>1, <2>2 DEF ReqInv, LoggedLast, Cause, DbOpen
  <2>5. Unidentified(r)' /\ Doomed(r)' /\ HandlersStatus(r)' /\ Front(r)'
    BY <2>1 DEF ReqInv, Unidentified, Doomed, HandlersStatus, Silent, Front, Past, InHandler
  <2>6. QED
    BY <2>3, <2>4, <2>5 DEF ReqInv
<1>2. CASE DeadlineMissed(r)
  <2>1. /\ pc[r] = "answered" /\ pc'[r] = "log" /\ r \in expired
        /\ Write(r, 504) /\ 504 \in Statuses
        /\ UNCHANGED <<valid, proc, token, stillborn, session, identity, expired, result,
                       logged>>
    BY <1>2 DEF DeadlineMissed, Move, TypeOK, Statuses
  <2>2. /\ writes[r] = <<result[r]>> /\ StatusOf(r) = result[r]
        /\ result[r] \in Statuses /\ result[r] # 0
    BY <2>1, FirstBody DEF ReqInv, Bodies, HandlersStatus, StatusOf, Statuses
  <2>3. writes'[r] = Append(writes[r], 504)
    BY <2>1, Wrote
  <2>4. /\ writes'[r] = <<result[r], 504>>
        /\ StatusOf(r)' = StatusOf(r)
    <3>1. writes'[r] = <<result[r], 504>>
      BY <2>1, <2>2, <2>3, SecondBody
    <3>2. StatusOf(r)' = IF writes'[r] = <<>> THEN 0 ELSE Head(writes'[r])
      BY DEF StatusOf
    <3>3. QED
      BY <2>1, <2>2, <3>1, <3>2, SecondBody
  <2>5. Bodies(r)'
    BY <2>1, <2>2, <2>4 DEF Bodies, Sent, Silent
  <2>6. LoggedLast(r)' /\ Cause(r)'
    BY <2>1, <2>4 DEF ReqInv, LoggedLast, Cause, DbOpen
  <2>7. Unidentified(r)' /\ Doomed(r)' /\ HandlersStatus(r)' /\ Front(r)'
    BY <2>1 DEF ReqInv, Unidentified, Doomed, HandlersStatus, Silent, Front, Past, InHandler
  <2>8. QED
    BY <2>5, <2>6, <2>7 DEF ReqInv
<1>3. CASE Recover(r)
  BY <1>3, FirstAnswer DEF Recover, Move, TypeOK, Silent, Statuses
<1>4. CASE Log(r)
  <2>1. /\ pc[r] = "log" /\ pc'[r] = "done" /\ logged'[r] = StatusOf(r)
        /\ UNCHANGED <<valid, proc, token, stillborn, session, identity, expired, result,
                       writes>>
    BY <1>4 DEF Log, Move, TypeOK
  <2>2. StatusOf(r)' = StatusOf(r)
    BY <2>1, Unwritten
  <2>3. Bodies(r)'
    BY <2>1, <2>2 DEF ReqInv, Bodies, Sent, Silent
  <2>4. LoggedLast(r)' /\ Cause(r)'
    BY <2>1, <2>2 DEF ReqInv, LoggedLast, Cause, DbOpen
  <2>5. Unidentified(r)' /\ Doomed(r)' /\ HandlersStatus(r)' /\ Front(r)'
    BY <2>1 DEF ReqInv, Unidentified, Doomed, HandlersStatus, Silent, Front, Past, InHandler
  <2>6. QED
    BY <2>3, <2>4, <2>5 DEF ReqInv
<1>5. QED
  BY <1>1, <1>2, <1>3, <1>4 DEF Leave

----------------------------------------------------------------------------
(* The invariant, and what it implies. *)

\* It holds at the start.
LEMMA Starts == Init => IInv
<1> SUFFICES ASSUME Init PROVE IInv
  OBVIOUS
<1>1. TypeOK
  BY EmptySeq DEF Init, TypeOK, Tokens, Lives, Stages, Statuses
<1>2. Keys \ Revocable \subseteq valid
  BY DEF Init
<1>3. ASSUME NEW r \in Requests PROVE ReqInv(r)
  <2>1. writes[r] = <<>> /\ StatusOf(r) = 0
    BY DEF Init, StatusOf
  <2>2. QED
    BY <2>1 DEF Init, ReqInv, Unidentified, Doomed, HandlersStatus, Bodies, LoggedLast,
                Cause, Front, Past, InHandler, Silent
<1>4. QED
  BY <1>1, <1>2, <1>3 DEF IInv

\* Every step keeps it.
LEMMA Steps == IInv /\ [Next]_vars => IInv'
<1> SUFFICES ASSUME IInv, [Next]_vars PROVE IInv'
  OBVIOUS
<1> TypeOK /\ Keys \ Revocable \subseteq valid
  BY DEF IInv
<1>1. TypeOK'
  BY TypeStep
<1>2. ASSUME \A q \in Requests : Spared(q), Keys \ Revocable \subseteq valid' PROVE IInv'
  BY <1>1, <1>2, SparedKeeps DEF IInv
<1>3. ASSUME NEW r \in Requests,
             \/ Arrive(r) \/ ArriveElsewhere(r) \/ OpenSession(r) \/ Authenticate(r)
             \/ LimiterPasses(r) \/ LimiterRejects(r) \/ Handle(r) \/ Leave(r)
      PROVE  IInv'
  <2>1. ReqInv(r)'
    BY <1>3, Arrivals, Gates, Handlers, Leaving
  <2>2. \A q \in Requests \ {r} : ReqInv(q)'
    BY <1>3, OthersKeep
  <2>3. valid' = valid
    BY <1>3 DEF Arrive, ArriveElsewhere, OpenSession, Authenticate, AuthAnonymous,
                AuthAccepts, AuthRefuses, LimiterPasses, LimiterRejects, Handle, BadRequest,
                QueryAnswers, QueryFails, Answer, Panic, Leave, DeadlineMet, DeadlineMissed,
                Recover, Log
  <2>4. QED
    BY <1>1, <2>1, <2>2, <2>3 DEF IInv
<1>4. ASSUME NEW r \in Requests, DeadlinePasses(r) \/ UpdateLastUsed(r) PROVE IInv'
  BY <1>2, <1>4 DEF DeadlinePasses, UpdateLastUsed, Spared, DbOpen
<1>5. ASSUME NEW k \in Keys, Revoke(k) PROVE IInv'
  BY <1>2, <1>5 DEF Revoke, Spared, DbOpen
<1>6. ASSUME ShutDown PROVE IInv'
  BY <1>2, <1>6 DEF ShutDown, Spared, DbOpen
<1>7. ASSUME UNCHANGED vars PROVE IInv'
  BY <1>2, <1>7 DEF vars, Spared, DbOpen
<1>8. QED
  BY <1>3, <1>4, <1>5, <1>6, <1>7 DEF Next

\* The invariant of the specification.
LEMMA Always == Spec => []IInv
  BY Starts, Steps, PTL DEF Spec

\* Every variable keeps the shape the code gives it.
THEOREM TypeCorrect == Spec => []TypeOK
<1>1. IInv => TypeOK
  BY DEF IInv
<1>2. QED
  BY <1>1, Always, PTL

\* Nobody gets behind APIKeyAuth under a false name or with a key that had been
\* revoked before, whatever becomes of the keys, the session or the database.
THEOREM NobodySlipsIn == Spec => []NoSideDoor
<1>1. IInv => NoSideDoor
  BY DEF IInv, ReqInv, Front, NoSideDoor
<1>2. QED
  BY <1>1, Always, PTL

\* A key that is never revoked is refused for the database's sake only: the session
\* is always there when ValidateKey asks for it.
THEOREM RefusalsHaveCauses == Spec => []RefusedForCause
<1>1. IInv => RefusedForCause
  BY DEF IInv, ReqInv, Cause, RefusedForCause
<1>2. QED
  BY <1>1, Always, PTL

\* Every request that is done has sent one body, and the deadline's behind it where
\* and only where its handler answered under a deadline that has passed; and it has a
\* log line with the status sent first, unless a panic was recovered from.
THEOREM OneAnswer == Spec => []AnsweredOnce
<1>1. IInv => AnsweredOnce
  BY DEF IInv, ReqInv, Bodies, Sent, LoggedLast, AnsweredOnce
<1>2. QED
  BY <1>1, Always, PTL
=============================================================================
