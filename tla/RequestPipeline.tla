-------------------------- MODULE RequestPipeline --------------------------
(***************************************************************************)
(* The life of a request: the chain of middlewares that cmd/main.go builds *)
(* (recovery, request log, CORS, database session, API key, rate limiter,  *)
(* deadline) around a handler, the job that authentication leaves running  *)
(* behind it, and the shutdown that overtakes them both.                   *)
(*                                                                         *)
(* The verdict of the rate limiter is a choice here: RateLimiter models it.*)
(* A handler is one query and the answer made of its outcome. gin keeps    *)
(* the first status written, whereas every body written is sent: what a    *)
(* request writes is the sequence of its statuses.                         *)
(***************************************************************************)
EXTENDS Naturals, Sequences, FiniteSets

CONSTANTS Requests,
          Keys,          \* API keys that a client may send
          NoToken,       \* no Authorization header
          BlankToken,    \* a header with no key in it
          Revocable,     \* the keys that may be revoked, or expire
          Unlucky,       \* the requests whose database calls may fail or hang
          Remembered     \* the requests whose answer a process has in memory

ASSUME PipelineAssumption ==
    /\ NoToken \notin Keys
    /\ BlankToken \notin Keys
    /\ NoToken # BlankToken
    /\ Revocable \subseteq Keys
    /\ Unlucky \subseteq Requests
    /\ Remembered \subseteq Requests

VARIABLES valid,       \* the keys that are active and not expired
          proc,        \* how far the process is on its way down
          pc,          \* where each request is
          token,       \* what its Authorization header holds
          stillborn,   \* the requests whose key was invalid when they came
          session,     \* the requests that carry a database session
          identity,    \* the key a request is served as, or NoToken
          expired,     \* the requests whose deadline has passed
          result,      \* the status that the handler is about to answer with
          writes,      \* the statuses of the bodies written, in order
          logged,      \* the status in the request's log line, 0 for no line
          job          \* the background update of last_used_at

vars == <<valid, proc, pc, token, stillborn, session, identity, expired,
          result, writes, logged, job>>

Tokens == Keys \cup {NoToken, BlankToken}
Lives == {"serving", "signalled", "dbClosed", "exited"}
Statuses == {200, 400, 401, 429, 500, 504}

\* Behind the rate limiter, under the deadline.
InHandler == {"query", "answer", "answered"}
Stages == {"new", "session", "auth", "limit", "panic", "log", "done"} \cup InHandler

Running == proc # "exited"
DbOpen == proc \notin {"dbClosed", "exited"}

\* The status that the client sees: the first one written.
StatusOf(r) == IF writes[r] = <<>> THEN 0 ELSE Head(writes[r])

Init ==
    /\ valid = Keys
    /\ proc = "serving"
    /\ pc = [r \in Requests |-> "new"]
    /\ token = [r \in Requests |-> NoToken]
    /\ stillborn = {}
    /\ session = {}
    /\ identity = [r \in Requests |-> NoToken]
    /\ expired = {}
    /\ result = [r \in Requests |-> 0]
    /\ writes = [r \in Requests |-> <<>>]
    /\ logged = [r \in Requests |-> 0]
    /\ job = [r \in Requests |-> "none"]

----------------------------------------------------------------------------
(* Steps that most requests share. *)

\* The request leaves one stage for another.
Move(r, from, to) ==
    /\ Running
    /\ pc[r] = from
    /\ pc' = [pc EXCEPT ![r] = to]

Write(r, status) == writes' = [writes EXCEPT ![r] = Append(@, status)]

----------------------------------------------------------------------------
(* Before the handler. *)

\* A request for a route of the API comes.
Arrive(r) ==
    /\ Move(r, "new", "session")
    /\ \E t \in Tokens :
          /\ token' = [token EXCEPT ![r] = t]
          /\ stillborn' = IF t \in Keys \ valid THEN stillborn \cup {r} ELSE stillborn
    /\ UNCHANGED <<valid, proc, session, identity, expired, result, writes, logged, job>>

\* A preflight, the swagger pages, or a path that no route serves: the
\* middlewares of the API group are not run. (200 stands for their statuses.)
ArriveElsewhere(r) ==
    /\ Move(r, "new", "log")
    /\ Write(r, 200)
    /\ UNCHANGED <<valid, proc, token, stillborn, session, identity, expired,
                   result, logged, job>>

\* Mutant of OpenSession: the session goes into gin's context only.
OpenSessionInGinOnly(r) ==
    /\ Move(r, "session", "auth")
    /\ UNCHANGED <<valid, proc, token, stillborn, session, identity, expired,
                   result, writes, logged, job>>

OpenSession(r) ==
    /\ Move(r, "session", "auth")
    /\ session' = session \cup {r}
    /\ UNCHANGED <<valid, proc, token, stillborn, identity, expired, result,
                   writes, logged, job>>

AuthAnonymous(r) ==
    /\ token[r] = NoToken
    /\ Move(r, "auth", "limit")
    /\ UNCHANGED <<valid, proc, token, stillborn, session, identity, expired,
                   result, writes, logged, job>>

\* ValidateKey finds the key, active and not expired at that moment.
AuthAccepts(r) ==
    /\ token[r] \in valid
    /\ r \in session
    /\ DbOpen
    /\ Move(r, "auth", "limit")
    /\ identity' = [identity EXCEPT ![r] = token[r]]
    /\ job' = [job EXCEPT ![r] = "pending"]
    /\ UNCHANGED <<valid, proc, token, stillborn, session, expired, result,
                   writes, logged>>

\* What ValidateKey has to say: no key, no session, no row, or an error.
KeyRefused(r) ==
    \/ token[r] = BlankToken
    \/ token[r] \in Keys /\ (token[r] \notin valid \/ r \notin session \/ ~DbOpen)
    \/ token[r] \in Keys /\ r \in Unlucky

\* Mutant of AuthRefuses: a key that is refused leaves an anonymous request.
AuthRefusesToAnonymous(r) ==
    /\ KeyRefused(r)
    /\ Move(r, "auth", "limit")
    /\ UNCHANGED <<valid, proc, token, stillborn, session, identity, expired,
                   result, writes, logged, job>>

AuthRefuses(r) ==
    /\ KeyRefused(r)
    /\ Move(r, "auth", "log")
    /\ Write(r, 401)
    /\ UNCHANGED <<valid, proc, token, stillborn, session, identity, expired,
                   result, logged, job>>

\* RateLimiter decides; RequestTimeoutMiddleware sets the deadline next.
LimiterPasses(r) ==
    /\ Move(r, "limit", "query")
    /\ UNCHANGED <<valid, proc, token, stillborn, session, identity, expired,
                   result, writes, logged, job>>

\* Mutant of LimiterRejects: no Abort after the answer.
LimiterRejectsAndGoesOn(r) ==
    /\ Move(r, "limit", "query")
    /\ Write(r, 429)
    /\ UNCHANGED <<valid, proc, token, stillborn, session, identity, expired,
                   result, logged, job>>

LimiterRejects(r) ==
    /\ Move(r, "limit", "log")
    /\ Write(r, 429)
    /\ UNCHANGED <<valid, proc, token, stillborn, session, identity, expired,
                   result, logged, job>>

----------------------------------------------------------------------------
(* The handler, its deadline, and what may go wrong in it. *)

\* The deadline may pass at any moment until the handler has returned.
DeadlinePasses(r) ==
    /\ Running
    /\ pc[r] \in InHandler
    /\ r \notin expired
    /\ expired' = expired \cup {r}
    /\ UNCHANGED <<valid, proc, pc, token, stillborn, session, identity, result,
                   writes, logged, job>>

\* The parameters do not bind, or name no coin; and whatever goes wrong while a coin
\* is looked up. (400 stands for 404, too.)
BadRequest(r) ==
    /\ Move(r, "query", "answer")
    /\ result' = [result EXCEPT ![r] = 400]
    /\ UNCHANGED <<valid, proc, token, stillborn, session, identity, expired,
                   writes, logged, job>>

\* A cache or the database answers before the deadline. A live in-memory entry, as
\* BatchContext may find one, asks neither for a context nor for a database.
QueryAnswers(r) ==
    /\ r \in Remembered \/ (r \in session /\ DbOpen /\ r \notin expired)
    /\ Move(r, "query", "answer")
    /\ result' = [result EXCEPT ![r] = 200]
    /\ UNCHANGED <<valid, proc, token, stillborn, session, identity, expired,
                   writes, logged, job>>

\* Mutant of QueryFails: the query does not run under the request's context.
QueryFailsWithoutDeadline(r) ==
    /\ r \notin session \/ ~DbOpen
    /\ Move(r, "query", "answer")
    /\ result' = [result EXCEPT ![r] = 500]
    /\ UNCHANGED <<valid, proc, token, stillborn, session, identity, expired,
                   writes, logged, job>>

\* The database fails, or is closed, or the deadline cancels the query.
QueryFails(r) ==
    /\ r \in expired \/ r \in Unlucky \/ r \notin session \/ ~DbOpen
    /\ Move(r, "query", "answer")
    /\ result' = [result EXCEPT ![r] = 500]
    /\ UNCHANGED <<valid, proc, token, stillborn, session, identity, expired,
                   writes, logged, job>>

Answer(r) ==
    /\ Move(r, "answer", "answered")
    /\ Write(r, result[r])
    /\ UNCHANGED <<valid, proc, token, stillborn, session, identity, expired,
                   result, logged, job>>

\* A handler that panics before it answers unwinds the chain up to RecoveryLogger.
Panic(r) ==
    /\ Move(r, "query", "panic")
    /\ UNCHANGED <<valid, proc, token, stillborn, session, identity, expired,
                   result, writes, logged, job>>

\* Mutant of Recover: the answer repeats the status so far, and there is none.
RecoverKeepsStatus(r) ==
    /\ Move(r, "panic", "done")
    /\ Write(r, StatusOf(r))
    /\ UNCHANGED <<valid, proc, token, stillborn, session, identity, expired,
                   result, logged, job>>

Recover(r) ==
    /\ Move(r, "panic", "done")
    /\ Write(r, 500)
    /\ UNCHANGED <<valid, proc, token, stillborn, session, identity, expired,
                   result, logged, job>>

DeadlineMet(r) ==
    /\ r \notin expired
    /\ Move(r, "answered", "log")
    /\ UNCHANGED <<valid, proc, token, stillborn, session, identity, expired,
                   result, writes, logged, job>>

\* The handler has answered already: the 504 only adds a second body.
DeadlineMissed(r) ==
    /\ r \in expired
    /\ Move(r, "answered", "log")
    /\ Write(r, 504)
    /\ UNCHANGED <<valid, proc, token, stillborn, session, identity, expired,
                   result, logged, job>>

\* RequestLogger's second half.
Log(r) ==
    /\ Move(r, "log", "done")
    /\ logged' = [logged EXCEPT ![r] = StatusOf(r)]
    /\ UNCHANGED <<valid, proc, token, stillborn, session, identity, expired,
                   result, writes, job>>

----------------------------------------------------------------------------
(* The job behind a request, the keys' administration, and shutdown. *)

\* Which contexts hold a database session: the request's, once DatabaseSession
\* has put it there. context.Background() holds nothing.
HoldsSession(r, context) == context = "request" /\ r \in session

Recorded(r, context) == HoldsSession(r, context) /\ DbOpen

\* UpdateLastUsed, in a goroutine of its own, under context.Background().
UpdateLastUsed(r) ==
    /\ Running
    /\ job[r] = "pending"
    /\ job' = [job EXCEPT ![r] = IF Recorded(r, "background") THEN "recorded" ELSE "failed"]
    /\ UNCHANGED <<valid, proc, pc, token, stillborn, session, identity, expired,
                   result, writes, logged>>

\* External: somebody deactivates a key, or it expires, for good.
Revoke(k) ==
    /\ k \in valid \cap Revocable
    /\ valid' = valid \ {k}
    /\ UNCHANGED <<proc, pc, token, stillborn, session, identity, expired, result,
                   writes, logged, job>>

\* A signal; then main returns, and its deferred Close closes Redis, which only
\* the limiter's verdict and the caches' hits depend on, and the database under
\* the requests that are still running; then the process exits.
ShutDown ==
    /\ \/ proc = "serving" /\ proc' = "signalled"
       \/ proc = "signalled" /\ proc' = "dbClosed"
       \/ proc = "dbClosed" /\ proc' = "exited"
    /\ UNCHANGED <<valid, pc, token, stillborn, session, identity, expired, result,
                   writes, logged, job>>

----------------------------------------------------------------------------
Authenticate(r) == AuthAnonymous(r) \/ AuthAccepts(r) \/ AuthRefuses(r)
Handle(r) == BadRequest(r) \/ QueryAnswers(r) \/ QueryFails(r) \/ Answer(r) \/ Panic(r)
Leave(r) == DeadlineMet(r) \/ DeadlineMissed(r) \/ Recover(r) \/ Log(r)

Next ==
    \/ \E r \in Requests :
          \/ Arrive(r) \/ ArriveElsewhere(r)
          \/ OpenSession(r) \/ Authenticate(r)
          \/ LimiterPasses(r) \/ LimiterRejects(r)
          \/ DeadlinePasses(r) \/ Handle(r) \/ Leave(r)
          \/ UpdateLastUsed(r)
    \/ \E k \in Keys : Revoke(k)
    \/ ShutDown

Spec == Init /\ [][Next]_vars

\* Time passes, so that deadlines do; goroutines that can run are run. Nothing
\* is assumed of the database: QueryAnswers and Authenticate, which has no
\* deadline, may never happen.
Fairness ==
    \A r \in Requests :
        /\ WF_vars(DeadlinePasses(r))
        /\ WF_vars(QueryFails(r) /\ r \in expired)
        /\ WF_vars(Answer(r))
        /\ WF_vars(Leave(r))
        /\ WF_vars(UpdateLastUsed(r))

FairSpec == Spec /\ Fairness

----------------------------------------------------------------------------
(* Properties *)

\* Type correctness: every variable keeps the shape the code gives it.
TypeOK ==
    /\ valid \subseteq Keys
    /\ proc \in Lives
    /\ pc \in [Requests -> Stages]
    /\ token \in [Requests -> Tokens]
    /\ stillborn \subseteq Requests
    /\ session \subseteq Requests
    /\ identity \in [Requests -> Keys \cup {NoToken}]
    /\ expired \subseteq Requests
    /\ result \in [Requests -> Statuses \cup {0}]
    /\ writes \in [Requests -> Seq(Statuses)]
    /\ logged \in [Requests -> Statuses \cup {0}]
    /\ job \in [Requests -> {"none", "pending", "recorded", "failed"}]

\* The past of a request that has got beyond authentication, or was refused there.
Past(r) == pc[r] \in {"limit", "panic"} \cup InHandler

\* Nobody gets behind APIKeyAuth under a false name: a request with a header is
\* served as the key in it or not at all, never as an anonymous one, and a key
\* that was revoked before the request came opens nothing.
NoSideDoor ==
    \A r \in Requests :
        Past(r) => identity[r] = token[r] /\ r \notin stillborn

\* A key that is never revoked is refused only for the database's sake: it failed
\* under the lookup, or the process was closing it. The lookup finds the session
\* that DatabaseSession has put into the request's context before.
RefusedForCause ==
    \A r \in Requests :
        /\ StatusOf(r) = 401
        /\ token[r] \in Keys \ Revocable
        => r \in Unlucky \/ ~DbOpen

\* What a finished request sent and left in the log, to the body and to the line:
\* one body, from whoever answered or refused it, and the deadline's behind it where,
\* and only where, a handler answered under a deadline that has passed; and one log
\* line with the status that the client got, unless a handler panicked. (Neither
\* exception is intended: see OneBody and EveryRequestLogged.)
AnsweredOnce ==
    \A r \in Requests : pc[r] = "done" =>
        /\ writes[r] = IF r \in expired /\ result[r] # 0 THEN <<result[r], 504>>
                       ELSE <<StatusOf(r)>>
        /\ \/ logged[r] = StatusOf(r)
           \/ result[r] = 0 /\ StatusOf(r) = 500 /\ logged[r] = 0

\* The handlers' annotations: the answer is one JSON object, of the shape given for
\* its status. Nobody gets a second one.
OneBody ==
    \A r \in Requests : Len(writes[r]) <= 1

\* The comment of RequestLogger: it logs each HTTP request.
EveryRequestLogged ==
    \A r \in Requests : pc[r] = "done" => logged[r] = StatusOf(r)

\* Behind the limiter every request gets an answer though the database says
\* nothing, unless the process exits under it.
HandlerReturns ==
    \A r \in Requests : pc[r] \in InHandler ~> pc[r] = "done" \/ ~Running

\* The comment of UpdateLastUsed: it updates last_used_at for an API key. With a
\* database that works, the job behind an authenticated request does not fail.
LastUsedRecorded ==
    \A r \in Requests : job[r] = "failed" => ~DbOpen
=============================================================================
