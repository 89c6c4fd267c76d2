---------------------------- MODULE BoundedReads ----------------------------
(***************************************************************************)
(* What the caches of internal/cache promise their callers, whatever they  *)
(* are made of: a call for a key is answered, refused, or lost with its    *)
(* process; an answer is what the database showed for the very key of the  *)
(* call, at a moment no longer ago than Bound. There are no levels here,   *)
(* no flights and no Redis.                                                *)
(***************************************************************************)
EXTENDS Integers

CONSTANTS Requests,   \* the callers
          Keys,       \* what they may ask for
          NoKey,      \* no call under way
          NoAnswer,   \* no answer yet
          Bound       \* the greatest age of an answer

VARIABLES now,      \* the clock
          phase,    \* where each call is
          key,      \* what it asks for
          answer    \* the snapshot it got: of which key, and read when

vars == <<now, phase, key, answer>>

Phases == {"idle", "calling", "answered", "refused"}
Snapshot == [of : Keys, at : Int]

Init ==
    /\ now = 0
    /\ phase = [r \in Requests |-> "idle"]
    /\ key = [r \in Requests |-> NoKey]
    /\ answer = [r \in Requests |-> NoAnswer]

Stays(r) ==
    /\ phase'[r] = phase[r]
    /\ key'[r] = key[r]
    /\ answer'[r] = answer[r]

Calls(r) ==
    /\ phase[r] = "idle" /\ phase'[r] = "calling"
    /\ key'[r] \in Keys
    /\ answer'[r] = answer[r]

\* Answered with a snapshot of the key it called with, or at once when it calls.
IsAnswered(r) ==
    /\ \/ phase[r] = "calling" /\ key'[r] = key[r]
       \/ phase[r] = "idle" /\ key'[r] \in Keys
    /\ phase'[r] = "answered"
    /\ answer'[r].of = key'[r]
    /\ answer'[r].at >= 0
    /\ now - Bound <= answer'[r].at /\ answer'[r].at <= now

IsRefused(r) ==
    /\ phase[r] = "calling" /\ phase'[r] = "refused"
    /\ key'[r] = key[r]
    /\ answer'[r] = answer[r]

\* The caller is done with what it got, or its process has died.
IsForgotten(r) ==
    /\ phase'[r] = "idle"
    /\ key'[r] = NoKey
    /\ answer'[r] = NoAnswer

\* Callers that wait for one flight, or live in one process, move together.
Serve ==
    /\ phase' \in [Requests -> Phases]
    /\ key' \in [Requests -> Keys \cup {NoKey}]
    /\ answer' \in [Requests -> Snapshot \cup {NoAnswer}]
    /\ \A r \in Requests :
          Stays(r) \/ Calls(r) \/ IsAnswered(r) \/ IsRefused(r) \/ IsForgotten(r)
    /\ UNCHANGED now

Tick ==
    /\ now' = now + 1
    /\ UNCHANGED <<phase, key, answer>>

Spec == Init /\ [][Serve \/ Tick]_vars
=============================================================================
