------------------------------- MODULE Requests -------------------------------
(***************************************************************************)
(* Requests in progress.  Every statement and every transaction has the    *)
(* database to itself, and between two of them anything may happen: a      *)
(* request that reads first and writes later is two actions or more, with  *)
(* what it read kept in calls.  Source: db/db.go, net/http as              *)
(* httpapi/server.go uses it.                                              *)
(***************************************************************************)
EXTENDS Naturals

CONSTANTS
    Callers,     \* requests served at the same time
    MaxEvents    \* bound on what comes from outside: requests, time passing

ASSUME RequestsAssumption == MaxEvents \in Nat

VARIABLES
    calls,       \* what each caller is doing, with what it has read
    spent        \* outside events so far

requestVars == <<calls, spent>>

Idle == [op |-> "idle"]
Quiet == calls = [c \in Callers |-> Idle] /\ spent = 0

At(c, op) == calls[c].op = op
Room == spent < MaxEvents
Spend == Room /\ spent' = spent + 1

\* A caller that may start something.
Free(c) == calls[c] = Idle /\ Room

Start(c, call) == Free(c) /\ Spend /\ calls' = [calls EXCEPT ![c] = call]
Proceed(c, call) == calls' = [calls EXCEPT ![c] = call] /\ UNCHANGED spent
Finish(c) == Proceed(c, Idle)

\* A request that is a single statement or transaction.
AtOnce == Spend /\ UNCHANGED calls

\* The process stops, or a statement fails, between two steps of a request.
Abandon(c) == calls[c] # Idle /\ Finish(c)
=============================================================================
