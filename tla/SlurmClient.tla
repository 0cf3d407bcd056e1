----------------------------- MODULE SlurmClient -----------------------------
(***************************************************************************)
(* The HTTP client (src/internal/client/retry.go, client.go) shared by the *)
(* resources of one apply.  Terraform core works on several resources at   *)
(* once, so several callers are inside doRequest together; deletes take    *)
(* turns on deleteMu.  One call is up to MaxRetries + 1 attempts with a    *)
(* backoff in between; an attempt can be answered, refused, fail with a    *)
(* retryable error with or without its effect, or time out.                *)
(*                                                                         *)
(* Each caller owns one object in slurmdbd and its calls write numbered    *)
(* values to it (a delete writes one too): a write is idempotent, and      *)
(* which write an object holds shows what took effect last.                *)
(***************************************************************************)
EXTENDS Naturals

CONSTANTS
  Callers, Nobody,
  MaxRetries,
  MaxCalls,       \* bound: calls per caller
  LateExecution   \* may a request its client gave up on be executed later?

ASSUME ClientAssumption ==
  /\ Nobody \notin Callers
  /\ MaxRetries \in Nat /\ MaxCalls \in Nat
  /\ LateExecution \in BOOLEAN

VARIABLES
  phase,      \* Callers -> where in doRequest; "lock" waits for deleteMu
  kind,       \* Callers -> "upsert" or "delete"
  call,       \* Callers -> number of the current or last call
  attempt,    \* Callers -> number of the current attempt
  cancelled,  \* Callers -> is the context of the call cancelled?
  outcome,    \* Callers -> how the last call ended
  deleteMu,   \* who holds the mutex
  running,    \* requests slurmrestd has received and not finished
  object      \* Callers -> the call whose value slurmdbd holds

vars == <<phase, kind, call, attempt, cancelled, outcome, deleteMu, running, object>>

Kinds == {"upsert", "delete"}
Phases == {"idle", "lock", "send", "wait", "backoff"}
Request == [caller : Callers, call : 1..MaxCalls, attempt : 0..MaxRetries, kind : Kinds]

\* The request the caller is waiting for.
Current(c) == [caller |-> c, call |-> call[c], attempt |-> attempt[c], kind |-> kind[c]]
Awaited(r) == phase[r.caller] = "wait" /\ r = Current(r.caller)

Executed(r) == [object EXCEPT ![r.caller] = r.call]

Init ==
  /\ phase = [c \in Callers |-> "idle"]
  /\ kind = [c \in Callers |-> "upsert"]
  /\ call = [c \in Callers |-> 0]
  /\ attempt = [c \in Callers |-> 0]
  /\ cancelled = [c \in Callers |-> FALSE]
  /\ outcome = [c \in Callers |-> "ok"]
  /\ deleteMu = Nobody
  /\ running = {}
  /\ object = [c \in Callers |-> 0]

Goto(c, p) == phase' = [phase EXCEPT ![c] = p]

-----------------------------------------------------------------------------
(* Entering and leaving a call *)

\* Mutant: deletes are not serialized.
BeginUnlocked(c, k) ==
  /\ phase[c] = "idle" /\ call[c] < MaxCalls
  /\ Goto(c, "send")
  /\ kind' = [kind EXCEPT ![c] = k]
  /\ call' = [call EXCEPT ![c] = @ + 1]
  /\ attempt' = [attempt EXCEPT ![c] = 0]
  /\ UNCHANGED <<cancelled, outcome, deleteMu, running, object>>

\* A client method is called; the delete methods take the mutex first.
Begin(c, k) ==
  /\ phase[c] = "idle" /\ call[c] < MaxCalls
  /\ Goto(c, IF k = "delete" THEN "lock" ELSE "send")
  /\ kind' = [kind EXCEPT ![c] = k]
  /\ call' = [call EXCEPT ![c] = @ + 1]
  /\ attempt' = [attempt EXCEPT ![c] = 0]
  /\ UNCHANGED <<cancelled, outcome, deleteMu, running, object>>

\* Lock does not look at the context.
Lock(c) ==
  /\ phase[c] = "lock" /\ deleteMu = Nobody
  /\ deleteMu' = c
  /\ Goto(c, "send")
  /\ UNCHANGED <<kind, call, attempt, cancelled, outcome, running, object>>

\* Mutant: the mutex is released on success only.
FinishLocked(c, how) ==
  /\ Goto(c, "idle")
  /\ outcome' = [outcome EXCEPT ![c] = how]
  /\ deleteMu' = IF deleteMu = c /\ how = "ok" THEN Nobody ELSE deleteMu
  /\ cancelled' = [cancelled EXCEPT ![c] = FALSE]
  /\ UNCHANGED <<kind, call, attempt>>

\* doRequest returns and the deferred Unlock runs; the next call of the
\* resource comes with a context of its own.
Finish(c, how) ==
  /\ Goto(c, "idle")
  /\ outcome' = [outcome EXCEPT ![c] = how]
  /\ deleteMu' = IF deleteMu = c THEN Nobody ELSE deleteMu
  /\ cancelled' = [cancelled EXCEPT ![c] = FALSE]
  /\ UNCHANGED <<kind, call, attempt>>

-----------------------------------------------------------------------------
(* The retry loop *)

\* Mutant: the last error is dropped when the attempts are used up.
RetryOrSucceed(c) ==
  \/ attempt[c] = MaxRetries /\ Finish(c, "ok")
  \/ /\ attempt[c] < MaxRetries
     /\ attempt' = [attempt EXCEPT ![c] = @ + 1]
     /\ Goto(c, "backoff")
     /\ UNCHANGED <<kind, call, cancelled, outcome, deleteMu>>

\* Mutant: one attempt too many.
RetryOnceMore(c) ==
  \/ attempt[c] = MaxRetries + 1 /\ Finish(c, "failed")
  \/ /\ attempt[c] =< MaxRetries
     /\ attempt' = [attempt EXCEPT ![c] = @ + 1]
     /\ Goto(c, "backoff")
     /\ UNCHANGED <<kind, call, cancelled, outcome, deleteMu>>

\* A retryable error: back off, or give up after the last attempt.
RetryOrGiveUp(c) ==
  \/ attempt[c] = MaxRetries /\ Finish(c, "failed")
  \/ /\ attempt[c] < MaxRetries
     /\ attempt' = [attempt EXCEPT ![c] = @ + 1]
     /\ Goto(c, "backoff")
     /\ UNCHANGED <<kind, call, cancelled, outcome, deleteMu>>

\* Mutant: the request is built without the context.
SendWithoutContext(c) ==
  /\ phase[c] = "send"
  /\ Goto(c, "wait")
  /\ running' = running \cup {Current(c)}
  /\ UNCHANGED <<kind, call, attempt, cancelled, outcome, deleteMu, object>>

\* One attempt.  With a cancelled context nothing is sent; the error is a
\* *url.Error, which isRetryable takes for a network error.
Send(c) ==
  /\ phase[c] = "send"
  /\ IF cancelled[c]
     THEN RetryOrGiveUp(c) /\ UNCHANGED running
     ELSE /\ Goto(c, "wait")
          /\ running' = running \cup {Current(c)}
          /\ UNCHANGED <<kind, call, attempt, cancelled, outcome, deleteMu>>
  /\ UNCHANGED object

\* The timer of the backoff fires (when the context is done as well, select
\* takes either).
Wake(c) ==
  /\ phase[c] = "backoff"
  /\ Goto(c, "send")
  /\ UNCHANGED <<kind, call, attempt, cancelled, outcome, deleteMu, running, object>>

\* sleepCtx returns the error of the context.
CancelledInBackoff(c) ==
  /\ phase[c] = "backoff" /\ cancelled[c]
  /\ Finish(c, "failed")
  /\ UNCHANGED <<running, object>>

-----------------------------------------------------------------------------
(* What becomes of an attempt *)

\* 2xx, or 304 when there was nothing to change.
Answer(c) ==
  /\ phase[c] = "wait"
  /\ object' = Executed(Current(c))
  /\ running' = running \ {Current(c)}
  /\ Finish(c, "ok")

\* 4xx, 500, errors in the body of a 200, or a context cancelled while the
\* body is read: never retried, whether executed or not.
Reject(c) ==
  /\ phase[c] = "wait"
  /\ object' \in {object, Executed(Current(c))}
  /\ running' = running \ {Current(c)}
  /\ Finish(c, "failed")

\* 408, 429, 502, 503, 504, a reset connection or an EOF: slurmrestd is done
\* with the request, executed or not.
TransientError(c) ==
  /\ phase[c] = "wait"
  /\ object' \in {object, Executed(Current(c))}
  /\ running' = running \ {Current(c)}
  /\ RetryOrGiveUp(c)

\* The client stops waiting: Timeout of the http.Client, a gateway that gives
\* up, or the context.  slurmrestd may still be at work on the request.
GiveUpWaiting(c) ==
  /\ phase[c] = "wait"
  /\ IF LateExecution
     THEN UNCHANGED <<running, object>>
     ELSE /\ object' \in {object, Executed(Current(c))}
          /\ running' = running \ {Current(c)}
  /\ RetryOrGiveUp(c)

\* Ctrl-C, or a timeout of the operation.
Cancel(c) ==
  /\ phase[c] # "idle" /\ ~cancelled[c]
  /\ cancelled' = [cancelled EXCEPT ![c] = TRUE]
  /\ UNCHANGED <<phase, kind, call, attempt, outcome, deleteMu, running, object>>

\* A request nobody waits for is executed after all, or lost.
FinishLate(r) ==
  /\ r \in running /\ ~Awaited(r)
  /\ object' \in {object, Executed(r)}
  /\ running' = running \ {r}
  /\ UNCHANGED <<phase, kind, call, attempt, cancelled, outcome, deleteMu>>

-----------------------------------------------------------------------------
Waiting(c) == Answer(c) \/ Reject(c) \/ TransientError(c) \/ GiveUpWaiting(c)
Step(c) == Send(c) \/ Wake(c) \/ CancelledInBackoff(c) \/ Waiting(c)

Next ==
  \/ \E c \in Callers : Lock(c) \/ Step(c) \/ Cancel(c) \/ \E k \in Kinds : Begin(c, k)
  \/ \E r \in running : FinishLate(r)

Spec == Init /\ [][Next]_vars

\* The client has a timeout, so an attempt ends; sync.Mutex starves nobody.
Fairness == \A c \in Callers : WF_vars(Step(c)) /\ SF_vars(Lock(c))
FairSpec == Spec /\ Fairness

-----------------------------------------------------------------------------
(* Properties *)

(* Every variable keeps its type; no call is attempted more than           *)
(* MaxRetries + 1 times.                                                   *)
TypeOK ==
  /\ phase \in [Callers -> Phases]
  /\ kind \in [Callers -> Kinds]
  /\ call \in [Callers -> 0..MaxCalls]
  /\ attempt \in [Callers -> 0..MaxRetries]
  /\ cancelled \in [Callers -> BOOLEAN]
  /\ outcome \in [Callers -> {"ok", "failed"}]
  /\ deleteMu \in Callers \cup {Nobody}
  /\ running \in SUBSET Request
  /\ object \in [Callers -> 0..MaxCalls]

(* Comment on deleteMu: "serializes all delete operations.  slurmdbd uses  *)
(* optimistic locking and returns MySQL error 1020 when concurrent deletes *)
(* race": slurmrestd never works on two deletes at once.                   *)
DeletesSerialized ==
  \A r, s \in running : r.kind = "delete" /\ s.kind = "delete" => r = s

(* What the mutex alone gives, also when slurmrestd executes requests      *)
(* late: the client never waits for two deletes at once.                   *)
OneDeleteAwaited ==
  \A r, s \in running :
    r.kind = "delete" /\ s.kind = "delete" /\ Awaited(r) /\ Awaited(s) => r = s

(* Comment on doRequest: "POST endpoints we use are idempotent upserts and *)
(* DELETE on a missing resource is a no-op, so retrying is always safe":   *)
(* after a successful call slurmdbd holds what that call wrote, and goes   *)
(* on holding it until the next call.                                      *)
AcknowledgedInForce ==
  \A c \in Callers : phase[c] = "idle" /\ outcome[c] = "ok" => object[c] = call[c]

(* Comment on doRequest: "cancelling it [...] aborts the request": once    *)
(* its context is cancelled, a call sends nothing more.                    *)
CancelledSendsNothing ==
  [][\A c \in Callers : cancelled[c] /\ cancelled'[c] =>
       \A r \in running' \ running : r.caller # c]_vars

(* Every call returns, deletes waiting for each other included.            *)
EveryCallReturns == \A c \in Callers : phase[c] # "idle" ~> phase[c] = "idle"

\* One call, seen by the resource that makes it.
Contract == INSTANCE CallContract WITH busy <- [c \in Callers |-> phase[c] # "idle"]

(* The client keeps the contract that UserResource assumes of one call:    *)
(* effects only between its start and its end, at least one on success.    *)
KeepsContract == Contract!Spec
=============================================================================
