-------------------------- MODULE SlurmClientProofs --------------------------
(***************************************************************************)
(* Proofs about SlurmClient, for any number of callers, retries and calls. *)
(* What needs slurmrestd to be done with a request its client gave up on   *)
(* is proved from ~LateExecution; TLC shows that it is needed there.       *)
(***************************************************************************)
EXTENDS SlurmClient, TLAPS

Owners == {"send", "wait", "backoff"}

\* A delete inside doRequest holds the mutex.
DeletesHoldMutex ==
  \A c \in Callers : phase[c] \in Owners /\ kind[c] = "delete" => deleteMu = c

\* Without late execution slurmrestd only works on what is waited for.
RunningIsAwaited == ~LateExecution => \A r \in running : Awaited(r)

\* A call under way has been counted.
CallCounted == \A c \in Callers : phase[c] # "idle" => call[c] \in 1..MaxCalls

IInv == TypeOK /\ DeletesHoldMutex /\ RunningIsAwaited /\ CallCounted

-----------------------------------------------------------------------------
(* One caller at work *)

(* A request of the caller is one of the requests there can be.            *)
LEMMA CurrentType ==
  ASSUME TypeOK, CallCounted, NEW c \in Callers, phase[c] # "idle"
  PROVE  Current(c) \in Request /\ Current(c).caller = c
BY DEF TypeOK, CallCounted, Current, Request

(* What an end or a retry of the call leaves of the variables of the       *)
(* client: types, the mutex and the counter of the calls.                  *)
LEMMA AttemptOver ==
  ASSUME TypeOK, CallCounted, DeletesHoldMutex, NEW c \in Callers,
         phase[c] \in Owners,
         \/ RetryOrGiveUp(c)
         \/ \E how \in {"ok", "failed"} : Finish(c, how)
  PROVE  /\ phase' \in [Callers -> Phases]
         /\ attempt' \in [Callers -> 0..MaxRetries]
         /\ cancelled' \in [Callers -> BOOLEAN]
         /\ outcome' \in [Callers -> {"ok", "failed"}]
         /\ deleteMu' \in Callers \cup {Nobody}
         /\ UNCHANGED <<kind, call>>
         /\ phase'[c] \in {"idle", "backoff"}
         /\ \A d \in Callers \ {c} : phase'[d] = phase[d] /\ attempt'[d] = attempt[d]
         /\ DeletesHoldMutex'
         /\ CallCounted'
<1>1. CASE \E how \in {"ok", "failed"} : Finish(c, how)
  BY <1>1, ClientAssumption
     DEF Finish, Goto, TypeOK, CallCounted, DeletesHoldMutex, Owners, Phases
<1>2. CASE attempt[c] < MaxRetries /\ RetryOrGiveUp(c)
  BY <1>2, ClientAssumption
     DEF RetryOrGiveUp, Finish, Goto, TypeOK, CallCounted, DeletesHoldMutex, Owners, Phases
<1>3. CASE attempt[c] = MaxRetries /\ RetryOrGiveUp(c)
  <2>1. Finish(c, "failed")
    BY <1>3, ClientAssumption DEF RetryOrGiveUp, TypeOK
  <2> QED BY <1>1, <2>1
<1> QED BY <1>1, <1>2, <1>3 DEF RetryOrGiveUp

(* When the caller stops waiting and its request is gone, slurmrestd works *)
(* on requests of the others only.                                         *)
LEMMA NothingLeftRunning ==
  ASSUME TypeOK, RunningIsAwaited, NEW c \in Callers,
         running' = running \ {Current(c)},
         UNCHANGED <<kind, call>>,
         \A d \in Callers \ {c} : phase'[d] = phase[d] /\ attempt'[d] = attempt[d]
  PROVE  RunningIsAwaited'
<1> SUFFICES ASSUME ~LateExecution, NEW r \in running' PROVE Awaited(r)'
  BY DEF RunningIsAwaited
<1>1. r \in running /\ Awaited(r) /\ r # Current(c)
  BY DEF RunningIsAwaited
<1>2. r.caller \in Callers /\ r.caller # c
  BY <1>1 DEF Awaited, TypeOK, Request
<1> QED BY <1>1, <1>2 DEF Awaited, Current

(* Slurmdbd holds values of calls.                                         *)
LEMMA ExecutedType ==
  ASSUME TypeOK, NEW r \in Request
  PROVE  Executed(r) \in [Callers -> 0..MaxCalls]
BY ClientAssumption DEF TypeOK, Executed, Request

(* The four ways an attempt ends keep the invariant.                       *)
LEMMA WaitingKeepsIInv ==
  ASSUME IInv, NEW c \in Callers, Waiting(c)
  PROVE  IInv'
<1>1. phase[c] = "wait" /\ phase[c] \in Owners /\ phase[c] # "idle"
  BY DEF Waiting, Answer, Reject, TransientError, GiveUpWaiting, Owners
<1>2. RetryOrGiveUp(c) \/ \E how \in {"ok", "failed"} : Finish(c, how)
  BY DEF Waiting, Answer, Reject, TransientError, GiveUpWaiting
<1>3. object' \in {object, Executed(Current(c))}
  BY DEF Waiting, Answer, Reject, TransientError, GiveUpWaiting
<1>4. running' = running \ {Current(c)} \/ (LateExecution /\ running' = running)
  BY DEF Waiting, Answer, Reject, TransientError, GiveUpWaiting
<1>5. object' \in [Callers -> 0..MaxCalls] /\ running' \in SUBSET Request
  BY <1>1, <1>3, <1>4, CurrentType, ExecutedType DEF IInv, TypeOK
<1>6. RunningIsAwaited'
  BY <1>1, <1>2, <1>4, AttemptOver, NothingLeftRunning DEF IInv, RunningIsAwaited
<1> QED BY <1>1, <1>2, <1>5, <1>6, AttemptOver DEF IInv, TypeOK

-----------------------------------------------------------------------------
(* The inductive invariant *)

LEMMA InitIInv == Init => IInv
BY ClientAssumption
   DEF Init, IInv, TypeOK, DeletesHoldMutex, RunningIsAwaited, CallCounted,
       Phases, Kinds, Owners

(* Every step of the client and of slurmrestd keeps the invariant.         *)
LEMMA NextIInv == IInv /\ [Next]_vars => IInv'
<1> SUFFICES ASSUME IInv, [Next]_vars PROVE IInv'
  OBVIOUS
<1> USE ClientAssumption
<1>1. CASE UNCHANGED vars
  BY <1>1 DEF vars, IInv, TypeOK, DeletesHoldMutex, RunningIsAwaited, CallCounted,
     Awaited, Current
<1>2. ASSUME NEW c \in Callers, NEW k \in Kinds, Begin(c, k) PROVE IInv'
  <2>1. phase[c] = "idle" /\ call[c] < MaxCalls /\ call[c] \in 0..MaxCalls
    BY <1>2 DEF Begin, IInv, TypeOK
  <2>2. TypeOK' /\ CallCounted'
    BY <1>2, <2>1 DEF Begin, Goto, IInv, TypeOK, CallCounted, Phases, Kinds
  <2>3. DeletesHoldMutex'
    BY <1>2, <2>1 DEF Begin, Goto, IInv, TypeOK, DeletesHoldMutex, Owners, Kinds
  <2>4. RunningIsAwaited'
    <3> SUFFICES ASSUME ~LateExecution, NEW r \in running PROVE Awaited(r)'
      BY <1>2 DEF Begin, RunningIsAwaited
    <3>1. Awaited(r) /\ r.caller \in Callers
      BY DEF IInv, RunningIsAwaited, TypeOK, Request
    <3>2. r.caller # c
      BY <2>1, <3>1 DEF Awaited
    <3> QED BY <1>2, <3>1, <3>2 DEF Begin, Goto, Awaited, Current, IInv, TypeOK
  <2> QED BY <2>2, <2>3, <2>4 DEF IInv
<1>3. ASSUME NEW c \in Callers, Lock(c) PROVE IInv'
  <2>1. TypeOK' /\ CallCounted' /\ DeletesHoldMutex'
    BY <1>3 DEF Lock, Goto, IInv, TypeOK, CallCounted, DeletesHoldMutex, Phases, Owners
  <2>2. RunningIsAwaited'
    BY <1>3 DEF Lock, Goto, IInv, TypeOK, RunningIsAwaited, Awaited, Current
  <2> QED BY <2>1, <2>2 DEF IInv
<1>4. ASSUME NEW c \in Callers, Send(c) PROVE IInv'
  <2>1. phase[c] = "send" /\ phase[c] \in Owners
    BY <1>4 DEF Send, Owners
  <2>2. CASE cancelled[c]
    <3>1. RetryOrGiveUp(c) /\ UNCHANGED <<running, object>>
      BY <1>4, <2>2 DEF Send
    <3>2. RunningIsAwaited'
      <4> SUFFICES ASSUME ~LateExecution, NEW r \in running PROVE Awaited(r)'
        BY <3>1 DEF RunningIsAwaited
      <4>1. Awaited(r) /\ r.caller \in Callers \ {c}
        BY <2>1 DEF IInv, RunningIsAwaited, TypeOK, Request, Awaited
      <4> QED BY <2>1, <3>1, <4>1, AttemptOver DEF IInv, Awaited, Current
    <3> QED BY <2>1, <3>1, <3>2, AttemptOver DEF IInv, TypeOK
  <2>3. CASE ~cancelled[c]
    <3>1. Current(c) \in Request
      BY <2>1, CurrentType DEF IInv
    <3>2. TypeOK' /\ CallCounted' /\ DeletesHoldMutex'
      BY <1>4, <2>1, <2>3, <3>1
         DEF Send, Goto, IInv, TypeOK, CallCounted, DeletesHoldMutex, Phases, Owners
    <3>3. RunningIsAwaited'
      <4> SUFFICES ASSUME ~LateExecution, NEW r \in running' PROVE Awaited(r)'
        BY DEF RunningIsAwaited
      <4>1. CASE r = Current(c)
        BY <1>4, <2>1, <2>3, <3>1, <4>1 DEF Send, Goto, IInv, TypeOK, Awaited, Current
      <4>2. CASE r \in running
        <5>1. Awaited(r) /\ r.caller \in Callers \ {c}
          BY <2>1, <4>2 DEF IInv, RunningIsAwaited, TypeOK, Request, Awaited
        <5> QED BY <1>4, <2>3, <5>1 DEF Send, Goto, IInv, TypeOK, Awaited, Current
      <4> QED BY <1>4, <2>3, <4>1, <4>2 DEF Send
    <3> QED BY <3>2, <3>3 DEF IInv
  <2> QED BY <2>2, <2>3
<1>5. ASSUME NEW c \in Callers, Wake(c) PROVE IInv'
  <2>1. TypeOK' /\ CallCounted' /\ DeletesHoldMutex'
    BY <1>5 DEF Wake, Goto, IInv, TypeOK, CallCounted, DeletesHoldMutex, Phases, Owners
  <2>2. RunningIsAwaited'
    BY <1>5 DEF Wake, Goto, IInv, TypeOK, RunningIsAwaited, Awaited, Current
  <2> QED BY <2>1, <2>2 DEF IInv
<1>6. ASSUME NEW c \in Callers, CancelledInBackoff(c) PROVE IInv'
  <2>1. phase[c] = "backoff" /\ phase[c] \in Owners /\ Finish(c, "failed")
    BY <1>6 DEF CancelledInBackoff, Owners
  <2>2. RunningIsAwaited'
    BY <1>6, <2>1
       DEF CancelledInBackoff, Finish, Goto, IInv, TypeOK, RunningIsAwaited, Awaited, Current
  <2> QED BY <1>6, <2>1, <2>2, AttemptOver DEF CancelledInBackoff, IInv, TypeOK
<1>7. ASSUME NEW c \in Callers, Waiting(c) PROVE IInv'
  BY <1>7, WaitingKeepsIInv
<1>8. ASSUME NEW c \in Callers, Cancel(c) PROVE IInv'
  BY <1>8 DEF Cancel, IInv, TypeOK, DeletesHoldMutex, RunningIsAwaited, CallCounted,
     Awaited, Current
<1>9. ASSUME NEW r \in running, FinishLate(r) PROVE IInv'
  <2>1. TypeOK'
    BY <1>9, ExecutedType DEF FinishLate, IInv, TypeOK
  <2>2. DeletesHoldMutex' /\ CallCounted' /\ RunningIsAwaited'
    BY <1>9 DEF FinishLate, IInv, DeletesHoldMutex, CallCounted, RunningIsAwaited,
       Awaited, Current
  <2> QED BY <2>1, <2>2 DEF IInv
<1> QED BY <1>1, <1>2, <1>3, <1>4, <1>5, <1>6, <1>7, <1>8, <1>9 DEF Next, Step

THEOREM SpecIInv == Spec => []IInv
BY InitIInv, NextIInv, PTL DEF Spec

-----------------------------------------------------------------------------
(* Safety *)

(* Type correctness; a call is attempted at most MaxRetries + 1 times.     *)
THEOREM TypeCorrect == Spec => []TypeOK
<1>1. IInv => TypeOK
  BY DEF IInv
<1> QED BY <1>1, SpecIInv, PTL

(* deleteMu: the client never waits for two deletes at once.               *)
THEOREM MutexWorks == Spec => []OneDeleteAwaited
<1>1. ASSUME IInv, NEW r \in running, NEW s \in running,
             r.kind = "delete", s.kind = "delete", Awaited(r), Awaited(s)
      PROVE  r = s
  <2>1. r.caller \in Callers /\ s.caller \in Callers
    BY <1>1 DEF IInv, TypeOK, Request
  <2>2. kind[r.caller] = "delete" /\ kind[s.caller] = "delete"
    BY <1>1 DEF Awaited, Current
  <2>3. deleteMu = r.caller /\ deleteMu = s.caller
    BY <1>1, <2>1, <2>2 DEF IInv, DeletesHoldMutex, Awaited, Owners
  <2> QED BY <1>1, <2>3 DEF Awaited
<1>2. IInv => OneDeleteAwaited
  BY <1>1 DEF OneDeleteAwaited
<1> QED BY <1>2, SpecIInv, PTL

(* Without late execution slurmrestd never works on two deletes at once.   *)
THEOREM DeletesAreSerialized ==
  ASSUME ~LateExecution
  PROVE  Spec => []DeletesSerialized
<1>1. IInv /\ OneDeleteAwaited => DeletesSerialized
  BY DEF IInv, RunningIsAwaited, OneDeleteAwaited, DeletesSerialized
<1> QED BY <1>1, SpecIInv, MutexWorks, PTL

(* Once its context is cancelled, a call sends nothing more.               *)
THEOREM CancellationStopsSending == Spec => CancelledSendsNothing
<1>1. ASSUME IInv, [Next]_vars, NEW c \in Callers, cancelled[c], cancelled'[c],
             NEW r \in running' \ running
      PROVE  r.caller # c
  <2>1. running' # running
    BY <1>1
  <2>2. PICK d \in Callers : phase[d] = "send" /\ ~cancelled[d] /\ running' = running \cup {Current(d)}
    BY <1>1, <2>1
       DEF Next, vars, Lock, Step, Cancel, Begin, FinishLate, Wake, CancelledInBackoff,
           Waiting, Answer, Reject, TransientError, GiveUpWaiting, Send
  <2> QED BY <1>1, <2>2 DEF Current
<1>2. IInv /\ [Next]_vars =>
        [\A c \in Callers : cancelled[c] /\ cancelled'[c] =>
           \A r \in running' \ running : r.caller # c]_vars
  BY <1>1
<1> QED BY <1>2, SpecIInv, PTL DEF Spec, CancelledSendsNothing

-----------------------------------------------------------------------------
(* The contract of one call *)

busy == [c \in Callers |-> phase[c] # "idle"]

(* A call that ends is a Return of the contract.                           *)
LEMMA FinishReturns ==
  ASSUME IInv, NEW c \in Callers, phase[c] # "idle",
         NEW how \in {"ok", "failed"}, Finish(c, how),
         object' \in {object, [object EXCEPT ![c] = call[c]]},
         how = "ok" => object'[c] = call[c]
  PROVE  Contract!Return(c, how)
BY DEF Contract!Return, Finish, Goto, IInv, TypeOK

(* A call that goes on is an Effect of the contract or a stutter.          *)
LEMMA RetryIsEffect ==
  ASSUME IInv, NEW c \in Callers, phase[c] # "idle", RetryOrGiveUp(c),
         object' \in {object, [object EXCEPT ![c] = call[c]]}
  PROVE  [Contract!Next]_(Contract!contract)
<1>1. CASE Finish(c, "failed")
  BY <1>1, FinishReturns DEF Contract!Next
<1>2. CASE ~Finish(c, "failed")
  <2>1. UNCHANGED <<call, outcome>> /\ busy' = busy
    BY <1>2 DEF RetryOrGiveUp, Goto, IInv, TypeOK, busy
  <2>2. Contract!Effect(c) \/ UNCHANGED Contract!contract
    BY <2>1 DEF Contract!Effect, Contract!contract, busy
  <2> QED BY <2>2 DEF Contract!Next
<1> QED BY <1>1, <1>2

(* Without late execution every step of the client is a step of the        *)
(* contract or a stutter.                                                  *)
LEMMA StepIsContractStep ==
  ASSUME ~LateExecution, IInv, [Next]_vars
  PROVE  [Contract!Next]_(Contract!contract)
<1>1. CASE UNCHANGED vars
  BY <1>1 DEF vars, Contract!contract
<1>2. ASSUME NEW c \in Callers, NEW k \in Kinds, Begin(c, k)
      PROVE  Contract!Begin(c)
  BY <1>2 DEF Begin, Goto, Contract!Begin, IInv, TypeOK
<1>3. ASSUME NEW c \in Callers, Lock(c) \/ Wake(c) \/ Cancel(c)
      PROVE  UNCHANGED Contract!contract
  BY <1>3 DEF Lock, Wake, Cancel, Goto, Contract!contract, IInv, TypeOK
<1>4. ASSUME NEW c \in Callers, Send(c)
      PROVE  [Contract!Next]_(Contract!contract)
  <2>1. CASE cancelled[c]
    BY <1>4, <2>1, RetryIsEffect DEF Send
  <2>2. CASE ~cancelled[c]
    BY <1>4, <2>2 DEF Send, Goto, Contract!contract, IInv, TypeOK
  <2> QED BY <2>1, <2>2
<1>5. ASSUME NEW c \in Callers, CancelledInBackoff(c)
      PROVE  Contract!Return(c, "failed")
  BY <1>5, FinishReturns DEF CancelledInBackoff
<1>6. ASSUME NEW c \in Callers, Waiting(c)
      PROVE  [Contract!Next]_(Contract!contract)
  <2>1. phase[c] # "idle" /\ Executed(Current(c)) = [object EXCEPT ![c] = call[c]]
    BY <1>6 DEF Waiting, Answer, Reject, TransientError, GiveUpWaiting, Executed, Current
  <2>2. CASE Answer(c)
    <3>1. object'[c] = call[c]
      BY <2>1, <2>2 DEF Answer, IInv, TypeOK
    <3>2. Contract!Return(c, "ok")
      BY <2>1, <2>2, <3>1, FinishReturns DEF Answer
    <3> QED BY <3>2 DEF Contract!Next
  <2>3. CASE Reject(c)
    <3>1. Contract!Return(c, "failed")
      BY <2>1, <2>3, FinishReturns DEF Reject
    <3> QED BY <3>1 DEF Contract!Next
  <2>4. CASE TransientError(c)
    BY <2>1, <2>4, RetryIsEffect DEF TransientError
  <2>5. CASE GiveUpWaiting(c)
    BY <2>1, <2>5, RetryIsEffect DEF GiveUpWaiting
  <2> QED BY <1>6, <2>2, <2>3, <2>4, <2>5 DEF Waiting
<1>7. ASSUME NEW r \in running, FinishLate(r)
      PROVE  FALSE
  BY <1>7 DEF FinishLate, IInv, RunningIsAwaited
<1> QED BY <1>1, <1>2, <1>3, <1>4, <1>5, <1>6, <1>7 DEF Next, Step, Contract!Next

(* The client keeps the contract that the model of a resource assumes of   *)
(* one call, when slurmrestd is done with a request its client gave up on. *)
THEOREM ClientKeepsContract ==
  ASSUME ~LateExecution
  PROVE  Spec => KeepsContract
<1>1. Init => Contract!Init
  BY DEF Init, Contract!Init
<1>2. IInv /\ [Next]_vars => [Contract!Next]_(Contract!contract)
  BY StepIsContractStep
<1> QED BY <1>1, <1>2, SpecIInv, PTL DEF Spec, KeepsContract, Contract!Spec

(* A successful call stays in force until the next one.                    *)
THEOREM AcknowledgedStaysInForce ==
  ASSUME ~LateExecution
  PROVE  Spec => []AcknowledgedInForce
<1>1. Init => AcknowledgedInForce
  BY DEF Init, AcknowledgedInForce
<1>2. ASSUME IInv, AcknowledgedInForce, [Next]_vars
      PROVE  AcknowledgedInForce'
  <2>1. [Contract!Next]_(Contract!contract)
    BY <1>2, StepIsContractStep
  <2>2. CASE UNCHANGED Contract!contract
    <3>1. \A c \in Callers : (phase'[c] # "idle") = (phase[c] # "idle")
      BY <2>2 DEF Contract!contract
    <3> QED BY <1>2, <2>2, <3>1 DEF Contract!contract, AcknowledgedInForce
  <2>3. ASSUME NEW c \in Callers, Contract!Begin(c)
        PROVE  AcknowledgedInForce'
    BY <1>2, <2>3 DEF Contract!Begin, AcknowledgedInForce, IInv, TypeOK
  <2>4. ASSUME NEW c \in Callers, Contract!Effect(c)
        PROVE  AcknowledgedInForce'
    BY <1>2, <2>4 DEF Contract!Effect, AcknowledgedInForce, IInv, TypeOK
  <2>5. ASSUME NEW c \in Callers, NEW how \in {"ok", "failed"}, Contract!Return(c, how)
        PROVE  AcknowledgedInForce'
    BY <1>2, <2>5 DEF Contract!Return, AcknowledgedInForce, IInv, TypeOK
  <2> QED BY <2>1, <2>2, <2>3, <2>4, <2>5 DEF Contract!Next
<1> QED BY <1>1, <1>2, SpecIInv, PTL DEF Spec
=============================================================================
