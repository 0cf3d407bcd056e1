---------------------------- MODULE CallContract ----------------------------
(***************************************************************************)
(* What the resources rely on when they make one call through the client:  *)
(* the request takes effect at some moments while the call is under way,   *)
(* at least once if the call succeeds, and never afterwards.  Each caller  *)
(* (a resource of the apply) owns one object in slurmdbd and writes it     *)
(* with one call at a time.                                                *)
(***************************************************************************)
EXTENDS Naturals

CONSTANTS Callers, MaxCalls

VARIABLES
  busy,     \* Callers -> is a call under way?
  call,     \* Callers -> how many calls it has begun; the value it writes
  object,   \* Callers -> the value slurmdbd holds for it
  outcome   \* Callers -> how its last call ended

contract == <<busy, call, object, outcome>>

Init ==
  /\ busy = [c \in Callers |-> FALSE]
  /\ call = [c \in Callers |-> 0]
  /\ object = [c \in Callers |-> 0]
  /\ outcome = [c \in Callers |-> "ok"]

Begin(c) ==
  /\ ~busy[c]
  /\ call[c] < MaxCalls
  /\ busy' = [busy EXCEPT ![c] = TRUE]
  /\ call' = [call EXCEPT ![c] = @ + 1]
  /\ UNCHANGED <<object, outcome>>

\* The request is executed; a repeated request finds nothing left to do.
Effect(c) ==
  /\ busy[c]
  /\ object' = [object EXCEPT ![c] = call[c]]
  /\ UNCHANGED <<busy, call, outcome>>

\* The call returns; executed and answered may be one step.
Return(c, how) ==
  /\ busy[c]
  /\ busy' = [busy EXCEPT ![c] = FALSE]
  /\ object' \in {object, [object EXCEPT ![c] = call[c]]}
  /\ how = "ok" => object'[c] = call[c]
  /\ outcome' = [outcome EXCEPT ![c] = how]
  /\ UNCHANGED call

Next == \E c \in Callers :
  \/ Begin(c)
  \/ Effect(c)
  \/ \E how \in {"ok", "failed"} : Return(c, how)

Spec == Init /\ [][Next]_contract
=============================================================================
