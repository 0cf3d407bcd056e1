----------------------------- MODULE QosResource -----------------------------
(***************************************************************************)
(* One slurm_qos resource (src/internal/resources/qos.go) driven by the    *)
(* Terraform core against slurmdbd, one step per HTTP call.  Unlike users  *)
(* and accounts, a QOS is read back after its creation, its whole state    *)
(* comes from the API, and some attributes are Computed: left out of the   *)
(* configuration they keep their value.  A change of name replaces it.     *)
(*                                                                         *)
(* The attributes are told apart by what Slurm gives them when nobody does *)
(* (Default), by the values the read treats as unset (Hidden: priority 0,  *)
(* grace_time 0, no preempt mode, an empty list), by the values that       *)
(* omitempty drops from a request (Unsent: grace_time 0, an empty list or  *)
(* description), and by whether the GET right after the POST may not show  *)
(* them yet (Lagging: the TRES limits).                                    *)
(***************************************************************************)
EXTENDS Naturals

CONSTANTS
  Names,
  System,      \* the names slurmdbd creates itself and only soft-deletes
  Attributes, Computed, Lagging,
  Values,
  Null,        \* an attribute that is not declared, or not set
  Unknown,     \* planned: known after the apply
  NoQos,       \* no resource, or no QOS
  SoftDeleted, \* a row that slurmdbd keeps with deleted=1
  Default, Hidden, Unsent,
  Configs,     \* the configurations the operator may write
  MaxEdits, MaxFaults, MaxInterference  \* bounds of the environment

Row == [Attributes -> Values \cup {Null}]
Model == [name : Names, attrs : Row]
PlanModel == [name : Names, attrs : [Attributes -> Values \cup {Null, Unknown}]]

ASSUME QosAssumption ==
  /\ System \subseteq Names
  /\ Lagging \subseteq Computed /\ Computed \subseteq Attributes
  /\ Null \notin Values /\ Unknown \notin Values \cup {Null}
  /\ NoQos \notin PlanModel \cup Model \cup Row
  /\ SoftDeleted \notin Row \cup {NoQos}
  /\ Hidden \in [Attributes -> SUBSET Values] /\ Unsent \in [Attributes -> SUBSET Values]
  /\ Default \in Row
  /\ \A a \in Attributes \ Computed : Default[a] \in Hidden[a] \cup {Null}
  /\ Configs \subseteq Model \cup {NoQos}
  /\ MaxEdits \in Nat /\ MaxFaults \in Nat /\ MaxInterference \in Nat

VARIABLES
  config,   \* the resource block in the .tf files
  state,    \* the resource in the Terraform state
  tainted,  \* the resource in the state is to be replaced
  srv,      \* Names -> the QOS in slurmdbd
  pc,       \* where the running command is; "idle" between commands
  plan,     \* the planned state Terraform core hands to the provider
  result,   \* how the last command ended
  quiet,    \* history: no interference since the command started
  foreign,  \* history: Create found the QOS in slurmdbd
  edits, faults, interferences   \* what the environment did so far

env == <<edits, faults, interferences>>
vars == <<config, state, tainted, srv, pc, plan, result, quiet, foreign, env>>

Init ==
  /\ config \in Configs
  /\ state = NoQos /\ tainted = FALSE
  /\ srv = [n \in Names |-> IF n \in System THEN Default ELSE NoQos]
  /\ pc = "idle" /\ plan = NoQos
  /\ result = "none"
  /\ quiet = TRUE /\ foreign = FALSE
  /\ edits = 0 /\ faults = 0 /\ interferences = 0

\* A command ends; the diagnostics decide how.
End(how) == pc' = "idle" /\ result' = how

Live(row) == row \notin {NoQos, SoftDeleted}

-----------------------------------------------------------------------------
(* Reading *)

\* Mutant: the zero is read back like any other value.
ShownWhole(row) == row

\* What qosAPIToState makes of a row: the hidden values become null.
Shown(row) == [a \in Attributes |-> IF row[a] \in Hidden[a] THEN Null ELSE row[a]]

\* The name Read asks for: that of the state, or the one ImportState stored.
ReadName == IF state = NoQos THEN config.name ELSE state.name

\* Mutant: Read keeps the attributes the prior state has not.
ReadPreservingNull ==
  /\ pc = "read"
  /\ IF Live(srv[ReadName])
     THEN /\ state' = [name |-> ReadName, attrs |-> [a \in Attributes |->
                         IF state # NoQos /\ state.attrs[a] = Null THEN Null
                         ELSE Shown(srv[ReadName])[a]]]
          /\ IF state = NoQos THEN End("imported") ELSE pc' = "refreshed" /\ UNCHANGED result
          /\ UNCHANGED tainted
     ELSE /\ IF state = NoQos THEN End("failed") ELSE pc' = "refreshed" /\ UNCHANGED result
          /\ state' = NoQos /\ tainted' = FALSE
  /\ UNCHANGED <<config, srv, plan, quiet, foreign, env>>

\* Read: one GET, and nothing of the prior state but its name is kept.
Read ==
  /\ pc = "read"
  /\ IF Live(srv[ReadName])
     THEN /\ state' = [name |-> ReadName, attrs |-> Shown(srv[ReadName])]
          /\ IF state = NoQos THEN End("imported") ELSE pc' = "refreshed" /\ UNCHANGED result
          /\ UNCHANGED tainted
     ELSE /\ IF state = NoQos THEN End("failed") ELSE pc' = "refreshed" /\ UNCHANGED result
          /\ state' = NoQos /\ tainted' = FALSE
  /\ UNCHANGED <<config, srv, plan, quiet, foreign, env>>

-----------------------------------------------------------------------------
(* The command up to the plan *)

Start(first) ==
  /\ pc = "idle"
  /\ pc' = first
  /\ quiet' = TRUE /\ foreign' = FALSE
  /\ result' = "none"
  /\ UNCHANGED <<config, state, tainted, srv, plan, env>>

\* tofu plan/apply.  ValidateConfig only warns of a system QOS.
StartPlan == Start(IF state = NoQos THEN "refreshed" ELSE "read")

\* tofu import: ImportState stores the name, then core calls Read.
StartImport == state = NoQos /\ config # NoQos /\ Start("read")

\* The QOS in the state is to be deleted: a destroy, another name, a taint.
Destroys == state # NoQos /\ (config = NoQos \/ tainted \/ config.name # state.name)

\* Mutant: without UseStateForUnknown.
PlannedUnknown(a) ==
  IF config.attrs[a] # Null \/ a \notin Computed THEN config.attrs[a] ELSE Unknown

\* Mutant: the schema has a default instead.
PlannedDefault(a) ==
  IF config.attrs[a] # Null \/ a \notin Computed THEN config.attrs[a] ELSE Default[a]

\* UseStateForUnknown: what is not declared is planned as it was read.
Planned(a) ==
  IF config.attrs[a] # Null \/ a \notin Computed THEN config.attrs[a]
  ELSE IF state = NoQos \/ Destroys THEN Unknown ELSE state.attrs[a]

PlannedState ==
  IF config = NoQos THEN NoQos
  ELSE [name |-> config.name, attrs |-> [a \in Attributes |-> Planned(a)]]

Plan ==
  /\ pc = "refreshed"
  /\ plan' = PlannedState
  /\ IF PlannedState = state /\ ~Destroys THEN End("clean")
     ELSE /\ pc' = IF Destroys THEN "delete" ELSE IF state = NoQos THEN "create" ELSE "update"
          /\ UNCHANGED result
  /\ UNCHANGED <<config, state, tainted, srv, quiet, foreign, env>>

-----------------------------------------------------------------------------
(* What slurmdbd does with a request *)

\* Mutant: needsTRES forgets a list, so its node is never built.
SendsNoTRES(a) == a \notin Lagging /\ plan.attrs[a] \notin {Null, Unknown} \cup Unsent[a]

\* Does modelToAPI send the attribute, and does it survive the JSON?
Sends(a) == plan.attrs[a] \notin {Null, Unknown} \cup Unsent[a]

\* POST qos/ is an upsert: what is sent is written, the rest is kept.
Upserted(row) == [a \in Attributes |-> IF Sends(a) THEN plan.attrs[a] ELSE row[a]]

Target == IF pc = "delete" THEN state.name ELSE plan.name
Calls == {"create", "update", "delete"}

\* A soft-deleted row is not found by slurmrestd's own query after the POST.
Refuses == pc \in {"create", "update"} /\ srv[Target] = SoftDeleted

Effect ==
  IF pc = "delete" THEN IF Target \in System THEN SoftDeleted ELSE NoQos
  ELSE Upserted(IF srv[Target] = NoQos THEN Default ELSE srv[Target])

\* The call at pc is executed and answered.
Call == ~Refuses /\ srv' = [srv EXCEPT ![Target] = Effect]

-----------------------------------------------------------------------------
(* Apply *)

\* A replaced QOS is created under the planned name next.
DeleteQOS ==
  /\ pc = "delete"
  /\ Call
  /\ state' = NoQos /\ tainted' = FALSE
  /\ IF plan = NoQos THEN End("deleted") ELSE pc' = "create" /\ UNCHANGED result
  /\ UNCHANGED <<config, plan, quiet, foreign, env>>

CreateQOS ==
  /\ pc = "create"
  /\ Call
  /\ foreign' = (srv[Target] # NoQos)
  /\ pc' = "readBack"
  /\ UNCHANGED <<config, state, tainted, plan, result, quiet, env>>

\* What the GET right after the POST may show: of the TRES limits just written
\* some may not be there yet.
Answers ==
  LET row == Shown(srv[plan.name])
  IN  {[a \in Attributes |-> IF a \in late THEN Null ELSE row[a]]
         : late \in SUBSET {a \in Lagging : Sends(a)}}

\* Mutant: the answer is stored as it is.
PreserveNothing(answer) == answer

\* preservePlanTRES: the planned TRES limits, whatever the answer shows.
Preserve(answer) ==
  [a \in Attributes |->
     IF a \in Lagging /\ plan.attrs[a] \notin {Null, Unknown} THEN plan.attrs[a] ELSE answer[a]]

\* Terraform core accepts a created state only if it is what was planned.
Consistent(attrs) == \A a \in Attributes : plan.attrs[a] # Unknown => attrs[a] = plan.attrs[a]

\* Create, second call: the state is read back; one that core does not accept
\* is stored all the same, tainted.
ReadBack ==
  /\ pc = "readBack"
  /\ IF Live(srv[plan.name])
     THEN \E answer \in Answers :
            /\ state' = [name |-> plan.name, attrs |-> Preserve(answer)]
            /\ tainted' = ~Consistent(Preserve(answer))
            /\ End(IF Consistent(Preserve(answer)) THEN "created" ELSE "inconsistent")
     ELSE End("failed") /\ UNCHANGED <<state, tainted>>
  /\ UNCHANGED <<config, srv, plan, quiet, foreign, env>>

\* Update stores the plan.
Update ==
  /\ pc = "update"
  /\ Call
  /\ state' = plan
  /\ End("updated")
  /\ UNCHANGED <<config, tainted, plan, quiet, foreign, env>>

Refused ==
  /\ Refuses
  /\ End("refused")
  /\ UNCHANGED <<config, state, tainted, srv, plan, quiet, foreign, env>>

\* A call fails after every retry, or the process is interrupted: the request
\* may have been executed all the same.  Without a state from Create, core has
\* nothing to store.
Fail ==
  /\ pc # "idle" /\ faults < MaxFaults
  /\ faults' = faults + 1
  /\ UNCHANGED srv \/ (pc \in Calls /\ Call)
  /\ End("failed")
  /\ UNCHANGED <<config, state, tainted, plan, quiet, foreign, edits, interferences>>

-----------------------------------------------------------------------------
(* The environment *)

EditConfig ==
  /\ pc = "idle" /\ edits < MaxEdits
  /\ edits' = edits + 1
  /\ config' \in Configs \ {config}
  /\ result' = "none"
  /\ UNCHANGED <<state, tainted, srv, pc, plan, quiet, foreign, faults, interferences>>

\* sacctmgr adds, changes or removes a QOS that slurmdbd did not create.
OutOfBand(name) ==
  IF ~Live(srv[name]) THEN {Default}
  ELSE {[srv[name] EXCEPT ![a] = v] : a \in Attributes, v \in Values}
       \cup IF name \in System THEN {} ELSE {NoQos}

Interfere ==
  /\ interferences < MaxInterference
  /\ interferences' = interferences + 1
  /\ \E name \in Names : \E row \in OutOfBand(name) : srv' = [srv EXCEPT ![name] = row]
  /\ quiet' = FALSE
  /\ UNCHANGED <<config, state, tainted, pc, plan, result, foreign, edits, faults>>

-----------------------------------------------------------------------------
Progress == Read \/ Plan \/ DeleteQOS \/ CreateQOS \/ ReadBack \/ Update \/ Refused

Next == StartPlan \/ StartImport \/ Progress \/ Fail \/ EditConfig \/ Interfere

Spec == Init /\ [][Next]_vars

\* Every call returns, so a started command ends; and the operator plans and
\* applies again and again.
FairSpec == Spec /\ WF_vars(Progress) /\ SF_vars(StartPlan)

-----------------------------------------------------------------------------
(* Properties *)

PCs == {"idle", "read", "refreshed", "readBack"} \cup Calls
Results == {"none", "clean", "created", "updated", "deleted", "imported", "inconsistent",
            "failed", "refused"}

(* Every variable keeps its type; no unknown value is ever stored, which   *)
(* the framework would reject; only a system QOS is soft-deleted.          *)
TypeOK ==
  /\ config \in Configs
  /\ state \in Model \cup {NoQos} /\ tainted \in BOOLEAN
  /\ srv \in [Names -> Row \cup {NoQos, SoftDeleted}]
  /\ \A n \in Names : srv[n] = SoftDeleted => n \in System
  /\ pc \in PCs /\ plan \in PlanModel \cup {NoQos} /\ result \in Results
  /\ quiet \in BOOLEAN /\ foreign \in BOOLEAN
  /\ edits \in 0..MaxEdits /\ faults \in 0..MaxFaults
  /\ interferences \in 0..MaxInterference

\* Slurm shows every declared attribute of the model; those in the second
\* argument are left out.
InForce(m, S) ==
  /\ Live(srv[m.name])
  /\ \A a \in Attributes \ S : m.attrs[a] # Null => Shown(srv[m.name])[a] = m.attrs[a]

\* The attributes whose value in the model does not survive the round trip.
Lost(m) == {a \in Attributes : m.attrs[a] \in Hidden[a] \cup Unsent[a]}

(* An apply that nothing disturbed leaves in force everything it stored:   *)
(* Create although it stores planned TRES limits that slurmdbd did not     *)
(* show (comment at preservePlanTRES), Update although it never reads      *)
(* back.  Left out: values that the round trip loses.                      *)
ApplyIsInForce ==
  pc = "idle" /\ quiet /\ result \in {"created", "updated"} => InForce(state, Lost(state))

(* An empty plan that nothing disturbed means that slurmdbd has every      *)
(* declared attribute, and for those that are neither declared nor         *)
(* computed nothing but what Slurm gives by itself.                        *)
EmptyPlanMeansInForce ==
  pc = "idle" /\ quiet /\ result = "clean" /\ config # NoQos =>
    /\ InForce(config, {})
    /\ \A a \in Attributes \ Computed :
         config.attrs[a] = Null => srv[config.name][a] \in Hidden[a] \cup {Null}

(* Comment in Create: the planned TRES limits are preserved "so the        *)
(* framework's post-apply consistency check passes": Terraform rejects     *)
(* the result of a Create only for a QOS that was there before, for        *)
(* interference, or for a declared value that reads as unset.              *)
RejectedForAReason ==
  pc = "idle" /\ result = "inconsistent" => foreign \/ ~quiet \/ Lost(plan) # {}

(* Comment in qosAPIToState, "skip when zero (Slurm default) to avoid      *)
(* drift": without interference, Terraform never rejects a created QOS.    *)
ZeroAvoidsDrift == pc = "idle" /\ result = "inconsistent" => foreign \/ ~quiet

\* The step leaves what Slurm shows of the attribute as it is.
Keeps(a) == Shown(srv'[Target])[a] = Shown(srv[Target])[a]

(* docs/resources/qos.md, "omitting it from config keeps the current Slurm *)
(* value": the update sends a computed attribute as it was read, so an     *)
(* apply that nothing disturbed changes only what is declared.             *)
OmittedIsKept ==
  [][(pc \in {"create", "update"}) /\ quiet /\ UNCHANGED interferences /\ Live(srv[Target]) =>
     \A a \in Attributes : config.attrs[a] = Null => Keeps(a)]_vars

(* Whatever failed, was interrupted or was changed by hand, repeated       *)
(* applies bring slurmdbd to the configuration for good.  Left out: a      *)
(* soft-deleted system QOS, which no POST brings back.                     *)
Converges ==
  <>[]\/ config = NoQos /\ state = NoQos
      \/ config # NoQos /\ (InForce(config, {}) \/ srv[config.name] = SoftDeleted)
=============================================================================
