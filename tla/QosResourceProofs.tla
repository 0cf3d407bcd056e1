-------------------------- MODULE QosResourceProofs --------------------------
(***************************************************************************)
(* Proofs about QosResource, for any names, attributes, defaults, hidden   *)
(* and unsent values, configurations and any number of edits, failures and *)
(* changes by hand.                                                        *)
(***************************************************************************)
EXTENDS QosResource, TLAPS

\* The calls of an apply work on the state the command left them.
StateFollowsCommand ==
  /\ pc = "read" => state # NoQos \/ config # NoQos
  /\ pc \in {"update", "delete"} => state # NoQos
  /\ pc \in {"create", "readBack"} => state = NoQos
  /\ pc = "update" => state.name = plan.name

\* What is planned for an attribute: declared, not set, as read, or unknown.
PlannedAt(a) ==
  IF config.attrs[a] # Null \/ a \notin Computed THEN config.attrs[a]
  ELSE IF pc = "update" THEN state.attrs[a] ELSE Unknown

\* The plan follows the configuration to the last call.
PlanFollowsConfig ==
  pc \in Calls \cup {"readBack"} =>
    /\ config = NoQos => plan = NoQos /\ pc = "delete"
    /\ config # NoQos =>
         /\ plan # NoQos /\ plan.name = config.name
         /\ \A a \in Attributes : plan.attrs[a] = PlannedAt(a)

\* From the refresh to the update, the state is what slurmdbd shows.
RefreshIsTrue ==
  pc \in {"refreshed", "update"} /\ quiet /\ state # NoQos =>
    Live(srv[state.name]) /\ state.attrs = Shown(srv[state.name])

\* Before the read-back, slurmdbd has what was sent, over the row of before.
WrittenIsThere ==
  pc = "readBack" /\ quiet =>
    /\ Live(srv[plan.name])
    /\ \A a \in Attributes : Sends(a) => srv[plan.name][a] = plan.attrs[a]
    /\ ~foreign => \A a \in Attributes : Sends(a) \/ srv[plan.name][a] = Default[a]

IInv ==
  /\ TypeOK
  /\ StateFollowsCommand
  /\ PlanFollowsConfig
  /\ RefreshIsTrue
  /\ WrittenIsThere
  /\ ApplyIsInForce
  /\ EmptyPlanMeansInForce
  /\ RejectedForAReason

-----------------------------------------------------------------------------
(* Rows and requests *)

(* A read shows the values of a row or hides them.                         *)
LEMMA ShownType ==
  ASSUME NEW row \in Row
  PROVE  /\ Shown(row) \in Row
         /\ \A a \in Attributes :
              Shown(row)[a] = IF row[a] \in Hidden[a] THEN Null ELSE row[a]
BY DEF Shown, Row

(* A live row is a row of values.                                          *)
LEMMA LiveIsRow ==
  ASSUME TypeOK, NEW n \in Names
  PROVE  /\ Live(srv[n]) <=> srv[n] \in Row
         /\ ~Live(srv[n]) <=> srv[n] \in {NoQos, SoftDeleted}
BY QosAssumption DEF TypeOK, Live

(* A configured or stored resource is a model, hence neither unknown nor   *)
(* missing.                                                                *)
LEMMA ModelTypes ==
  ASSUME TypeOK
  PROVE  /\ config # NoQos => config \in Model /\ config.name \in Names /\ config.attrs \in Row
         /\ state # NoQos => state \in Model /\ state.name \in Names /\ state.attrs \in Row
         /\ plan # NoQos => plan \in PlanModel /\ plan.name \in Names
         /\ Model \subseteq PlanModel
BY QosAssumption DEF TypeOK, Model, PlanModel, Row

(* What is sent are values; an upsert of a row is a row.                   *)
LEMMA UpsertedType ==
  ASSUME plan \in PlanModel, NEW row \in Row
  PROVE  /\ Upserted(row) \in Row
         /\ \A a \in Attributes :
              Upserted(row)[a] = IF Sends(a) THEN plan.attrs[a] ELSE row[a]
BY QosAssumption DEF Upserted, Sends, PlanModel, Row

(* A write is about the planned name, and upserts the row that was there   *)
(* or, where there was none, what Slurm gives a new QOS.                   *)
LEMMA WriteEffect ==
  ASSUME IInv, pc \in {"create", "update"}, Call
  PROVE  /\ plan \in PlanModel /\ Target = plan.name /\ Target \in Names
         /\ srv' = [srv EXCEPT ![Target] = Effect]
         /\ srv[Target] = NoQos \/ srv[Target] \in Row
         /\ srv[Target] = NoQos => Effect = Upserted(Default)
         /\ srv[Target] # NoQos => Effect = Upserted(srv[Target])
         /\ Effect \in Row
<1>1. plan # NoQos
  BY DEF IInv, PlanFollowsConfig, Calls
<1>2. plan \in PlanModel /\ Target = plan.name /\ Target \in Names
  BY <1>1, ModelTypes DEF IInv, Target
<1>3. srv[Target] = NoQos \/ srv[Target] \in Row
  BY <1>2 DEF IInv, TypeOK, Call, Refuses
<1>4. srv' = [srv EXCEPT ![Target] = Effect]
  BY DEF Call
<1>5. Effect = Upserted(IF srv[Target] = NoQos THEN Default ELSE srv[Target])
  BY DEF Effect
<1>6. Default \in Row
  BY QosAssumption
<1>7. Effect \in Row
  BY <1>2, <1>3, <1>5, <1>6, UpsertedType
<1> QED BY <1>2, <1>3, <1>4, <1>5, <1>7

(* A deletion is about the name in the state, and soft-deletes only what   *)
(* slurmdbd made itself.                                                   *)
LEMMA DeleteEffect ==
  ASSUME IInv, pc = "delete", Call
  PROVE  /\ Target = state.name /\ Target \in Names
         /\ srv' = [srv EXCEPT ![Target] = Effect]
         /\ Effect \in {NoQos, SoftDeleted}
         /\ Effect = SoftDeleted => Target \in System
<1>1. Target = state.name /\ Target \in Names
  BY ModelTypes DEF IInv, StateFollowsCommand, Target
<1> QED BY <1>1, QosAssumption DEF Call, Effect

(* A call leaves typed rows, and soft-deletes system rows only.            *)
LEMMA CallType ==
  ASSUME IInv, pc \in Calls, Call
  PROVE  /\ srv' \in [Names -> Row \cup {NoQos, SoftDeleted}]
         /\ \A n \in Names : srv'[n] = SoftDeleted => n \in System
<1>1. /\ srv \in [Names -> Row \cup {NoQos, SoftDeleted}]
      /\ \A n \in Names : srv[n] = SoftDeleted => n \in System
  BY DEF IInv, TypeOK
<1>2. CASE pc = "delete"
  BY <1>1, <1>2, DeleteEffect
<1>3. CASE pc \in {"create", "update"}
  <2>1. Effect \in Row /\ Effect # SoftDeleted
    BY <1>3, WriteEffect, QosAssumption
  <2>2. srv' = [srv EXCEPT ![Target] = Effect] /\ Target \in Names
    BY <1>3, WriteEffect
  <2> QED BY <1>1, <2>1, <2>2
<1> QED BY <1>2, <1>3 DEF Calls

(* The state Create builds from an answer has no unknown value: the        *)
(* attributes planned and preserved, the others as slurmdbd shows them.    *)
LEMMA PreserveType ==
  ASSUME IInv, pc = "readBack", Live(srv[plan.name]), NEW answer \in Answers
  PROVE  /\ plan \in PlanModel /\ srv[plan.name] \in Row
         /\ Preserve(answer) \in Row
         /\ \A a \in Attributes :
              Preserve(answer)[a] =
                IF a \in Lagging /\ plan.attrs[a] \notin {Null, Unknown} THEN plan.attrs[a]
                ELSE Shown(srv[plan.name])[a]
<1>1. plan \in PlanModel /\ plan.name \in Names
  BY ModelTypes DEF IInv, PlanFollowsConfig, StateFollowsCommand
<1>2. srv[plan.name] \in Row
  BY <1>1, LiveIsRow DEF IInv
<1>3. PICK late \in SUBSET {a \in Lagging : Sends(a)} :
        answer = [a \in Attributes |-> IF a \in late THEN Null ELSE Shown(srv[plan.name])[a]]
  BY DEF Answers
<1>4. \A a \in Attributes :
        a \notin Lagging \/ plan.attrs[a] \in {Null, Unknown} => answer[a] = Shown(srv[plan.name])[a]
  BY <1>3 DEF Sends
<1>5. answer \in Row
  BY <1>2, <1>3, ShownType DEF Row
<1>6. \A a \in Attributes : plan.attrs[a] \in Values \cup {Null, Unknown}
  BY <1>1 DEF PlanModel
<1>7. Preserve(answer) \in Row
  BY <1>5, <1>6 DEF Preserve, Row
<1> QED BY <1>1, <1>2, <1>4, <1>7 DEF Preserve

-----------------------------------------------------------------------------
(* The invariant *)

\* The parts of the invariant about a command that has ended.
IdleInv == ApplyIsInForce /\ EmptyPlanMeansInForce /\ RejectedForAReason

(* The initial states satisfy the invariant.                               *)
LEMMA Initial == Init => IInv
<1> SUFFICES ASSUME Init PROVE IInv
  OBVIOUS
<1>1. TypeOK
  <2>1. /\ srv \in [Names -> Row \cup {NoQos, SoftDeleted}]
        /\ \A n \in Names : srv[n] = SoftDeleted => n \in System
    BY QosAssumption DEF Init
  <2>2. edits \in 0..MaxEdits /\ faults \in 0..MaxFaults /\ interferences \in 0..MaxInterference
    BY QosAssumption DEF Init
  <2> QED BY <2>1, <2>2 DEF Init, TypeOK, PCs, Results
<1>2. StateFollowsCommand /\ PlanFollowsConfig /\ RefreshIsTrue /\ WrittenIsThere
  BY DEF Init, StateFollowsCommand, PlanFollowsConfig, RefreshIsTrue, WrittenIsThere, Calls
<1>3. IdleInv
  BY DEF Init, IdleInv, ApplyIsInForce, EmptyPlanMeansInForce, RejectedForAReason
<1> QED BY <1>1, <1>2, <1>3 DEF IInv, IdleInv

(* A command that starts has nothing planned yet.                          *)
LEMMA StartKeeps ==
  ASSUME IInv, StartPlan \/ StartImport
  PROVE  IInv'
<1>1. /\ pc' = "read" \/ (pc' = "refreshed" /\ state = NoQos)
      /\ pc' = "read" => state # NoQos \/ config # NoQos
      /\ quiet' = TRUE /\ foreign' = FALSE /\ result' = "none"
      /\ UNCHANGED <<config, state, tainted, srv, plan, env>>
  BY DEF StartPlan, StartImport, Start
<1>2. TypeOK'
  BY <1>1 DEF IInv, TypeOK, PCs, Results, env
<1>3. StateFollowsCommand' /\ PlanFollowsConfig' /\ RefreshIsTrue' /\ WrittenIsThere'
  BY <1>1 DEF StateFollowsCommand, PlanFollowsConfig, RefreshIsTrue, WrittenIsThere, Calls
<1>4. IdleInv'
  BY <1>1 DEF IdleInv, ApplyIsInForce, EmptyPlanMeansInForce, RejectedForAReason
<1> QED BY <1>2, <1>3, <1>4 DEF IInv, IdleInv

(* A read stores what slurmdbd shows, or that the QOS has gone.            *)
LEMMA ReadKeeps ==
  ASSUME IInv, Read
  PROVE  IInv'
<1> DEFINE new == [name |-> ReadName, attrs |-> Shown(srv[ReadName])]
<1>1. ReadName \in Names
  BY ModelTypes DEF IInv, StateFollowsCommand, Read, ReadName
<1>2. pc = "read" /\ UNCHANGED <<config, srv, plan, quiet, foreign, env>>
  BY DEF Read
<1>3. \/ pc' = "refreshed" /\ result' = result
      \/ pc' = "idle" /\ result' \in {"imported", "failed"}
  BY DEF Read, End
<1>4. CASE Live(srv[ReadName])
  <2>1. state' = new /\ tainted' = tainted
    BY <1>4 DEF Read
  <2>2. srv[ReadName] \in Row
    BY <1>1, <1>4, LiveIsRow DEF IInv
  <2>3. new \in Model
    BY <1>1, <2>2, ShownType DEF Model
  <2>4. TypeOK'
    BY <1>2, <1>3, <2>1, <2>3 DEF IInv, TypeOK, PCs, Results, env
  <2>5. RefreshIsTrue'
    BY <1>2, <1>4, <2>1 DEF RefreshIsTrue, Shown, Live
  <2> QED BY <1>2, <1>3, <2>4, <2>5
       DEF IInv, StateFollowsCommand, PlanFollowsConfig, WrittenIsThere, Calls,
           ApplyIsInForce, EmptyPlanMeansInForce, RejectedForAReason
<1>5. CASE ~Live(srv[ReadName])
  <2>1. state' = NoQos /\ tainted' = FALSE
    BY <1>5 DEF Read
  <2>2. TypeOK'
    BY <1>2, <1>3, <2>1 DEF IInv, TypeOK, PCs, Results, env
  <2> QED BY <1>2, <1>3, <2>1, <2>2
       DEF IInv, StateFollowsCommand, PlanFollowsConfig, RefreshIsTrue, WrittenIsThere, Calls,
           ApplyIsInForce, EmptyPlanMeansInForce, RejectedForAReason
<1> QED BY <1>4, <1>5

(* The planned state follows the configuration, and its computed           *)
(* attributes the state unless the QOS is to be created.                   *)
LEMMA PlannedStateType ==
  ASSUME IInv, config # NoQos
  PROVE  /\ PlannedState \in PlanModel /\ PlannedState # NoQos
         /\ PlannedState.name = config.name
         /\ \A a \in Attributes :
              PlannedState.attrs[a] =
                IF config.attrs[a] # Null \/ a \notin Computed THEN config.attrs[a]
                ELSE IF state = NoQos \/ Destroys THEN Unknown ELSE state.attrs[a]
<1>1. config \in Model /\ (state # NoQos => state \in Model)
  BY ModelTypes DEF IInv
<1>2. PlannedState = [name |-> config.name, attrs |-> [a \in Attributes |-> Planned(a)]]
  BY DEF PlannedState
<1>3. \A a \in Attributes : Planned(a) \in Values \cup {Null, Unknown}
  BY <1>1, QosAssumption DEF Planned, Model, Row
<1>4. PlannedState \in PlanModel
  BY <1>1, <1>2, <1>3 DEF PlanModel, Model
<1>5. PlannedState # NoQos
  BY <1>4, QosAssumption
<1> QED BY <1>2, <1>4, <1>5 DEF Planned

(* An empty plan means that the configuration is in force; otherwise the   *)
(* call that follows has the plan.                                         *)
LEMMA PlanKeeps ==
  ASSUME IInv, Plan
  PROVE  IInv'
<1>1. /\ pc = "refreshed" /\ plan' = PlannedState
      /\ UNCHANGED <<config, state, tainted, srv, quiet, foreign, env>>
  BY DEF Plan
<1>2. plan' \in PlanModel \cup {NoQos}
  BY <1>1, PlannedStateType DEF PlannedState
<1>3. CASE PlannedState = state /\ ~Destroys
  <2>1. pc' = "idle" /\ result' = "clean"
    BY <1>3 DEF Plan, End
  <2>2. TypeOK'
    BY <1>1, <1>2, <2>1 DEF IInv, TypeOK, PCs, Results, env
  <2>3. EmptyPlanMeansInForce'
    <3>1. SUFFICES ASSUME quiet, config # NoQos
                   PROVE  /\ InForce(config, {})'
                          /\ \A a \in Attributes \ Computed :
                               config.attrs[a] = Null => srv[config.name][a] \in Hidden[a] \cup {Null}
      BY <1>1 DEF EmptyPlanMeansInForce
    <3>2. /\ state # NoQos /\ state.name = config.name
          /\ \A a \in Attributes :
               config.attrs[a] # Null \/ a \notin Computed => state.attrs[a] = config.attrs[a]
      BY <1>3, <3>1, PlannedStateType
    <3>3. /\ srv[config.name] \in Row /\ Live(srv[config.name])
          /\ \A a \in Attributes :
               config.attrs[a] # Null \/ a \notin Computed => Shown(srv[config.name])[a] = config.attrs[a]
      BY <1>1, <3>1, <3>2, ModelTypes, LiveIsRow DEF IInv, RefreshIsTrue
    <3>4. InForce(config, {})'
      BY <1>1, <3>3 DEF InForce, Live, Shown
    <3> QED BY <3>3, <3>4, ShownType
  <2> QED BY <2>1, <2>2, <2>3
       DEF IInv, StateFollowsCommand, PlanFollowsConfig, RefreshIsTrue, WrittenIsThere, Calls,
           ApplyIsInForce, RejectedForAReason
<1>4. CASE ~(PlannedState = state /\ ~Destroys)
  <2>1. /\ pc' = IF Destroys THEN "delete" ELSE IF state = NoQos THEN "create" ELSE "update"
        /\ result' = result
    BY <1>4 DEF Plan
  <2>2. TypeOK'
    BY <1>1, <1>2, <2>1 DEF IInv, TypeOK, PCs, Calls, env
  <2>3. config = NoQos => plan' = NoQos /\ Destroys
    BY <1>1, <1>4 DEF PlannedState, Destroys
  <2>4. StateFollowsCommand'
    BY <1>1, <2>1, <2>3, PlannedStateType DEF StateFollowsCommand, Destroys
  <2>5. PlanFollowsConfig'
    BY <1>1, <2>1, <2>3, PlannedStateType DEF PlanFollowsConfig, PlannedAt, Destroys
  <2>6. RefreshIsTrue'
    BY <1>1, <2>1 DEF IInv, RefreshIsTrue, Live, Shown
  <2> QED BY <2>1, <2>2, <2>4, <2>5, <2>6
       DEF IInv, WrittenIsThere, ApplyIsInForce, EmptyPlanMeansInForce, RejectedForAReason
<1> QED BY <1>3, <1>4

(* The POST of a Create leaves what it sent.                               *)
LEMMA CreateKeeps ==
  ASSUME IInv, CreateQOS
  PROVE  IInv'
<1>1. /\ pc = "create" /\ Call /\ pc' = "readBack" /\ foreign' = (srv[Target] # NoQos)
      /\ UNCHANGED <<config, state, tainted, plan, result, quiet, env>>
  BY DEF CreateQOS
<1>2. TypeOK'
  BY <1>1, CallType DEF IInv, TypeOK, PCs, Calls, env
<1>3. StateFollowsCommand' /\ RefreshIsTrue' /\ state' = state
  BY <1>1 DEF IInv, StateFollowsCommand, RefreshIsTrue
<1>4. PlanFollowsConfig'
  BY <1>1 DEF IInv, PlanFollowsConfig, PlannedAt, Calls
<1>5. WrittenIsThere'
  <2> DEFINE old == IF srv[Target] = NoQos THEN Default ELSE srv[Target]
  <2>1. /\ plan \in PlanModel /\ Target = plan.name /\ Target \in Names
        /\ srv' = [srv EXCEPT ![Target] = Effect]
        /\ old \in Row /\ Effect = Upserted(old) /\ Effect \in Row
    BY <1>1, WriteEffect, QosAssumption
  <2>2. srv'[plan.name] = Upserted(old)
    BY <2>1 DEF IInv, TypeOK
  <2>3. Live(srv'[plan.name])
    BY <2>1, <2>2, QosAssumption DEF Live
  <2>4. \A a \in Attributes : srv'[plan.name][a] = IF Sends(a) THEN plan.attrs[a] ELSE old[a]
    BY <2>1, <2>2, UpsertedType
  <2>5. \A a \in Attributes : Sends(a)' = Sends(a)
    BY <1>1 DEF Sends
  <2> HIDE DEF old
  <2>6. ~foreign' => old = Default
    BY <1>1 DEF old
  <2> QED BY <1>1, <2>3, <2>4, <2>5, <2>6 DEF WrittenIsThere, Live
<1> QED BY <1>1, <1>2, <1>3, <1>4, <1>5
     DEF IInv, ApplyIsInForce, EmptyPlanMeansInForce, RejectedForAReason

(* What Update stores is what it sent, or what was there.                  *)
LEMMA UpdateKeeps ==
  ASSUME IInv, Update
  PROVE  IInv'
<1>1. /\ pc = "update" /\ Call /\ state' = plan /\ pc' = "idle" /\ result' = "updated"
      /\ UNCHANGED <<config, tainted, plan, quiet, foreign, env>>
  BY DEF Update, End
<1>2. /\ plan \in PlanModel /\ Target = plan.name /\ Target \in Names
      /\ srv' = [srv EXCEPT ![Target] = Effect] /\ Effect \in Row
      /\ \A a \in Attributes : Sends(a) => Effect[a] = plan.attrs[a]
  BY <1>1, WriteEffect, UpsertedType, QosAssumption
<1>3. plan \in Model
  <2>1. config # NoQos /\ state # NoQos /\ (\A a \in Attributes : plan.attrs[a] = PlannedAt(a))
    BY <1>1 DEF IInv, PlanFollowsConfig, StateFollowsCommand, Calls
  <2>2. config \in Model /\ state \in Model
    BY <2>1, ModelTypes DEF IInv
  <2>3. \A a \in Attributes : plan.attrs[a] \in Values \cup {Null}
    BY <1>1, <2>1, <2>2 DEF PlannedAt, Model, Row
  <2> QED BY <1>2, <2>3 DEF PlanModel, Model, Row
<1>4. TypeOK'
  BY <1>1, <1>3, CallType DEF IInv, TypeOK, PCs, Calls, Results, env
<1>5. ApplyIsInForce'
  <2>1. srv'[plan.name] = Effect /\ Live(srv'[plan.name])
    BY <1>2, QosAssumption DEF IInv, TypeOK, Live
  <2>2. \A a \in Attributes \ Lost(plan) : plan.attrs[a] # Null => Sends(a)
    BY <1>3, QosAssumption DEF Lost, Sends, Model, Row
  <2>3. \A a \in Attributes \ Lost(plan) : plan.attrs[a] # Null => Shown(Effect)[a] = plan.attrs[a]
    BY <1>2, <2>2, ShownType DEF Lost
  <2>4. InForce(state, Lost(state))'
    BY <1>1, <2>1, <2>3 DEF InForce, Lost, Live, Shown
  <2> QED BY <2>4 DEF ApplyIsInForce
<1> QED BY <1>1, <1>4, <1>5
     DEF IInv, StateFollowsCommand, PlanFollowsConfig, RefreshIsTrue, WrittenIsThere, Calls,
         EmptyPlanMeansInForce, RejectedForAReason

(* A deletion ends the command, or the planned QOS is created next.        *)
LEMMA DeleteKeeps ==
  ASSUME IInv, DeleteQOS
  PROVE  IInv'
<1>1. /\ pc = "delete" /\ Call /\ state' = NoQos /\ tainted' = FALSE
      /\ UNCHANGED <<config, plan, quiet, foreign, env>>
      /\ \/ plan = NoQos /\ pc' = "idle" /\ result' = "deleted"
         \/ plan # NoQos /\ pc' = "create" /\ result' = result
  BY DEF DeleteQOS, End
<1>2. TypeOK'
  BY <1>1, CallType DEF IInv, TypeOK, PCs, Calls, Results, env
<1>3. PlanFollowsConfig'
  BY <1>1 DEF IInv, PlanFollowsConfig, PlannedAt, Calls
<1> QED BY <1>1, <1>2, <1>3
     DEF IInv, StateFollowsCommand, RefreshIsTrue, WrittenIsThere,
         ApplyIsInForce, EmptyPlanMeansInForce, RejectedForAReason

(* A created state is in force, and what Terraform rejects has a reason.   *)
LEMMA ReadBackKeeps ==
  ASSUME IInv, ReadBack
  PROVE  IInv'
<1>1. pc = "readBack" /\ pc' = "idle" /\ UNCHANGED <<config, srv, plan, quiet, foreign, env>>
  BY DEF ReadBack, End
<1>2. StateFollowsCommand' /\ PlanFollowsConfig' /\ RefreshIsTrue' /\ WrittenIsThere'
  BY <1>1 DEF StateFollowsCommand, PlanFollowsConfig, RefreshIsTrue, WrittenIsThere, Calls
<1>3. CASE ~Live(srv[plan.name])
  <2>1. result' = "failed" /\ UNCHANGED <<state, tainted>>
    BY <1>3 DEF ReadBack, End
  <2>2. TypeOK'
    BY <1>1, <2>1 DEF IInv, TypeOK, PCs, Results, env
  <2> QED BY <1>1, <1>2, <2>1, <2>2
       DEF IInv, ApplyIsInForce, EmptyPlanMeansInForce, RejectedForAReason
<1>4. CASE Live(srv[plan.name])
  <2> DEFINE row == srv[plan.name]
  <2>1. PICK answer \in Answers :
          /\ state' = [name |-> plan.name, attrs |-> Preserve(answer)]
          /\ tainted' = ~Consistent(Preserve(answer))
          /\ result' = IF Consistent(Preserve(answer)) THEN "created" ELSE "inconsistent"
    BY <1>4 DEF ReadBack, End
  <2>2. /\ plan \in PlanModel /\ plan # NoQos /\ plan.name \in Names /\ row \in Row
        /\ Preserve(answer) \in Row
        /\ \A a \in Attributes :
             Preserve(answer)[a] =
               IF a \in Lagging /\ plan.attrs[a] \notin {Null, Unknown} THEN plan.attrs[a]
               ELSE Shown(row)[a]
    BY <1>1, <1>4, PreserveType, QosAssumption DEF PlanModel
  <2>3. state' \in Model
    BY <2>1, <2>2 DEF Model
  <2>4. TypeOK'
    <3>1. tainted' \in BOOLEAN
      BY <2>1 DEF Consistent
    <3> QED BY <1>1, <2>1, <2>3, <3>1 DEF IInv, TypeOK, PCs, Results, env
  <2>5. quiet => \A a \in Attributes : Sends(a) => row[a] = plan.attrs[a]
    BY <1>1 DEF IInv, WrittenIsThere
  <2>6. \A a \in Attributes :
          plan.attrs[a] \notin {Null, Unknown} \cup Hidden[a] \cup Unsent[a] /\ quiet =>
            Shown(row)[a] = plan.attrs[a]
    BY <2>2, <2>5, ShownType DEF Sends
  <2>7. ApplyIsInForce'
    <3>1. SUFFICES ASSUME quiet PROVE InForce(state, Lost(state))'
      BY <1>1 DEF ApplyIsInForce
    <3>2. \A a \in Attributes :
            Preserve(answer)[a] \notin {Null} \cup Hidden[a] \cup Unsent[a] =>
              Shown(row)[a] = Preserve(answer)[a]
      BY <2>2, <2>6, <3>1
    <3> QED BY <1>1, <1>4, <2>1, <3>2 DEF InForce, Lost, Live, Shown
  <2>8. RejectedForAReason'
    <3>1. SUFFICES ASSUME quiet, ~foreign, Lost(plan) = {} PROVE Consistent(Preserve(answer))
      BY <1>1, <2>1 DEF RejectedForAReason, Lost
    <3>2. SUFFICES ASSUME NEW a \in Attributes, plan.attrs[a] # Unknown
                   PROVE  Preserve(answer)[a] = plan.attrs[a]
      BY DEF Consistent
    <3>3. CASE plan.attrs[a] = Null
      <4>1. a \notin Computed /\ ~Sends(a)
        BY <1>1, <2>2, <3>3, QosAssumption
           DEF IInv, PlanFollowsConfig, PlannedAt, StateFollowsCommand, Sends
      <4>2. row[a] = Default[a]
        BY <1>1, <3>1, <4>1 DEF IInv, WrittenIsThere
      <4>3. Shown(row)[a] = Null
        BY <2>2, <4>1, <4>2, ShownType, QosAssumption
      <4> QED BY <2>2, <3>3, <4>3
    <3>4. CASE plan.attrs[a] # Null
      <4>1. plan.attrs[a] \notin Hidden[a] \cup Unsent[a]
        BY <3>1 DEF Lost
      <4> QED BY <2>2, <2>6, <3>1, <3>2, <3>4, <4>1
    <3> QED BY <3>3, <3>4
  <2> QED BY <1>1, <1>2, <2>1, <2>4, <2>7, <2>8
       DEF IInv, EmptyPlanMeansInForce
<1> QED BY <1>3, <1>4

(* A failure or a refusal ends the command; the call may have happened.    *)
LEMMA EndKeeps ==
  ASSUME IInv, Fail \/ Refused
  PROVE  IInv'
<1>1. /\ pc' = "idle" /\ result' \in {"failed", "refused"}
      /\ srv' = srv \/ (pc \in Calls /\ Call)
      /\ UNCHANGED <<config, state, tainted, plan, quiet, foreign, edits, interferences>>
      /\ faults' = faults \/ (faults < MaxFaults /\ faults' = faults + 1)
  BY DEF Fail, Refused, End, env
<1>2. /\ srv' \in [Names -> Row \cup {NoQos, SoftDeleted}]
      /\ \A n \in Names : srv'[n] = SoftDeleted => n \in System
  BY <1>1, CallType DEF IInv, TypeOK
<1>3. faults' \in 0..MaxFaults
  BY <1>1, QosAssumption DEF IInv, TypeOK
<1>4. TypeOK'
  BY <1>1, <1>2, <1>3 DEF IInv, TypeOK, PCs, Results
<1> QED BY <1>1, <1>4
     DEF IInv, StateFollowsCommand, PlanFollowsConfig, RefreshIsTrue, WrittenIsThere, Calls,
         ApplyIsInForce, EmptyPlanMeansInForce, RejectedForAReason

(* An edit between commands claims nothing of the last one.                *)
LEMMA EditKeeps ==
  ASSUME IInv, EditConfig
  PROVE  IInv'
<1>1. /\ pc = "idle" /\ pc' = "idle" /\ result' = "none" /\ config' \in Configs
      /\ edits < MaxEdits /\ edits' = edits + 1
      /\ UNCHANGED <<state, tainted, srv, plan, quiet, foreign, faults, interferences>>
  BY DEF EditConfig
<1>2. edits' \in 0..MaxEdits
  BY <1>1, QosAssumption DEF IInv, TypeOK
<1>3. TypeOK'
  BY <1>1, <1>2 DEF IInv, TypeOK, PCs, Results
<1> QED BY <1>1, <1>3
     DEF IInv, StateFollowsCommand, PlanFollowsConfig, RefreshIsTrue, WrittenIsThere, Calls,
         ApplyIsInForce, EmptyPlanMeansInForce, RejectedForAReason

(* After a change by hand the command is not quiet any more.               *)
LEMMA InterfereKeeps ==
  ASSUME IInv, Interfere
  PROVE  IInv'
<1>1. /\ interferences < MaxInterference /\ interferences' = interferences + 1
      /\ quiet' = FALSE
      /\ UNCHANGED <<config, state, tainted, pc, plan, result, foreign, edits, faults>>
  BY DEF Interfere
<1>2. PICK name \in Names, row \in UNION {OutOfBand(n) : n \in Names} :
        row \in OutOfBand(name) /\ srv' = [srv EXCEPT ![name] = row]
  BY DEF Interfere
<1>3. row \in Row \cup {NoQos}
  <2>1. CASE ~Live(srv[name])
    BY <1>2, <2>1, QosAssumption DEF OutOfBand
  <2>2. CASE Live(srv[name])
    <3>1. srv[name] \in Row
      BY <2>2, LiveIsRow DEF IInv
    <3> QED BY <1>2, <2>2, <3>1 DEF OutOfBand, Row
  <2> QED BY <2>1, <2>2
<1>4. /\ srv' \in [Names -> Row \cup {NoQos, SoftDeleted}]
      /\ \A n \in Names : srv'[n] = SoftDeleted => n \in System
  BY <1>2, <1>3, QosAssumption DEF IInv, TypeOK
<1>5. interferences' \in 0..MaxInterference
  BY <1>1, QosAssumption DEF IInv, TypeOK
<1>6. quiet' \in BOOLEAN
  BY <1>1
<1>7. TypeOK'
  BY <1>1, <1>4, <1>5, <1>6 DEF IInv, TypeOK
<1>8. PlanFollowsConfig' /\ StateFollowsCommand'
  BY <1>1 DEF IInv, PlanFollowsConfig, PlannedAt, StateFollowsCommand
<1> QED BY <1>1, <1>7, <1>8
     DEF IInv, RefreshIsTrue, WrittenIsThere,
         ApplyIsInForce, EmptyPlanMeansInForce, RejectedForAReason, Lost

(* Every step keeps the invariant.                                         *)
LEMMA StepKeeps == IInv /\ [Next]_vars => IInv'
<1> SUFFICES ASSUME IInv, [Next]_vars PROVE IInv'
  OBVIOUS
<1>1. CASE Next
  BY <1>1, StartKeeps, ReadKeeps, PlanKeeps, CreateKeeps, UpdateKeeps, DeleteKeeps,
     ReadBackKeeps, EndKeeps, EditKeeps, InterfereKeeps DEF Next, Progress
<1>2. CASE UNCHANGED vars
  <2>1. UNCHANGED <<config, state, tainted, srv, pc, plan, result, quiet, foreign, edits, faults,
                    interferences>>
    BY <1>2 DEF vars, env
  <2>2. TypeOK' /\ StateFollowsCommand' /\ PlanFollowsConfig'
    BY <2>1 DEF IInv, TypeOK, StateFollowsCommand, PlanFollowsConfig, PlannedAt
  <2>3. RefreshIsTrue' /\ WrittenIsThere'
    BY <2>1 DEF IInv, RefreshIsTrue, WrittenIsThere, Live, Shown, Sends
  <2>4. ApplyIsInForce' /\ EmptyPlanMeansInForce' /\ RejectedForAReason'
    BY <2>1 DEF IInv, ApplyIsInForce, EmptyPlanMeansInForce, RejectedForAReason,
                InForce, Lost, Live, Shown
  <2> QED BY <2>2, <2>3, <2>4 DEF IInv
<1> QED BY <1>1, <1>2

-----------------------------------------------------------------------------
(* The theorems *)

(* The invariant holds in every state.                                     *)
LEMMA Invariant == Spec => []IInv
BY Initial, StepKeeps, PTL DEF Spec

(* Every variable keeps its type: no unknown value is ever stored.         *)
THEOREM TypeCorrect == Spec => []TypeOK
<1>1. IInv => TypeOK
  BY DEF IInv
<1> QED BY <1>1, Invariant, PTL

(* What an undisturbed apply stored is in force, although Create may store *)
(* limits it did not see and Update never looks.                           *)
THEOREM StoredIsInForce == Spec => []ApplyIsInForce
<1>1. IInv => ApplyIsInForce
  BY DEF IInv
<1> QED BY <1>1, Invariant, PTL

(* An empty plan is never wrong.                                           *)
THEOREM EmptyPlanIsTrue == Spec => []EmptyPlanMeansInForce
<1>1. IInv => EmptyPlanMeansInForce
  BY DEF IInv
<1> QED BY <1>1, Invariant, PTL

(* Terraform rejects a Create only for a reason.                           *)
THEOREM RejectionHasAReason == Spec => []RejectedForAReason
<1>1. IInv => RejectedForAReason
  BY DEF IInv
<1> QED BY <1>1, Invariant, PTL

\* What a step of an undisturbed apply may do to what is not declared.
OmittedKept ==
  (pc \in {"create", "update"}) /\ quiet /\ UNCHANGED interferences /\ Live(srv[Target]) =>
    \A a \in Attributes : config.attrs[a] = Null => Keeps(a)

(* Of the steps at a write, those that change slurmdbd are the write       *)
(* itself and a change by hand.                                            *)
LEMMA WriteStep ==
  ASSUME IInv, [Next]_vars, pc \in {"create", "update"}, UNCHANGED interferences
  PROVE  UNCHANGED srv \/ Call
<1>1. interferences' # interferences + 1
  BY DEF IInv, TypeOK
<1>2. ~Interfere
  BY <1>1 DEF Interfere
<1>3. CASE UNCHANGED vars
  BY <1>3 DEF vars
<1>4. CASE Next
  BY <1>2, <1>4 DEF Next, StartPlan, StartImport, Start, Progress, Read, Plan, DeleteQOS,
                    CreateQOS, ReadBack, Update, Refused, Fail, EditConfig
<1> QED BY <1>3, <1>4

(* A write keeps what the configuration leaves out: an optional attribute  *)
(* is not sent, a computed one is sent as it was read.                     *)
LEMMA WriteKeepsOmitted ==
  ASSUME IInv, [Next]_vars
  PROVE  OmittedKept
<1> SUFFICES ASSUME pc \in {"create", "update"}, quiet, UNCHANGED interferences, Live(srv[Target]),
                    NEW a \in Attributes, config.attrs[a] = Null
             PROVE  Keeps(a)
  BY DEF OmittedKept
<1>1. CASE UNCHANGED srv
  BY <1>1 DEF Keeps, Shown
<1>2. CASE Call
  <2> DEFINE old == srv[Target]
  <2>1. /\ plan \in PlanModel /\ Target = plan.name /\ Target \in Names /\ old \in Row
        /\ srv' = [srv EXCEPT ![Target] = Effect] /\ Effect = Upserted(old) /\ Effect \in Row
    BY <1>2, WriteEffect, QosAssumption DEF Live
  <2>2. srv'[Target] = Effect
    BY <2>1 DEF IInv, TypeOK
  <2>3. Effect[a] = IF Sends(a) THEN plan.attrs[a] ELSE old[a]
    BY <2>1, UpsertedType
  <2>4. plan.attrs[a] = PlannedAt(a)
    BY DEF IInv, PlanFollowsConfig, Calls
  <2>5. CASE ~Sends(a)
    BY <2>1, <2>2, <2>3, <2>5, ShownType DEF Keeps, Shown
  <2>6. CASE Sends(a)
    <3>1. pc = "update" /\ plan.attrs[a] = state.attrs[a] /\ plan.attrs[a] # Null
      BY <2>4, <2>6 DEF PlannedAt, Sends
    <3>2. state.attrs[a] = Shown(old)[a]
      BY <2>1, <3>1 DEF IInv, RefreshIsTrue, StateFollowsCommand
    <3>3. Effect[a] = old[a]
      BY <2>1, <2>3, <2>6, <3>1, <3>2, ShownType
    <3> QED BY <2>1, <2>2, <3>3, ShownType DEF Keeps, Shown
  <2> QED BY <2>5, <2>6
<1> QED BY <1>1, <1>2, WriteStep

(* An undisturbed apply changes only what is declared.                     *)
THEOREM OmittedSurvives == Spec => OmittedIsKept
<1>1. IInv /\ [Next]_vars => [OmittedKept]_vars
  BY WriteKeepsOmitted
<1>2. Spec => [][OmittedKept]_vars
  BY <1>1, Invariant, PTL DEF Spec
<1> QED BY <1>2 DEF OmittedIsKept, OmittedKept

-----------------------------------------------------------------------------
(* The plan after an apply *)

\* What the next refresh makes of the state, and the plan from there.
Refreshed == [name |-> state.name, attrs |-> Shown(srv[state.name])]
After == INSTANCE QosResource WITH state <- Refreshed

\* Does the configuration say what an attribute is?  (Else it is computed.)
Says(a) == config.attrs[a] # Null \/ a \notin Computed

\* What an apply stored is what the configuration says; the read-back of a
\* create showed the rest, and every attribute that is not a TRES limit.
StoredAsConfigured ==
  /\ pc = "update" => ~tainted
  /\ pc = "idle" /\ result \in {"created", "updated"} =>
       /\ ~tainted /\ config # NoQos /\ state # NoQos /\ state.name = config.name
       /\ \A a \in Attributes : Says(a) => state.attrs[a] = config.attrs[a]
  /\ pc = "idle" /\ result = "created" /\ quiet =>
       \A a \in Attributes : config.attrs[a] = Null => state.attrs[a] = Shown(srv[state.name])[a]

\* After an apply that nothing disturbed, the next plan of the same
\* configuration is empty.  Left out are declared values that the round trip
\* loses and, after an update, an attribute that was withdrawn, is not computed
\* and is still shown.
SecondPlanIsEmpty ==
  /\ pc = "idle" /\ quiet /\ result \in {"created", "updated"}
  /\ Lost(config) = {}
  /\ result = "updated" =>
       \A a \in Attributes \ Computed : config.attrs[a] = Null => Shown(srv[state.name])[a] = Null
  => Live(srv[state.name]) /\ After!PlannedState = Refreshed /\ ~After!Destroys

\* The read-back stores what was planned, or the result is rejected.
LEMMA ReadBackStores == ASSUME IInv, ReadBack PROVE StoredAsConfigured'
<1>1. pc = "readBack" /\ pc' = "idle" /\ UNCHANGED <<config, srv, plan, quiet>>
  BY DEF ReadBack, End
<1>2. CASE ~Live(srv[plan.name])
  BY <1>1, <1>2 DEF ReadBack, End, StoredAsConfigured
<1>3. CASE Live(srv[plan.name])
  <2>1. PICK answer \in Answers :
          /\ state' = [name |-> plan.name, attrs |-> Preserve(answer)]
          /\ tainted' = ~Consistent(Preserve(answer))
          /\ result' = IF Consistent(Preserve(answer)) THEN "created" ELSE "inconsistent"
    BY <1>3 DEF ReadBack, End
  <2>2. CASE ~Consistent(Preserve(answer))
    BY <1>1, <2>1, <2>2 DEF StoredAsConfigured
  <2>3. CASE Consistent(Preserve(answer))
    <3>1. /\ config # NoQos /\ plan.name = config.name
          /\ \A a \in Attributes : plan.attrs[a] = IF Says(a) THEN config.attrs[a] ELSE Unknown
      BY <1>1 DEF IInv, PlanFollowsConfig, PlannedAt, Says
    <3>2. config \in Model /\ plan \in PlanModel
      BY <1>1, <3>1, ModelTypes, PreserveType, <1>3 DEF IInv
    <3>3. \A a \in Attributes : Says(a) => Preserve(answer)[a] = config.attrs[a]
      BY <2>3, <3>1, <3>2, QosAssumption DEF Consistent, Model, Row
    <3>4. \A a \in Attributes : config.attrs[a] = Null =>
             Preserve(answer)[a] = Shown(srv[plan.name])[a]
      BY <1>1, <1>3, <3>1, PreserveType
    <3>5. state' # NoQos /\ state'.name = config.name /\ state'.attrs = Preserve(answer) /\ ~tainted'
      <4>1. state' \in Model
        BY <1>1, <1>3, <2>1, <3>2, PreserveType DEF Model, PlanModel
      <4> QED BY <2>1, <2>3, <3>1, <4>1, QosAssumption
    <3>6. \A a \in Attributes : config.attrs[a] = Null =>
             state'.attrs[a] = Shown(srv[state'.name])[a]
      BY <3>1, <3>4, <3>5
    <3> QED BY <1>1, <3>1, <3>3, <3>5, <3>6 DEF StoredAsConfigured, Says, Shown
  <2> QED BY <2>2, <2>3
<1> QED BY <1>2, <1>3

LEMMA StepStoresAsConfigured ==
  IInv /\ StoredAsConfigured /\ [Next]_vars => StoredAsConfigured'
<1> SUFFICES ASSUME IInv, StoredAsConfigured, [Next]_vars PROVE StoredAsConfigured'
  OBVIOUS
<1>1. CASE UNCHANGED vars
  BY <1>1 DEF vars, StoredAsConfigured, Says, Shown
<1>2. CASE StartPlan \/ StartImport \/ Read \/ EditConfig \/ Fail \/ Refused
  BY <1>2 DEF StartPlan, StartImport, Start, Read, EditConfig, Fail, Refused, End, StoredAsConfigured
<1>3. CASE DeleteQOS \/ CreateQOS
  BY <1>3 DEF DeleteQOS, CreateQOS, End, StoredAsConfigured
<1>4. CASE Plan
  BY <1>4 DEF Plan, End, Destroys, StoredAsConfigured
<1>5. CASE Update
  <2>1. /\ pc = "update" /\ state' = plan /\ pc' = "idle" /\ result' = "updated"
        /\ UNCHANGED <<config, tainted>>
    BY <1>5 DEF Update, End
  <2>2. /\ config # NoQos /\ plan # NoQos /\ plan.name = config.name
        /\ \A a \in Attributes : Says(a) => plan.attrs[a] = config.attrs[a]
    BY <2>1 DEF IInv, PlanFollowsConfig, PlannedAt, Says, Calls
  <2> QED BY <2>1, <2>2 DEF StoredAsConfigured, Says
<1>6. CASE Interfere
  BY <1>6 DEF Interfere, StoredAsConfigured, Says
<1>7. CASE ReadBack
  BY <1>7, ReadBackStores
<1> QED BY <1>1, <1>2, <1>3, <1>4, <1>5, <1>6, <1>7 DEF Next, Progress

LEMMA SpecStoresAsConfigured == Spec => []StoredAsConfigured
<1>1. Init => StoredAsConfigured
  BY DEF Init, StoredAsConfigured
<1> QED BY <1>1, StepStoresAsConfigured, Invariant, PTL DEF Spec

(* What the acceptance tests check of a few configurations: the plan after *)
(* an apply that nothing disturbed has nothing to do, although Update      *)
(* stores its plan unread and Create keeps limits it did not see.          *)
THEOREM SecondPlanHasNoDrift == Spec => []SecondPlanIsEmpty
<1>1. IInv /\ StoredAsConfigured => SecondPlanIsEmpty
  <2> SUFFICES ASSUME IInv, StoredAsConfigured,
                      pc = "idle", quiet, result \in {"created", "updated"}, Lost(config) = {},
                      result = "updated" => \A a \in Attributes \ Computed :
                        config.attrs[a] = Null => Shown(srv[state.name])[a] = Null
               PROVE  Live(srv[state.name]) /\ After!PlannedState = Refreshed /\ ~After!Destroys
    BY DEF SecondPlanIsEmpty
  <2>1. /\ ~tainted /\ config # NoQos /\ state # NoQos /\ state.name = config.name
        /\ \A a \in Attributes : Says(a) => state.attrs[a] = config.attrs[a]
        /\ result = "created" => \A a \in Attributes :
             config.attrs[a] = Null => state.attrs[a] = Shown(srv[state.name])[a]
    BY DEF StoredAsConfigured
  <2>2. InForce(state, Lost(state)) /\ Live(srv[state.name])
    BY DEF IInv, ApplyIsInForce, InForce
  <2>3. state \in Model /\ config \in Model /\ srv[state.name] \in Row
    BY <2>1, <2>2, ModelTypes, LiveIsRow DEF IInv
  <2>4. ASSUME NEW a \in Attributes, Says(a)
        PROVE  Shown(srv[state.name])[a] = config.attrs[a]
    <3>1. CASE config.attrs[a] # Null
      <4>1. a \notin Lost(state)
        BY <2>1, <2>4 DEF Lost
      <4> QED BY <2>1, <2>2, <2>4, <3>1, <4>1 DEF InForce
    <3>2. CASE config.attrs[a] = Null
      BY <2>1, <2>4, <3>2 DEF Says
    <3> QED BY <3>1, <3>2
  <2>5. Refreshed \in Model /\ Refreshed # NoQos
    BY <2>3, ShownType, QosAssumption DEF Refreshed, Model
  <2>6. ~After!Destroys
    BY <2>1, <2>5 DEF After!Destroys, Refreshed
  <2>7. ASSUME NEW a \in Attributes PROVE After!Planned(a) = Refreshed.attrs[a]
    BY <2>4, <2>5, <2>6, <2>7 DEF After!Planned, Refreshed, Says
  <2>8. Refreshed.attrs = [a \in Attributes |-> After!Planned(a)]
    BY <2>5, <2>7 DEF Model, Row
  <2>9. After!PlannedState = Refreshed
    BY <2>1, <2>8 DEF After!PlannedState, Refreshed
  <2> QED BY <2>2, <2>6, <2>9
<1> QED BY <1>1, SpecStoresAsConfigured, Invariant, PTL
=============================================================================
