------------------------- MODULE UserResourceProofs -------------------------
(***************************************************************************)
(* Theorems about UserResource, for every choice of accounts, partitions,  *)
(* attributes, values and configurations, every server behaviour the model *)
(* leaves open, and every number of faults.                                *)
(***************************************************************************)
EXTENDS UserResource, TLAPS

-----------------------------------------------------------------------------
(* The inductive invariant *)

\* What TypeOK says of slurmdbd.
GoodServer(s) ==
  /\ s \in Server
  /\ s.user \/ s = NoServerUser
  /\ s.default # Null => HasAccountAssociation(s.assocs, s.default)

CreateCalls == {"create", "createAttrs", "createAssocs"}
UpdateCalls == {"updCreate", "updUser", "updAssocs", "updDelete"}

\* What the guards of Create, Update and Delete leave behind them.
PlanChecked ==
  /\ pc \in CreateCalls => plan # NoUser /\ HasAccountAssociation(plan.assocs, plan.default)
  /\ pc \in UpdateCalls =>
       /\ plan # NoUser /\ state # NoUser
       /\ HasAccountAssociation(plan.assocs, plan.default)
       /\ todo \subseteq DiffDelete(state.assocs, plan.assocs)
  /\ pc = "planned" => plan # state
  /\ pc = "delete" => plan = NoUser

\* Until the user is updated, slurmdbd holds what the refresh stored.
RefreshedInPlace ==
  quiet /\ state # NoUser /\ pc \in {"refreshed", "planned", "updCreate"} =>
    /\ Keys(state.assocs) \subseteq Keys(srv.assocs)
    /\ srv.default \in {state.default, Null}

\* The new associations exist before the user is updated, in Create and Update.
NewDefaultInPlace ==
  /\ quiet /\ pc = "createAttrs" => HasAccountAssociation(srv.assocs, plan.default)
  /\ quiet /\ pc = "updUser" => Keys(plan.assocs) \subseteq Keys(srv.assocs)

\* From then on the default account survives all the deletes still to come.
DefaultSurvives ==
  quiet /\ pc \in {"updAssocs", "updDelete"} /\ srv.default # Null =>
    HasAccountAssociation(Without(srv, todo), srv.default)

IInv == TypeOK /\ PlanChecked /\ RefreshedInPlace /\ NewDefaultInPlace /\ DefaultSurvives

-----------------------------------------------------------------------------
(* Keys and rows *)

LEMMA KeyFacts ==
  /\ \A k \in Key : k[1] \in Accounts
  /\ \A a \in Accounts : <<a, NoPartition>> \in Key /\ <<a, NoPartition>>[1] = a
BY DEF Key

LEMMA RowFacts ==
  /\ Blank \in ServerRow
  /\ NoAssoc \notin ServerRow
  /\ Imported \in Model
  /\ GoodServer(NoServerUser)
  /\ Keys(NoAssocs) = {}
<1>1. Blank \in ServerRow /\ NoAssoc \notin ServerRow
  BY ConstantsAssumption DEF Blank, ServerRow, Attrs
<1>2. Imported \in Model
  BY DEF Imported, Model, NoAssocs, AssocMap
<1>3. GoodServer(NoServerUser)
  <2>1. NoServerUser \in Server
    BY ConstantsAssumption DEF NoServerUser, Server, NoAssocs
  <2>2. NoServerUser.default = Null
    BY DEF NoServerUser
  <2> QED BY <2>1, <2>2 DEF GoodServer
<1>4. Keys(NoAssocs) = {}
  BY DEF Keys, NoAssocs
<1> QED BY <1>1, <1>2, <1>3, <1>4

\* An account with an association is an account, never Null.
LEMMA HasAccountIsAccount ==
  ASSUME NEW m, NEW a, HasAccountAssociation(m, a)
  PROVE  a \in Accounts /\ a # Null
BY KeyFacts, ConstantsAssumption DEF HasAccountAssociation, Keys

LEMMA UpsertedIsRow ==
  ASSUME NEW row \in ServerRow \cup {NoAssoc}, NEW a \in Attrs
  PROVE  Upserted(row, a) \in ServerRow
<1> SUFFICES ASSUME NEW f \in Fields
             PROVE  (IF Wire(a[f]) # Null THEN a[f]
                     ELSE IF row = NoAssoc THEN Null ELSE row[f]) \in Values \cup {Null}
  BY DEF Upserted, ServerRow
<1>1. CASE Wire(a[f]) # Null
  BY <1>1 DEF Wire, Attrs
<1>2. CASE Wire(a[f]) = Null
  BY <1>2 DEF ServerRow
<1> QED BY <1>1, <1>2

-----------------------------------------------------------------------------
(* What each request may leave behind *)

LEMMA CreateUserGood ==
  ASSUME NEW s, GoodServer(s), NEW a \in Accounts, NEW t \in ServerCreateUser(s, a)
  PROVE  /\ GoodServer(t)
         /\ HasAccountAssociation(t.assocs, a)
         /\ \A k \in Keys(s.assocs) : t.assocs[k] = s.assocs[k]
<1> DEFINE base == IF s.user THEN s ELSE [NoServerUser EXCEPT !.user = TRUE]
           key  == <<a, NoPartition>>
           add  == [base.assocs EXCEPT ![key] = IF @ = NoAssoc THEN Blank ELSE @]
<1>1. key \in Key /\ key[1] = a
  BY KeyFacts
<1>2. base \in Server /\ base.user
  BY RowFacts DEF GoodServer, Server
<1>3. base.assocs = s.assocs /\ base.default = s.default
  BY DEF GoodServer, NoServerUser
<1>4. add \in [Key -> ServerRow \cup {NoAssoc}] /\ key \in Keys(add)
  BY <1>1, <1>2, RowFacts DEF Server, Keys
<1>5. \A k \in Keys(base.assocs) : add[k] = base.assocs[k]
  BY <1>1, <1>2 DEF Server, Keys
<1>6. PICK d \in ({a, base.default} \ {Null}) :
             t = [base EXCEPT !.assocs = add, !.default = d]
  BY DEF ServerCreateUser
<1>7. d \in Accounts
  BY <1>2, <1>6 DEF Server
<1>8. t \in Server /\ t.user /\ t.assocs = add /\ t.default = d
  BY <1>2, <1>4, <1>6, <1>7 DEF Server
<1>9. HasAccountAssociation(add, a)
  BY <1>1, <1>4 DEF HasAccountAssociation
<1>10. HasAccountAssociation(add, d)
  <2>1. CASE d = a
    BY <2>1, <1>9
  <2>2. CASE d = base.default /\ d # Null
    <3>1. HasAccountAssociation(base.assocs, d)
      BY <2>2, <1>3 DEF GoodServer
    <3>2. Keys(base.assocs) \subseteq Keys(add)
      BY <1>5 DEF Keys
    <3> QED BY <3>1, <3>2 DEF HasAccountAssociation
  <2> QED BY <2>1, <2>2, <1>6
<1> QED BY <1>3, <1>5, <1>8, <1>9, <1>10 DEF GoodServer

LEMMA UpdateUserGood ==
  ASSUME NEW s, GoodServer(s), NEW p \in Model, NEW t \in ServerUpdateUser(s, p)
  PROVE  GoodServer(t) /\ t.assocs = s.assocs /\ t.default = p.default
<1>1. s.user /\ HasAccountAssociation(s.assocs, p.default)
  BY DEF ServerUpdateUser
<1>2. t = [s EXCEPT !.default = p.default,
                    !.admin   = IF p.admin = Null THEN @ ELSE p.admin,
                    !.wckey   = IF p.wckey = Null THEN @ ELSE p.wckey]
  BY <1>1 DEF ServerUpdateUser
<1>3. t \in Server /\ t.user /\ t.assocs = s.assocs /\ t.default = p.default
  BY <1>1, <1>2 DEF GoodServer, Server, Model
<1> QED BY <1>1, <1>3 DEF GoodServer

LEMMA UpsertGood ==
  ASSUME NEW s, GoodServer(s), NEW m \in AssocMap, NEW ks \in SUBSET Keys(m),
         NEW t \in ServerUpsert(s, ks, m)
  PROVE  /\ GoodServer(t)
         /\ Keys(t.assocs) = Keys(s.assocs) \cup ks
         /\ \/ t.default = s.default
            \/ s.default = Null /\ \E k \in ks : t.default = k[1]
         /\ \A k \in Key \ ks : t.assocs[k] = s.assocs[k]
         /\ \A k \in ks : t.assocs[k] = Upserted(s.assocs[k], m[k])
<1> DEFINE rows == [k \in Key |-> IF k \in ks THEN Upserted(s.assocs[k], m[k]) ELSE s.assocs[k]]
<1>1. s.user /\ s \in Server
  BY DEF ServerUpsert, GoodServer
<1>2. PICK d \in (IF s.default = Null THEN {Null} \cup {k[1] : k \in ks} ELSE {s.default}) :
             t = [s EXCEPT !.assocs = rows, !.default = d]
  BY <1>1 DEF ServerUpsert
<1>3. ks \subseteq Key
  BY DEF Keys
<1>4. ASSUME NEW k \in ks PROVE Upserted(s.assocs[k], m[k]) \in ServerRow
  <2>1. m[k] \in Attrs
    BY <1>4 DEF Keys, AssocMap
  <2>2. s.assocs[k] \in ServerRow \cup {NoAssoc}
    BY <1>1, <1>3, <1>4 DEF Server
  <2> QED BY <2>1, <2>2, UpsertedIsRow
<1>5. rows \in [Key -> ServerRow \cup {NoAssoc}]
  BY <1>1, <1>4 DEF Server
<1>6. Keys(rows) = Keys(s.assocs) \cup ks
  BY <1>3, <1>4, RowFacts DEF Keys
<1>7. d \in Accounts \cup {Null}
  BY <1>1, <1>2, <1>3, KeyFacts DEF Server
<1>8. t \in Server /\ t.user /\ t.assocs = rows /\ t.default = d
  BY <1>1, <1>2, <1>5, <1>7 DEF Server
<1>9. d # Null => HasAccountAssociation(rows, d)
  <2>1. CASE s.default # Null
    BY <2>1, <1>2, <1>6 DEF GoodServer, HasAccountAssociation
  <2>2. CASE s.default = Null
    BY <2>2, <1>2, <1>6 DEF HasAccountAssociation
  <2> QED BY <2>1, <2>2
<1>10. \A k \in Key \ ks : t.assocs[k] = s.assocs[k]
  BY <1>8
<1>11. \A k \in ks : t.assocs[k] = Upserted(s.assocs[k], m[k])
  BY <1>3, <1>8
<1> QED BY <1>2, <1>6, <1>8, <1>9, <1>10, <1>11 DEF GoodServer

LEMMA DeleteGood ==
  ASSUME NEW s, GoodServer(s), NEW k \in Key, NEW t \in ServerDelete(s, k)
  PROVE  /\ GoodServer(t)
         /\ t.default = s.default
         /\ t.assocs = Without(s, Selected(s, k))
<1>1. t = [s EXCEPT !.assocs = Without(s, Selected(s, k))]
  BY DEF ServerDelete
<1>2. s.default = Null \/ HasAccountAssociation(Without(s, Selected(s, k)), s.default)
  BY DEF ServerDelete
<1>3. Without(s, Selected(s, k)) \in [Key -> ServerRow \cup {NoAssoc}]
  BY DEF GoodServer, Server, Without
<1>4. t \in Server /\ t.default = s.default /\ t.assocs = Without(s, Selected(s, k)) /\ t.user = s.user
  BY <1>1, <1>3 DEF GoodServer, Server
<1>5. ~s.user => t = NoServerUser
  <2> SUFFICES ASSUME ~s.user PROVE t = NoServerUser
    OBVIOUS
  <2>1. s = NoServerUser
    BY DEF GoodServer
  <2>2. Without(s, Selected(s, k)) = NoAssocs
    BY <2>1 DEF Without, NoServerUser, NoAssocs
  <2> QED BY <1>1, <2>1, <2>2 DEF NoServerUser
<1> QED BY <1>2, <1>4, <1>5 DEF GoodServer

-----------------------------------------------------------------------------
(* What the other operators return *)

LEMMA TypeOKGood == TypeOK => GoodServer(srv)
BY DEF TypeOK, GoodServer

LEMMA ConfigIsModel == TypeOK => config \in Model \cup {NoUser}
BY ConstantsAssumption DEF TypeOK

LEMMA PlannedIsModel ==
  ASSUME NEW c \in Model \cup {NoUser}, NEW st \in Model \cup {NoUser}
  PROVE  Planned(c, st) \in Model \cup {NoUser}
BY DEF Planned, Model

\* A refresh stores every row slurmdbd has, and its default account if any.
LEMMA ReadModelFacts ==
  ASSUME NEW prior \in Model, NEW s, GoodServer(s),
         NEW u \in [admin : AdminLevels, wckey : WCKeys \cup {Null}]
  PROVE  /\ ReadModel(prior, u, s) \in Model
         /\ Keys(ReadModel(prior, u, s).assocs) = Keys(s.assocs)
         /\ s.default # Null => ReadModel(prior, u, s).default = s.default
<1> DEFINE rows == APIAssociationsToState(prior.assocs, s)
<1>1. ASSUME NEW k \in Keys(s.assocs)
      PROVE  [f \in Fields |-> ReadField(prior.assocs[k], f, APIValue(s, k, f))] \in Attrs
  <2> SUFFICES ASSUME NEW f \in Fields
               PROVE  ReadField(prior.assocs[k], f, APIValue(s, k, f)) \in Values \cup {Null, EmptyList}
    BY DEF Attrs
  <2>1. s.assocs[k] \in ServerRow
    BY <1>1 DEF GoodServer, Server, Keys
  <2>2. APIValue(s, k, f) \in Values \cup {Null}
    BY <2>1, ConstantsAssumption DEF APIValue, ServerRow
  <2> QED BY <2>2 DEF ReadField
<1>2. rows \in AssocMap
  BY <1>1 DEF APIAssociationsToState, AssocMap, Keys
<1>3. Keys(rows) = Keys(s.assocs)
  BY <1>1, ConstantsAssumption DEF APIAssociationsToState, Keys
<1>4. s.default \in Accounts \cup {Null}
  BY DEF GoodServer, Server
<1>5. /\ ReadModel(prior, u, s) \in Model
      /\ ReadModel(prior, u, s).assocs = rows
  BY <1>2, <1>4 DEF ReadModel, Model
<1>6. s.default # Null => ReadModel(prior, u, s).default = s.default
  BY DEF ReadModel, GoodServer
<1> QED BY <1>3, <1>5, <1>6

LEMMA DiffFacts ==
  ASSUME NEW old \in AssocMap, NEW new \in AssocMap
  PROVE  /\ DiffCreate(old, new) \subseteq Keys(new)
         /\ DiffUpdate(old, new) \subseteq Keys(new)
         /\ Keys(new) \subseteq Keys(old) \cup DiffCreate(old, new)
         /\ DiffDelete(old, new) \cap Keys(new) = {}
         /\ DiffDelete(old, new) \subseteq Key
BY DEF DiffCreate, DiffUpdate, DiffDelete, Keys

\* Which request a call makes, and with what.
LEMMA CallRequests ==
  ASSUME TypeOK, PlanChecked, pc \in Calls, NEW t \in CallEffects
  PROVE  \/ plan.default \in Accounts /\ t \in ServerCreateUser(srv, plan.default)
         \/ \E p \in Model : t \in ServerUpdateUser(srv, p)
         \/ /\ plan.assocs \in AssocMap
            /\ \E ks \in SUBSET Keys(plan.assocs) : t \in ServerUpsert(srv, ks, plan.assocs)
         \/ pc = "updDelete" /\ \E k \in todo : t \in ServerDelete(srv, k)
         \/ plan = NoUser /\ t = NoServerUser
<1>0. plan \in Model \cup {NoUser}
  BY DEF TypeOK
<1>1. CASE pc = "create"
  <2>1. CallEffects = ServerCreateUser(srv, plan.default)
    BY <1>1 DEF CallEffects, Upserts, Batch
  <2> QED BY <1>1, <2>1, HasAccountIsAccount DEF PlanChecked, CreateCalls
<1>2. CASE pc = "createAttrs"
  <2>1. CreateAttrsBody(plan) \in Model
    BY <1>0, <1>2 DEF PlanChecked, CreateCalls, CreateAttrsBody, Model
  <2>2. CallEffects = ServerUpdateUser(srv, CreateAttrsBody(plan))
    BY <1>2 DEF CallEffects, Upserts, Batch
  <2> QED BY <2>1, <2>2
<1>3. ASSUME NEW ks \in SUBSET Keys(plan.assocs), plan # NoUser,
             CallEffects = ServerPartialUpsert(srv, ks, plan.assocs)
      PROVE  /\ plan.assocs \in AssocMap
             /\ \E part \in SUBSET Keys(plan.assocs) : t \in ServerUpsert(srv, part, plan.assocs)
  BY <1>0, <1>3 DEF ServerPartialUpsert, Model
<1>4. CASE pc = "createAssocs"
  <2>1. CallEffects = ServerPartialUpsert(srv, Keys(plan.assocs), plan.assocs)
    BY <1>4 DEF CallEffects, Upserts, Batch
  <2> QED BY <1>3, <1>4, <2>1 DEF PlanChecked, CreateCalls
<1>5. CASE pc = "updCreate"
  <2>1. CallEffects = ServerPartialUpsert(srv, DiffCreate(state.assocs, plan.assocs), plan.assocs)
    BY <1>5 DEF CallEffects, Upserts, Batch
  <2>2. DiffCreate(state.assocs, plan.assocs) \in SUBSET Keys(plan.assocs)
    BY DEF DiffCreate
  <2> QED BY <1>3, <1>5, <2>1, <2>2 DEF PlanChecked, UpdateCalls
<1>6. CASE pc = "updUser"
  <2>1. CallEffects = ServerUpdateUser(srv, plan)
    BY <1>6 DEF CallEffects, Upserts, Batch
  <2> QED BY <1>0, <1>6, <2>1 DEF PlanChecked, UpdateCalls
<1>7. CASE pc = "updAssocs"
  <2>1. CallEffects = ServerPartialUpsert(srv, DiffUpdate(state.assocs, plan.assocs), plan.assocs)
    BY <1>7 DEF CallEffects, Upserts, Batch
  <2>2. DiffUpdate(state.assocs, plan.assocs) \in SUBSET Keys(plan.assocs)
    BY DEF DiffUpdate
  <2> QED BY <1>3, <1>7, <2>1, <2>2 DEF PlanChecked, UpdateCalls
<1>8. CASE pc = "updDelete"
  <2>1. CallEffects = UNION {ServerDelete(srv, k) : k \in todo}
    BY <1>8 DEF CallEffects, Upserts, Batch
  <2> QED BY <1>8, <2>1
<1>9. CASE pc = "delete"
  <2>1. CallEffects = {NoServerUser}
    BY <1>9 DEF CallEffects, Upserts, Batch
  <2> QED BY <1>9, <2>1 DEF PlanChecked
<1> QED BY <1>1, <1>2, <1>4, <1>5, <1>6, <1>7, <1>8, <1>9 DEF Calls

\* With a well-typed server and a checked plan, every request leaves the
\* server well-typed.
LEMMA CallEffectsGood ==
  ASSUME TypeOK, PlanChecked, pc \in Calls, NEW t \in CallEffects
  PROVE  GoodServer(t)
<1>1. GoodServer(srv) /\ todo \subseteq Key
  BY TypeOKGood DEF TypeOK
<1> QED BY <1>1, CallRequests, CreateUserGood, UpdateUserGood, UpsertGood, DeleteGood, RowFacts

-----------------------------------------------------------------------------
(* IInv is inductive *)

LEMMA InitIInv == Init => IInv
<1> SUFFICES ASSUME Init PROVE IInv
  OBVIOUS
<1>1. UserObject(NoServerUser) \in [admin : AdminLevels, wckey : WCKeys \cup {Null}]
  BY ConstantsAssumption DEF UserObject, APIWCKey, NoServerUser
<1>2. TypeOK
  <2>1. edits \in 0..MaxEdits /\ faults \in 0..MaxFaults /\ interferences \in 0..MaxInterference
    BY ConstantsAssumption DEF Init
  <2>2. pc \in PCs /\ result \in Results
    BY DEF Init, PCs, Results
  <2>3. quiet \in BOOLEAN /\ foreign \in BOOLEAN
    BY DEF Init
  <2>4. GoodServer(srv)
    BY RowFacts DEF Init
  <2> QED BY <1>1, <2>1, <2>2, <2>3, <2>4 DEF Init, TypeOK, GoodServer
<1> QED BY <1>2 DEF Init, IInv, PlanChecked, RefreshedInPlace, NewDefaultInPlace,
             DefaultSurvives, CreateCalls, UpdateCalls

\* A step that ends the command, whatever it left on the server: only the
\* types remain to be shown.
LEMMA EndingStep ==
  ASSUME TypeOK', pc' = "idle"
  PROVE  IInv'
BY DEF IInv, PlanChecked, RefreshedInPlace, NewDefaultInPlace, DefaultSurvives,
       CreateCalls, UpdateCalls

\* The steps of Terraform core and of Read.
LEMMA PlanningStep ==
  ASSUME IInv, \/ ValidateConfig \/ StartPlan \/ StartImport \/ ReadGetUser
               \/ ReadGetAssociations \/ Plan \/ EditConfig
  PROVE  IInv'
<1> USE DEF IInv
<1>1. CASE ValidateConfig
  <2>1. TypeOK'
    BY <1>1 DEF ValidateConfig, End, TypeOK, PCs, Results, env
  <2> QED BY <1>1, <2>1, EndingStep DEF ValidateConfig, End
<1>2. CASE StartPlan
  <2>1. TypeOK'
    BY <1>2 DEF StartPlan, TypeOK, PCs, Results, env
  <2> QED BY <1>2, <2>1 DEF StartPlan, PlanChecked, RefreshedInPlace, NewDefaultInPlace,
             DefaultSurvives, CreateCalls, UpdateCalls
<1>3. CASE StartImport
  <2>1. TypeOK'
    BY <1>3 DEF StartImport, TypeOK, PCs, Results, env
  <2> QED BY <1>3, <2>1 DEF StartImport, PlanChecked, RefreshedInPlace, NewDefaultInPlace,
             DefaultSurvives, CreateCalls, UpdateCalls
<1>4. CASE ReadGetUser
  <2>1. UserObject(srv) \in [admin : AdminLevels, wckey : WCKeys \cup {Null}]
    BY TypeOKGood DEF UserObject, APIWCKey, GoodServer, Server
  <2>2. TypeOK'
    BY <1>4, <2>1 DEF ReadGetUser, End, TypeOK, PCs, Results, env
  <2> QED BY <1>4, <2>2 DEF ReadGetUser, End, PlanChecked, RefreshedInPlace, NewDefaultInPlace,
             DefaultSurvives, CreateCalls, UpdateCalls
<1>5. CASE ReadGetAssociations
  <2> DEFINE model == ReadModel(Prior, seen, srv)
  <2>1. Prior \in Model /\ GoodServer(srv)
    BY RowFacts, TypeOKGood DEF Prior, TypeOK
  <2>2. /\ model \in Model
        /\ Keys(model.assocs) = Keys(srv.assocs)
        /\ srv.default # Null => model.default = srv.default
    BY <2>1, ReadModelFacts DEF TypeOK
  <2>3. TypeOK'
    BY <1>5, <2>2 DEF ReadGetAssociations, End, TypeOK, PCs, Results, env
  <2>4. RefreshedInPlace'
    BY <1>5, <2>2 DEF ReadGetAssociations, RefreshedInPlace
  <2> QED BY <1>5, <2>3, <2>4 DEF ReadGetAssociations, End, PlanChecked, NewDefaultInPlace,
             DefaultSurvives, CreateCalls, UpdateCalls
<1>6. CASE Plan
  <2>1. Planned(config, state) \in Model \cup {NoUser}
    BY ConfigIsModel, PlannedIsModel DEF TypeOK
  <2>2. TypeOK'
    BY <1>6, <2>1 DEF Plan, End, TypeOK, PCs, Results, env
  <2>3. RefreshedInPlace'
    BY <1>6 DEF Plan, End, RefreshedInPlace
  <2> QED BY <1>6, <2>2, <2>3 DEF Plan, End, PlanChecked, NewDefaultInPlace,
             DefaultSurvives, CreateCalls, UpdateCalls
<1>7. CASE EditConfig
  <2>1. TypeOK'
    BY <1>7, ConstantsAssumption DEF EditConfig, TypeOK, Results
  <2> QED BY <1>7, <2>1, EndingStep DEF EditConfig
<1> QED BY <1>1, <1>2, <1>3, <1>4, <1>5, <1>6, <1>7

LEMMA CreateStep == ASSUME IInv, Create PROVE IInv'
<1> USE DEF IInv
<1>1. CASE ApplyCreate
  <2>1. TypeOK'
    BY <1>1 DEF ApplyCreate, End, TypeOK, PCs, Calls, Results, env
  <2>2. PlanChecked'
    BY <1>1 DEF ApplyCreate, End, PlanChecked, ValidConfig, CreateCalls, UpdateCalls
  <2> QED BY <1>1, <2>1, <2>2 DEF ApplyCreate, End, RefreshedInPlace, NewDefaultInPlace,
             DefaultSurvives
<1>2. CASE CreateUserWithAssociation
  <2>1. plan # NoUser /\ plan.default \in Accounts
    BY <1>2, HasAccountIsAccount DEF CreateUserWithAssociation, PlanChecked, CreateCalls
  <2>2. GoodServer(srv') /\ HasAccountAssociation(srv'.assocs, plan.default)
    BY <1>2, <2>1, TypeOKGood, CreateUserGood DEF CreateUserWithAssociation
  <2>3. TypeOK'
    BY <1>2, <2>2 DEF CreateUserWithAssociation, TypeOK, GoodServer, Server, PCs, Calls, env
  <2>4. PlanChecked'
    BY <1>2 DEF CreateUserWithAssociation, PlanChecked, CreateCalls, UpdateCalls
  <2> QED BY <1>2, <2>2, <2>3, <2>4 DEF CreateUserWithAssociation, RefreshedInPlace,
             NewDefaultInPlace, DefaultSurvives
<1>3. CASE CreateUpdateUser
  <2>1. CreateAttrsBody(plan) \in Model
    BY <1>3 DEF CreateUpdateUser, PlanChecked, CreateCalls, CreateAttrsBody, TypeOK, Model
  <2>2. GoodServer(srv')
    BY <1>3, <2>1, TypeOKGood, UpdateUserGood DEF CreateUpdateUser
  <2>3. TypeOK'
    BY <1>3, <2>2 DEF CreateUpdateUser, TypeOK, GoodServer, PCs, Calls, env
  <2>4. PlanChecked'
    BY <1>3 DEF CreateUpdateUser, PlanChecked, CreateCalls, UpdateCalls
  <2> QED BY <1>3, <2>3, <2>4 DEF CreateUpdateUser, RefreshedInPlace, NewDefaultInPlace,
             DefaultSurvives
<1>4. CASE CreateAssociations
  <2>1. plan \in Model
    BY <1>4 DEF CreateAssociations, PlanChecked, CreateCalls, TypeOK
  <2>2. GoodServer(srv')
    BY <1>4, <2>1, TypeOKGood, UpsertGood DEF CreateAssociations, Model
  <2>3. [plan EXCEPT !.admin = IF @ = Null THEN NoneLevel ELSE @] \in Model
    BY <2>1, ConstantsAssumption DEF Model
  <2>4. TypeOK'
    BY <1>4, <2>2, <2>3 DEF CreateAssociations, End, TypeOK, GoodServer, PCs, Results, env
  <2> QED BY <1>4, <2>4, EndingStep DEF CreateAssociations, End
<1> QED BY <1>1, <1>2, <1>3, <1>4 DEF Create

\* What the plan and the refreshed state are while an update runs.
LEMMA UpdateFacts ==
  ASSUME IInv, pc \in UpdateCalls
  PROVE  /\ plan \in Model /\ state \in Model
         /\ plan.assocs \in AssocMap /\ state.assocs \in AssocMap
         /\ HasAccountAssociation(plan.assocs, plan.default)
         /\ todo \subseteq DiffDelete(state.assocs, plan.assocs)
         /\ GoodServer(srv)
BY TypeOKGood DEF IInv, TypeOK, PlanChecked, Model

\* Once every planned row exists, the planned accounts survive the deletes.
LEMMA PlannedSurvive ==
  ASSUME NEW s, NEW m, NEW ks, Keys(m) \subseteq Keys(s.assocs), ks \cap Keys(m) = {},
         NEW a, HasAccountAssociation(m, a)
  PROVE  HasAccountAssociation(Without(s, ks), a)
BY DEF HasAccountAssociation, Without, Keys

LEMMA UpdateStep == ASSUME IInv, Update PROVE IInv'
<1> USE DEF IInv
<1>1. CASE ApplyUpdate
  <2>0. plan \in Model /\ state \in Model /\ plan.assocs \in AssocMap /\ state.assocs \in AssocMap
    BY <1>1 DEF ApplyUpdate, TypeOK, Model
  <2>1. CASE ~HasAccountAssociation(plan.assocs, plan.default)
    <3>1. TypeOK'
      BY <1>1, <2>1 DEF ApplyUpdate, End, TypeOK, PCs, Results, env
    <3> QED BY <1>1, <2>1, <3>1, EndingStep DEF ApplyUpdate, End
  <2>2. CASE HasAccountAssociation(plan.assocs, plan.default)
    <3>1. pc' = FirstCall /\ FirstCall \in UpdateCalls /\ todo' = DiffDelete(state.assocs, plan.assocs)
      BY <1>1, <2>2 DEF ApplyUpdate, FirstCall, AfterCreate, AfterUser, UpdateCalls
    <3>2. TypeOK'
      BY <1>1, <2>0, <2>2, <3>1, DiffFacts DEF ApplyUpdate, TypeOK, PCs, Calls, UpdateCalls, env
    <3>3. PlanChecked'
      BY <1>1, <2>2, <3>1 DEF ApplyUpdate, PlanChecked, UpdateCalls, CreateCalls
    <3>4. RefreshedInPlace'
      BY <1>1, <2>2 DEF ApplyUpdate, RefreshedInPlace
    <3>5. quiet /\ pc' # "updCreate" =>
            /\ Keys(plan.assocs) \subseteq Keys(srv.assocs)
            /\ srv.default \in {state.default, Null}
      BY <1>1, <2>0, <3>1, DiffFacts DEF ApplyUpdate, FirstCall, RefreshedInPlace
    <3>6. NewDefaultInPlace'
      BY <1>1, <2>2, <3>1, <3>5 DEF ApplyUpdate, NewDefaultInPlace, UpdateCalls
    <3>7. DefaultSurvives'
      <4> SUFFICES ASSUME quiet, pc' \in {"updAssocs", "updDelete"}, srv.default # Null
                   PROVE  HasAccountAssociation(Without(srv, todo'), srv.default)
        BY <1>1, <2>2 DEF ApplyUpdate, DefaultSurvives, Without
      <4>1. srv.default = plan.default
        BY <3>1, <3>5 DEF FirstCall, AfterCreate, UserChanged
      <4> QED BY <2>0, <2>2, <3>1, <3>5, <4>1, DiffFacts, PlannedSurvive
    <3> QED BY <3>2, <3>3, <3>4, <3>6, <3>7
  <2> QED BY <2>1, <2>2
<1>2. CASE UpdateCreateAssociations
  <2> DEFINE new == DiffCreate(state.assocs, plan.assocs)
  <2>1. pc = "updCreate" /\ pc \in UpdateCalls /\ pc' = AfterCreate
    BY <1>2 DEF UpdateCreateAssociations, UpdateCalls
  <2>2. /\ GoodServer(srv')
        /\ Keys(srv'.assocs) = Keys(srv.assocs) \cup new
        /\ srv'.default = srv.default \/ \E k \in new : srv'.default = k[1]
    BY <1>2, <2>1, UpdateFacts, DiffFacts, UpsertGood DEF UpdateCreateAssociations
  <2>3. pc' \in {"updUser", "updAssocs", "updDelete"}
    BY <2>1 DEF AfterCreate, AfterUser
  <2>4. TypeOK'
    BY <1>2, <2>2, <2>3 DEF UpdateCreateAssociations, TypeOK, GoodServer, PCs, Calls, env
  <2>5. PlanChecked'
    BY <1>2, <2>1, <2>3 DEF UpdateCreateAssociations, PlanChecked, UpdateCalls, CreateCalls
  <2>6. quiet => /\ Keys(plan.assocs) \subseteq Keys(srv'.assocs)
                 /\ srv.default \in {state.default, Null}
    BY <2>1, <2>2, UpdateFacts, DiffFacts DEF RefreshedInPlace, UpdateCalls, PlanChecked
  <2>7. DefaultSurvives'
    <3> SUFFICES ASSUME quiet, pc' \in {"updAssocs", "updDelete"}, srv'.default # Null
                 PROVE  HasAccountAssociation(Without(srv', todo), srv'.default)
      BY <1>2 DEF UpdateCreateAssociations, DefaultSurvives, Without
    <3>1. state.default = plan.default
      BY <2>1 DEF AfterCreate, UserChanged
    <3>2. HasAccountAssociation(plan.assocs, srv'.default)
      <4>1. CASE srv'.default = srv.default
        BY <2>1, <2>6, <3>1, <4>1, UpdateFacts
      <4>2. CASE \E k \in new : srv'.default = k[1]
        BY <2>1, <4>2, UpdateFacts, DiffFacts DEF HasAccountAssociation
      <4> QED BY <2>2, <4>1, <4>2
    <3> QED BY <2>1, <2>6, <3>2, UpdateFacts, DiffFacts, PlannedSurvive
  <2>8. NewDefaultInPlace' /\ RefreshedInPlace'
    BY <1>2, <2>3, <2>6 DEF UpdateCreateAssociations, NewDefaultInPlace, RefreshedInPlace
  <2> QED BY <2>4, <2>5, <2>7, <2>8
<1>3. CASE UpdateUser
  <2>1. pc = "updUser" /\ pc \in UpdateCalls /\ pc' = AfterUser
    BY <1>3 DEF UpdateUser, UpdateCalls
  <2>2. GoodServer(srv') /\ srv'.assocs = srv.assocs /\ srv'.default = plan.default
    BY <1>3, <2>1, UpdateFacts, UpdateUserGood DEF UpdateUser
  <2>3. pc' \in {"updAssocs", "updDelete"}
    BY <2>1 DEF AfterUser
  <2>4. TypeOK'
    BY <1>3, <2>2, <2>3 DEF UpdateUser, TypeOK, GoodServer, PCs, Calls, env
  <2>5. PlanChecked'
    BY <1>3, <2>1, <2>3 DEF UpdateUser, PlanChecked, UpdateCalls, CreateCalls
  <2>6. DefaultSurvives'
    <3> SUFFICES ASSUME quiet
                 PROVE  HasAccountAssociation(Without(srv', todo), srv'.default)
      BY <1>3 DEF UpdateUser, DefaultSurvives, Without
    <3>1. Keys(plan.assocs) \subseteq Keys(srv'.assocs)
      BY <2>1, <2>2 DEF NewDefaultInPlace
    <3> QED BY <2>1, <2>2, <3>1, UpdateFacts, DiffFacts, PlannedSurvive
  <2>7. NewDefaultInPlace' /\ RefreshedInPlace'
    BY <1>3, <2>3 DEF UpdateUser, NewDefaultInPlace, RefreshedInPlace
  <2> QED BY <2>4, <2>5, <2>6, <2>7
<1>4. CASE UpdateAssociations
  <2> DEFINE changed == DiffUpdate(state.assocs, plan.assocs)
  <2>1. pc = "updAssocs" /\ pc \in UpdateCalls /\ pc' = "updDelete"
    BY <1>4 DEF UpdateAssociations, UpdateCalls
  <2>2. /\ GoodServer(srv')
        /\ Keys(srv'.assocs) = Keys(srv.assocs) \cup changed
        /\ srv'.default = srv.default \/ \E k \in changed : srv'.default = k[1]
    BY <1>4, <2>1, UpdateFacts, DiffFacts, UpsertGood DEF UpdateAssociations
  <2>3. TypeOK'
    BY <1>4, <2>1, <2>2 DEF UpdateAssociations, TypeOK, GoodServer, PCs, Calls, env
  <2>4. PlanChecked'
    BY <1>4, <2>1 DEF UpdateAssociations, PlanChecked, UpdateCalls, CreateCalls
  <2>5. DefaultSurvives'
    <3> SUFFICES ASSUME quiet, srv'.default # Null
                 PROVE  \E k \in Keys(srv'.assocs) \ todo : k[1] = srv'.default
      BY <1>4 DEF UpdateAssociations, DefaultSurvives, HasAccountAssociation, Without, Keys
    <3>1. CASE srv'.default = srv.default
      BY <2>1, <2>2, <3>1 DEF DefaultSurvives, HasAccountAssociation, Without, Keys
    <3>2. CASE \E k \in changed : srv'.default = k[1]
      BY <2>1, <2>2, <3>2, UpdateFacts, DiffFacts
    <3> QED BY <2>2, <3>1, <3>2
  <2>6. NewDefaultInPlace' /\ RefreshedInPlace'
    BY <2>1 DEF NewDefaultInPlace, RefreshedInPlace
  <2> QED BY <2>3, <2>4, <2>5, <2>6
<1>5. ASSUME NEW k \in todo, DeleteAssociation(k) PROVE IInv'
  <2>1. pc = "updDelete" /\ pc \in UpdateCalls /\ pc' = "updDelete" /\ k \in Key
    BY <1>5 DEF DeleteAssociation, UpdateCalls, TypeOK
  <2>2. /\ GoodServer(srv')
        /\ srv'.default = srv.default
        /\ srv'.assocs = Without(srv, Selected(srv, k))
    BY <1>5, <2>1, TypeOKGood, DeleteGood DEF DeleteAssociation
  <2>3. TypeOK'
    BY <1>5, <2>1, <2>2 DEF DeleteAssociation, TypeOK, GoodServer, PCs, Calls, env
  <2>4. PlanChecked'
    BY <1>5, <2>1 DEF DeleteAssociation, PlanChecked, UpdateCalls, CreateCalls
  <2>5. DefaultSurvives'
    <3> SUFFICES ASSUME quiet, srv.default # Null
                 PROVE  \E j \in Keys(srv'.assocs) \ (todo \ {k}) : j[1] = srv.default
      BY <1>5, <2>2 DEF DeleteAssociation, DefaultSurvives, HasAccountAssociation, Without, Keys
    <3>1. PICK j \in Keys(srv.assocs) \ todo : j[1] = srv.default
      BY <2>1 DEF DefaultSurvives, HasAccountAssociation, Without, Keys
    <3>2. j \in Key /\ j # k
      BY <3>1 DEF Keys
    <3>3. CASE j \notin Selected(srv, k)
      BY <2>2, <3>1, <3>2, <3>3 DEF Without, Keys
    \* The default account itself was selected: slurmdbd left it another row.
    <3>4. CASE j \in Selected(srv, k)
      <4>1. Selected(srv, k) = {i \in Keys(srv.assocs) : i[1] = k[1]} /\ k[1] = srv.default
        BY <3>1, <3>2, <3>4 DEF Selected
      <4>2. HasAccountAssociation(Without(srv, Selected(srv, k)), srv.default)
        BY <1>5 DEF DeleteAssociation, ServerDelete
      <4> QED BY <4>1, <4>2 DEF HasAccountAssociation, Without, Keys
    <3> QED BY <3>3, <3>4
  <2>6. NewDefaultInPlace' /\ RefreshedInPlace'
    BY <2>1 DEF NewDefaultInPlace, RefreshedInPlace
  <2> QED BY <2>3, <2>4, <2>5, <2>6
<1>6. CASE FinishUpdate
  <2>1. TypeOK'
    BY <1>6, UpdateFacts DEF FinishUpdate, End, TypeOK, UpdateCalls, PCs, Results, env
  <2> QED BY <1>6, <2>1, EndingStep DEF FinishUpdate, End
<1> QED BY <1>1, <1>2, <1>3, <1>4, <1>5, <1>6 DEF Update

LEMMA DeleteStep == ASSUME IInv, Delete PROVE IInv'
<1> USE DEF IInv
<1>1. CASE ApplyDelete
  <2>1. TypeOK'
    BY <1>1 DEF ApplyDelete, TypeOK, PCs, Calls, env
  <2> QED BY <1>1, <2>1 DEF ApplyDelete, PlanChecked, RefreshedInPlace, NewDefaultInPlace,
             DefaultSurvives, CreateCalls, UpdateCalls
<1>2. CASE DeleteUser
  <2>1. TypeOK'
    BY <1>2, RowFacts DEF DeleteUser, End, TypeOK, GoodServer, PCs, Results, env
  <2> QED BY <1>2, <2>1, EndingStep DEF DeleteUser, End
<1> QED BY <1>1, <1>2 DEF Delete

LEMMA FailureStep == ASSUME IInv, Fail \/ Refused PROVE IInv'
<1> USE DEF IInv
<1>1. CASE Fail
  <2>1. GoodServer(srv')
    BY <1>1, TypeOKGood, CallEffectsGood DEF Fail
  <2>2. faults' \in 0..MaxFaults
    BY <1>1, ConstantsAssumption DEF Fail, TypeOK
  <2>3. TypeOK'
    BY <1>1, <2>1, <2>2 DEF Fail, End, TypeOK, GoodServer, PCs, Results
  <2> QED BY <1>1, <2>3, EndingStep DEF Fail, End
<1>2. CASE Refused
  <2>1. TypeOK'
    BY <1>2 DEF Refused, End, TypeOK, PCs, Results, env
  <2> QED BY <1>2, <2>1, EndingStep DEF Refused, End
<1> QED BY <1>1, <1>2

\* Whatever is done by hand, slurmdbd stays well-typed.
LEMMA OutOfBandGood == ASSUME GoodServer(srv), OutOfBand PROVE GoodServer(srv')
<1>0. srv \in Server /\ srv.assocs \in [Key -> ServerRow \cup {NoAssoc}]
  BY DEF GoodServer, Server
<1>1. ASSUME NEW a \in Accounts, srv' \in ServerCreateUser(srv, a) PROVE GoodServer(srv')
  BY <1>1, CreateUserGood
<1>2. CASE srv' = NoServerUser
  BY <1>2, RowFacts
<1>3. ASSUME NEW k \in Keys(srv.assocs), srv' = RowsRemoved({k}) PROVE GoodServer(srv')
  <2>1. srv.user /\ k \in Key
    BY RowFacts DEF GoodServer, NoServerUser, Keys
  <2>2. Without(srv, {k}) \in [Key -> ServerRow \cup {NoAssoc}]
    BY <1>0 DEF Without
  <2> DEFINE d == IF HasAccountAssociation(Without(srv, {k}), srv.default) THEN srv.default ELSE Null
  <2>3. d \in Accounts \cup {Null} /\ (d # Null => HasAccountAssociation(Without(srv, {k}), d))
    BY <1>0 DEF Server
  <2>4. srv' \in Server /\ srv'.user /\ srv'.assocs = Without(srv, {k}) /\ srv'.default = d
    BY <1>0, <1>3, <2>1, <2>2, <2>3 DEF RowsRemoved, Server
  <2> QED BY <2>3, <2>4 DEF GoodServer
<1>4. ASSUME NEW k \in Keys(srv.assocs), NEW f \in Fields, NEW v \in Values \cup {Null},
             srv' = [srv EXCEPT !.assocs[k][f] = v]
      PROVE  GoodServer(srv')
  <2> DEFINE rows == [srv.assocs EXCEPT ![k] = [srv.assocs[k] EXCEPT ![f] = v]]
  <2>1. srv.user /\ k \in Key
    BY RowFacts DEF GoodServer, NoServerUser, Keys
  <2>2. rows \in [Key -> ServerRow \cup {NoAssoc}] /\ Keys(rows) = Keys(srv.assocs)
    <3>1. [srv.assocs[k] EXCEPT ![f] = v] \in ServerRow
      BY <1>0 DEF Keys, ServerRow
    <3> QED BY <1>0, <2>1, <3>1, RowFacts DEF Keys
  <2>3. srv' = [srv EXCEPT !.assocs = rows]
    BY <1>0, <1>4, <2>1 DEF Server
  <2>4. srv' \in Server /\ srv'.user /\ srv'.assocs = rows /\ srv'.default = srv.default
    BY <1>0, <2>1, <2>2, <2>3 DEF Server
  <2> QED BY <2>2, <2>4 DEF GoodServer, HasAccountAssociation
<1>5. ASSUME NEW k \in Keys(srv.assocs), srv' = [srv EXCEPT !.default = k[1]] PROVE GoodServer(srv')
  <2>1. srv.user /\ k \in Key /\ k[1] \in Accounts
    BY RowFacts, KeyFacts DEF GoodServer, NoServerUser, Keys
  <2>2. srv' \in Server /\ srv'.user /\ srv'.assocs = srv.assocs /\ srv'.default = k[1]
    BY <1>0, <1>5, <2>1 DEF Server
  <2> QED BY <2>2, <1>5 DEF GoodServer, HasAccountAssociation
<1>6. ASSUME srv.user, NEW k \in Key \ Keys(srv.assocs), srv' = [srv EXCEPT !.assocs[k] = Blank]
      PROVE  GoodServer(srv')
  <2> DEFINE rows == [srv.assocs EXCEPT ![k] = Blank]
  <2>1. rows \in [Key -> ServerRow \cup {NoAssoc}] /\ Keys(srv.assocs) \subseteq Keys(rows)
    BY <1>0, <1>6, RowFacts DEF Keys
  <2>2. srv' \in Server /\ srv'.user /\ srv'.assocs = rows /\ srv'.default = srv.default
    BY <1>0, <1>6, <2>1 DEF Server
  <2> QED BY <2>1, <2>2 DEF GoodServer, HasAccountAssociation
<1>7. ASSUME srv.user, NEW a \in AdminLevels, srv' = [srv EXCEPT !.admin = a] PROVE GoodServer(srv')
  <2>1. srv' \in Server /\ srv'.user /\ srv'.assocs = srv.assocs /\ srv'.default = srv.default
    BY <1>0, <1>7 DEF Server
  <2> QED BY <2>1 DEF GoodServer
<1> QED BY <1>1, <1>2, <1>3, <1>4, <1>5, <1>6, <1>7 DEF OutOfBand

LEMMA InterfereStep == ASSUME IInv, Interfere PROVE IInv'
<1> USE DEF IInv
<1>1. GoodServer(srv')
  BY TypeOKGood, OutOfBandGood DEF Interfere
<1>2. interferences' \in 0..MaxInterference
  BY ConstantsAssumption DEF Interfere, TypeOK
<1>3. TypeOK'
  BY <1>1, <1>2 DEF Interfere, TypeOK, GoodServer
<1> QED BY <1>3 DEF Interfere, PlanChecked, RefreshedInPlace, NewDefaultInPlace, DefaultSurvives

LEMMA NextIInv == IInv /\ [Next]_vars => IInv'
<1> SUFFICES ASSUME IInv, [Next]_vars PROVE IInv'
  OBVIOUS
<1>1. CASE UNCHANGED vars
  BY <1>1 DEF vars, env, IInv, TypeOK, PlanChecked, RefreshedInPlace, NewDefaultInPlace,
       DefaultSurvives, Without
<1>2. CASE Next
  BY <1>2, PlanningStep, CreateStep, UpdateStep, DeleteStep, FailureStep, InterfereStep
     DEF Next, Progress, Read
<1> QED BY <1>1, <1>2

-----------------------------------------------------------------------------
(* The theorems *)

(* The inductive invariant holds of every reachable state.                 *)
THEOREM SpecIInv == Spec => []IInv
BY InitIInv, NextIInv, PTL DEF Spec

(* Every variable keeps its type; slurmdbd never stores an empty list, and *)
(* its default account is always one of the user's associations.           *)
THEOREM TypeCorrect == Spec => []TypeOK
<1>1. IInv => TypeOK
  BY DEF IInv
<1> QED BY <1>1, SpecIInv, PTL

(* Update's order (create, update user, update, delete) is right: a        *)
(* command that nothing disturbs never names a default account that does   *)
(* not exist and never deletes the last association of the default account.*)
THEOREM OrderIsSafe == Spec => []DefaultNeverDangles
<1>1. IInv => DefaultNeverDangles
  <2> SUFFICES ASSUME IInv, quiet PROVE
        /\ pc \in {"createAttrs", "updUser"} => HasAccountAssociation(srv.assocs, plan.default)
        /\ pc = "updDelete" /\ srv.default # Null =>
             HasAccountAssociation(Without(srv, todo), srv.default)
    BY DEF DefaultNeverDangles
  <2>1. CASE pc = "createAttrs"
    BY <2>1 DEF IInv, NewDefaultInPlace
  <2>2. CASE pc = "updUser"
    BY <2>2 DEF IInv, NewDefaultInPlace, PlanChecked, UpdateCalls, HasAccountAssociation
  <2>3. CASE pc = "updDelete"
    BY <2>3 DEF IInv, DefaultSurvives
  <2> QED BY <2>1, <2>2, <2>3
<1> QED BY <1>1, SpecIInv, PTL

-----------------------------------------------------------------------------
(* What one request does to the rows of the plan *)

\* While a call is under way, slurmdbd changes by that call alone.
LEMMA CallStep ==
  ASSUME Next, pc \in Calls, UNCHANGED interferences, IInv
  PROVE  srv' = srv \/ srv' \in CallEffects
<1>1. CASE CreateUserWithAssociation \/ CreateUpdateUser \/ UpdateUser \/ DeleteUser
  BY <1>1 DEF CreateUserWithAssociation, CreateUpdateUser, UpdateUser, DeleteUser, CallEffects,
       Upserts
<1>2. ASSUME NEW ks, srv' \in ServerUpsert(srv, ks, plan.assocs)
      PROVE  srv' \in ServerPartialUpsert(srv, ks, plan.assocs)
  BY <1>2 DEF ServerPartialUpsert
<1>3. CASE CreateAssociations
  BY <1>2, <1>3 DEF CreateAssociations, CallEffects, Upserts, Batch
<1>4. CASE UpdateCreateAssociations
  BY <1>2, <1>4 DEF UpdateCreateAssociations, CallEffects, Upserts, Batch
<1>5. CASE UpdateAssociations
  BY <1>2, <1>5 DEF UpdateAssociations, CallEffects, Upserts, Batch
<1>6. ASSUME NEW k \in todo, DeleteAssociation(k) PROVE srv' \in CallEffects
  <2>1. CallEffects = UNION {ServerDelete(srv, j) : j \in todo}
    BY <1>6 DEF DeleteAssociation, CallEffects, Upserts
  <2> QED BY <1>6, <2>1 DEF DeleteAssociation
<1>7. CASE Fail
  BY <1>7 DEF Fail
<1>8. CASE ValidateConfig \/ StartPlan \/ StartImport \/ Read \/ Plan \/ ApplyCreate \/ ApplyUpdate
           \/ FinishUpdate \/ ApplyDelete \/ Refused \/ EditConfig
  BY <1>8 DEF ValidateConfig, StartPlan, StartImport, Read, ReadGetUser, ReadGetAssociations, Plan,
       ApplyCreate, ApplyUpdate, FinishUpdate, ApplyDelete, Refused, EditConfig
<1>9. ~Interfere
  BY DEF Interfere, IInv, TypeOK
<1> QED BY <1>1, <1>3, <1>4, <1>5, <1>6, <1>7, <1>8, <1>9
           DEF Next, Progress, Read, Create, Update, Delete

\* An upsert leaves every row, and the attributes the plan does not declare.
LEMMA UpsertRows ==
  ASSUME NEW s, GoodServer(s), NEW m \in AssocMap, NEW ks \in SUBSET Keys(m),
         NEW t \in ServerUpsert(s, ks, m)
  PROVE  /\ Keys(s.assocs) \subseteq Keys(t.assocs)
         /\ \A k \in Keys(s.assocs), f \in Fields :
              m[k][f] = Null => t.assocs[k][f] = s.assocs[k][f]
<1>1. /\ Keys(t.assocs) = Keys(s.assocs) \cup ks
      /\ \A k \in Key \ ks : t.assocs[k] = s.assocs[k]
      /\ \A k \in ks : t.assocs[k] = Upserted(s.assocs[k], m[k])
  BY UpsertGood
<1>2. ASSUME NEW k \in Keys(s.assocs), NEW f \in Fields, m[k][f] = Null
      PROVE  t.assocs[k][f] = s.assocs[k][f]
  <2>1. CASE k \in ks
    <3>1. t.assocs[k] = Upserted(s.assocs[k], m[k])
      BY <1>1, <2>1
    <3>2. Wire(m[k][f]) = Null /\ s.assocs[k] # NoAssoc
      BY <1>2 DEF Wire, Keys
    <3>3. Upserted(s.assocs[k], m[k])[f] = s.assocs[k][f]
      BY <3>2 DEF Upserted
    <3> QED BY <3>1, <3>3
  <2>2. CASE k \notin ks
    BY <1>1, <2>2 DEF Keys
  <2> QED BY <2>1, <2>2
<1> QED BY <1>1, <1>2

\* Every request leaves the attributes the plan does not declare.
LEMMA CallLeavesUnmanaged ==
  ASSUME IInv, pc \in Calls, plan # NoUser, NEW t \in CallEffects,
         NEW k \in Keys(plan.assocs) \cap Keys(srv.assocs) \cap Keys(t.assocs),
         NEW f \in Fields, plan.assocs[k][f] = Null
  PROVE  t.assocs[k][f] = srv.assocs[k][f]
<1>1. GoodServer(srv) /\ todo \subseteq Key
  BY TypeOKGood DEF IInv, TypeOK
<1>2. ASSUME NEW j \in todo, t \in ServerDelete(srv, j)
      PROVE  t.assocs[k] = srv.assocs[k]
  <2>1. t.assocs = Without(srv, Selected(srv, j))
    BY <1>1, <1>2, DeleteGood
  <2> QED BY <2>1 DEF Without, Keys
<1> QED BY <1>1, <1>2, CallRequests, CreateUserGood, UpdateUserGood, UpsertRows DEF IInv

(* "Removing this attribute stops managing it" (docs/resources/user.md):   *)
(* no call of an apply, failed or not, retried or not, changes an attribute*)
(* that the plan leaves null.                                              *)
THEOREM UnmanagedIsKept == Spec => NullIsUnmanaged
<1>1. IInv /\ [Next]_vars =>
        ((pc \in Calls) /\ plan # NoUser /\ UNCHANGED interferences =>
         \A k \in Keys(plan.assocs) \cap Keys(srv.assocs) \cap Keys(srv.assocs)', f \in Fields :
           plan.assocs[k][f] = Null => srv.assocs[k][f]' = srv.assocs[k][f])
  <2> SUFFICES ASSUME IInv, [Next]_vars, pc \in Calls, plan # NoUser, UNCHANGED interferences,
                      NEW k \in Keys(plan.assocs) \cap Keys(srv.assocs) \cap Keys(srv'.assocs),
                      NEW f \in Fields, plan.assocs[k][f] = Null
               PROVE  srv'.assocs[k][f] = srv.assocs[k][f]
    BY DEF Keys
  <2>1. CASE UNCHANGED vars
    BY <2>1 DEF vars
  <2>2. CASE Next
    BY <2>2, CallStep, CallLeavesUnmanaged
  <2> QED BY <2>1, <2>2
<1> QED BY <1>1, SpecIInv, PTL DEF Spec, NullIsUnmanaged

-----------------------------------------------------------------------------
(* What a refresh that nothing disturbed knows of slurmdbd *)

\* The user row of s is what m holds, as far as the API shows it.
HoldsUser(s, m) ==
  /\ s.user /\ s.admin = m.admin
  /\ WCKeyReadable /\ m.wckey # Null => s.wckey \in {m.wckey, Null}

HoldsDefault(s, m) == s.default = m.default /\ s.default # Null

\* Every value that m sends for the association k is shown.
HoldsRow(s, m, k) ==
  \A f \in Fields : m.assocs[k][f] \notin {Null, EmptyList} => APIValue(s, k, f) = m.assocs[k][f]

\* Between the two calls of Read, the first answer still holds.
SeenIsTrue == quiet /\ pc = "getAssocs" => srv.user /\ seen = UserObject(srv)

\* What Read stores is what slurmdbd shows.
RefreshIsTrue ==
  quiet /\ state # NoUser /\ pc \in {"refreshed", "planned"} =>
    /\ HoldsUser(srv, state)
    /\ ~foreign => HoldsDefault(srv, state)
    /\ Keys(srv.assocs) = Keys(state.assocs)
    /\ \A k \in Keys(state.assocs), f \in Fields :
         state.assocs[k][f] # Null => state.assocs[k][f] = APIValue(srv, k, f)

RInv == SeenIsTrue /\ RefreshIsTrue /\ EmptyPlanMeansInForce

(* A refresh takes an attribute from slurmdbd or leaves it out, and takes  *)
(* every row.                                                              *)
LEMMA ReadIsTrue ==
  ASSUME NEW prior \in Model, NEW s, GoodServer(s), s.user,
         NEW m, m = ReadModel(prior, UserObject(s), s)
  PROVE  /\ HoldsUser(s, m)
         /\ s.default # Null => HoldsDefault(s, m)
         /\ Keys(s.assocs) = Keys(m.assocs)
         /\ \A k \in Keys(m.assocs), f \in Fields :
              m.assocs[k][f] # Null => m.assocs[k][f] = APIValue(s, k, f)
<1>1. UserObject(s) \in [admin : AdminLevels, wckey : WCKeys \cup {Null}]
  BY DEF UserObject, APIWCKey, GoodServer, Server
<1>2. Keys(m.assocs) = Keys(s.assocs) /\ (s.default # Null => m.default = s.default)
  BY <1>1, ReadModelFacts
<1>3. HoldsUser(s, m)
  BY DEF HoldsUser, ReadModel, UserObject, APIWCKey
<1>4. ASSUME NEW k \in Keys(m.assocs), NEW f \in Fields, m.assocs[k][f] # Null
      PROVE  m.assocs[k][f] = APIValue(s, k, f)
  <2>1. k \in Key /\ s.assocs[k] # NoAssoc
    BY <1>2, <1>4 DEF Keys
  <2>2. m.assocs[k][f] = ReadField(prior.assocs[k], f, APIValue(s, k, f))
    BY <2>1 DEF ReadModel, APIAssociationsToState
  <2> QED BY <1>4, <2>2 DEF ReadField
<1> QED BY <1>2, <1>3, <1>4 DEF HoldsDefault

\* Where a command stands or ends without a promise.
LEMMA NoReadPromise ==
  ASSUME \/ ~quiet'
         \/ pc' \notin {"idle", "getAssocs", "refreshed", "planned"}
         \/ pc' = "idle" /\ result' # "clean"
         \/ pc' = "refreshed" /\ state' = NoUser
  PROVE  RInv'
BY DEF RInv, SeenIsTrue, RefreshIsTrue, EmptyPlanMeansInForce

LEMMA InitRInv == Init => RInv
BY DEF Init, RInv, SeenIsTrue, RefreshIsTrue, EmptyPlanMeansInForce

LEMMA NextRInv == IInv /\ RInv /\ [Next]_vars => RInv'
<1> SUFFICES ASSUME IInv, RInv, [Next]_vars PROVE RInv'
  OBVIOUS
<1>0. GoodServer(srv)
  BY TypeOKGood DEF IInv
<1>1. CASE UNCHANGED vars
  BY <1>1 DEF vars, env, RInv, SeenIsTrue, RefreshIsTrue, EmptyPlanMeansInForce, InForce,
     HoldsUser, HoldsDefault, APIValue, UserObject, APIWCKey
<1>2. CASE ValidateConfig \/ StartPlan \/ StartImport \/ EditConfig \/ Interfere \/ Fail \/ Refused
  BY <1>2, NoReadPromise DEF ValidateConfig, StartPlan, StartImport, EditConfig, Interfere, Fail,
     Refused, End
<1>3. CASE ReadGetUser
  <2>1. CASE srv.user
    <3>1. seen' = UserObject(srv) /\ pc' = "getAssocs" /\ srv' = srv
      BY <1>3, <2>1 DEF ReadGetUser
    <3>2. SeenIsTrue'
      BY <2>1, <3>1 DEF SeenIsTrue, UserObject, APIWCKey
    <3> QED BY <3>1, <3>2 DEF RInv, RefreshIsTrue, EmptyPlanMeansInForce
  <2>2. CASE ~srv.user
    BY <1>3, <2>2, NoReadPromise DEF ReadGetUser, End
  <2> QED BY <2>1, <2>2
<1>4. CASE ReadGetAssociations
  <2>1. CASE state = NoUser \/ ~quiet
    BY <1>4, <2>1, NoReadPromise DEF ReadGetAssociations, End
  <2>2. CASE state # NoUser /\ quiet
    <3>1. /\ pc = "getAssocs" /\ pc' = "refreshed" /\ srv' = srv
          /\ foreign' = (srv.default = Null)
          /\ state' = ReadModel(Prior, seen, srv)
      BY <1>4, <2>2 DEF ReadGetAssociations
    <3>2. srv.user /\ seen = UserObject(srv)
      BY <2>2, <3>1 DEF RInv, SeenIsTrue
    <3>3. Prior \in Model
      BY <2>2 DEF Prior, IInv, TypeOK
    <3>4. /\ HoldsUser(srv, state')
          /\ srv.default # Null => HoldsDefault(srv, state')
          /\ Keys(srv.assocs) = Keys(state'.assocs)
          /\ \A k \in Keys(state'.assocs), f \in Fields :
               state'.assocs[k][f] # Null => state'.assocs[k][f] = APIValue(srv, k, f)
      BY <1>0, <3>1, <3>2, <3>3, ReadIsTrue
    <3>5. RefreshIsTrue'
      BY <3>1, <3>4 DEF RefreshIsTrue, HoldsUser, HoldsDefault, Keys, APIValue
    <3> QED BY <3>1, <3>5 DEF RInv, SeenIsTrue, EmptyPlanMeansInForce
  <2> QED BY <2>1, <2>2
<1>5. CASE Plan
  <2>1. pc = "refreshed" /\ UNCHANGED <<config, state, srv, quiet, foreign>>
    BY <1>5 DEF Plan
  <2>2. CASE Planned(config, state) # state
    <3>1. pc' = "planned"
      BY <1>5, <2>2 DEF Plan
    <3>2. RefreshIsTrue'
      BY <2>1, <3>1 DEF RInv, RefreshIsTrue, HoldsUser, HoldsDefault, Keys, APIValue
    <3> QED BY <3>1, <3>2 DEF RInv, SeenIsTrue, EmptyPlanMeansInForce
  <2>3. CASE Planned(config, state) = state
    <3>1. pc' = "idle"
      BY <1>5, <2>3 DEF Plan, End
    <3>2. ASSUME quiet, config # NoUser PROVE InForce(config, {})
      <4>1. state # NoUser /\ config \in Model
        BY <2>3, <3>2, ConfigIsModel DEF Planned, IInv
      <4>2. /\ config.assocs = state.assocs /\ config.default = state.default
            /\ config.wckey = state.wckey
            /\ config.admin # Null => config.admin = state.admin
        BY <2>3, <3>2, <4>1 DEF Planned, Model
      <4>3. srv.default \in {state.default, Null}
        BY <2>1, <3>2, <4>1 DEF IInv, RefreshedInPlace
      <4>4. /\ HoldsUser(srv, state)
            /\ Keys(srv.assocs) = Keys(state.assocs)
            /\ \A k \in Keys(state.assocs), f \in Fields :
                 state.assocs[k][f] # Null => state.assocs[k][f] = APIValue(srv, k, f)
        BY <2>1, <3>2, <4>1 DEF RInv, RefreshIsTrue
      <4>5. ASSUME NEW k \in Keys(config.assocs), NEW f \in Fields, config.assocs[k][f] # Null
            PROVE  APIValue(srv, k, f) = Wire(config.assocs[k][f])
        <5>1. k \in Key /\ srv.assocs[k] \in ServerRow
          BY <1>0, <4>2, <4>4, <4>5 DEF Keys, GoodServer, Server
        <5>2. APIValue(srv, k, f) \in Values \cup {Null}
          BY <5>1, ConstantsAssumption DEF APIValue, ServerRow
        <5> QED BY <4>2, <4>4, <4>5, <5>2, ConstantsAssumption DEF Wire
      <4> QED BY <4>2, <4>3, <4>4, <4>5 DEF InForce, HoldsUser
    <3>3. EmptyPlanMeansInForce'
      BY <2>1, <3>2 DEF EmptyPlanMeansInForce, InForce, APIValue
    <3> QED BY <3>1, <3>3 DEF RInv, SeenIsTrue, RefreshIsTrue
  <2> QED BY <2>2, <2>3
<1>6. CASE Create \/ Update \/ Delete
  <2>1. pc' \in Calls \/ (pc' = "idle" /\ result' # "clean")
    <3>1. CASE Create \/ Delete
      BY <3>1 DEF Create, ApplyCreate, CreateUserWithAssociation, CreateUpdateUser,
         CreateAssociations, Delete, ApplyDelete, DeleteUser, End, Calls
    <3>2. CASE Update
      BY <3>2 DEF Update, ApplyUpdate, UpdateCreateAssociations, UpdateUser, UpdateAssociations,
         DeleteAssociation, FinishUpdate, FirstCall, AfterCreate, AfterUser, End, Calls
    <3> QED BY <1>6, <3>1, <3>2
  <2> QED BY <2>1, NoReadPromise DEF Calls
<1> QED BY <1>1, <1>2, <1>3, <1>4, <1>5, <1>6 DEF Next, Progress, Read

LEMMA SpecRInv == Spec => []RInv
BY InitRInv, NextRInv, SpecIInv, PTL DEF Spec

(* An empty plan is the truth: when a plan that nothing disturbed finds    *)
(* nothing to do, the user is in slurmdbd with exactly the declared        *)
(* associations and every declared attribute, whichever way it came there. *)
THEOREM EmptyPlanIsTrue == Spec => []EmptyPlanMeansInForce
<1>1. RInv => EmptyPlanMeansInForce
  BY DEF RInv
<1> QED BY <1>1, SpecRInv, PTL

-----------------------------------------------------------------------------
(* What an apply that nothing disturbed has written so far *)

\* What a DELETE that removes a row takes with it: nothing else, because it
\* names the row or because slurmdbd refuses to choose.
DeletesOneRow == UnscopedDelete \in {"exact", "refuse"}

PlanIsConfigured == plan = NoUser \/ \E c \in Configs \ {NoUser} : plan.assocs = c.assocs

\* UseStateForUnknown: the plan of an update names the administrator level.
AdminIsKnown ==
  quiet /\ state # NoUser /\ plan # NoUser /\ pc \in {"planned"} \cup UpdateCalls =>
    plan.admin # Null

\* The user row is the refreshed one until updUser, the planned one after it.
UserWritten ==
  quiet /\ pc \in UpdateCalls =>
    LET m == IF pc \in {"updCreate", "updUser"} THEN state ELSE plan
    IN  HoldsUser(srv, m) /\ (~foreign => HoldsDefault(srv, m))

\* The rows: those still to be written, and those that are as planned.
RowsWritten ==
  quiet /\ pc \in UpdateCalls =>
    /\ pc # "updDelete" => todo = DiffDelete(state.assocs, plan.assocs)
    /\ Keys(srv.assocs) = IF pc = "updCreate" THEN Keys(state.assocs)
                                              ELSE Keys(plan.assocs) \cup todo
    /\ \A k \in Keys(plan.assocs) :
         \/ pc = "updCreate" /\ k \in DiffCreate(state.assocs, plan.assocs)
         \/ pc # "updDelete" /\ k \in DiffUpdate(state.assocs, plan.assocs)
         \/ HoldsRow(srv, plan, k)

\* What Create stores.
Stored(p) == [p EXCEPT !.admin = IF @ = Null THEN NoneLevel ELSE @]

\* A new user has the row of the bootstrap call alone, and then its attributes.
CreateWritten ==
  quiet /\ pc \in {"createAttrs", "createAssocs"} =>
    /\ srv.user
    /\ ~foreign =>
         /\ Keys(srv.assocs) = {<<plan.default, NoPartition>>}
         /\ HoldsDefault(srv, plan)
         /\ pc = "createAttrs" => srv.admin = NoneLevel
         /\ pc = "createAssocs" => HoldsUser(srv, Stored(plan))

WInv == PlanIsConfigured /\ AdminIsKnown /\ UserWritten /\ RowsWritten /\ CreateWritten

LEMMA UpsertKeepsUser ==
  ASSUME NEW s, GoodServer(s), NEW m, NEW ks, NEW t \in ServerUpsert(s, ks, m)
  PROVE  /\ s.user /\ t.user /\ t.admin = s.admin /\ t.wckey = s.wckey
         /\ s.default # Null => t.default = s.default
<1>1. s.user
  BY DEF ServerUpsert
<1> DEFINE rows == [k \in Key |-> IF k \in ks THEN Upserted(s.assocs[k], m[k]) ELSE s.assocs[k]]
<1>2. PICK d \in (IF s.default = Null THEN {Null} \cup {k[1] : k \in ks} ELSE {s.default}) :
             t = [s EXCEPT !.assocs = rows, !.default = d]
  BY <1>1 DEF ServerUpsert
<1> HIDE DEF rows
<1> QED BY <1>1, <1>2 DEF GoodServer, Server

\* An upsert shows what it sent, and leaves the other rows.
LEMMA UpsertedIsShown ==
  ASSUME NEW s, GoodServer(s), NEW p, p.assocs \in AssocMap, NEW ks \in SUBSET Keys(p.assocs),
         NEW t \in ServerUpsert(s, ks, p.assocs), NEW k \in Keys(p.assocs),
         k \in ks \/ HoldsRow(s, p, k)
  PROVE  HoldsRow(t, p, k)
<1>1. k \in Key
  BY DEF Keys
<1>2. CASE k \in ks
  <2>1. t.assocs[k] = Upserted(s.assocs[k], p.assocs[k])
    BY <1>2, UpsertGood
  <2>2. ASSUME NEW f \in Fields, p.assocs[k][f] \notin {Null, EmptyList}
        PROVE  t.assocs[k][f] = p.assocs[k][f]
    BY <2>1, <2>2 DEF Upserted, Wire
  <2> QED BY <2>2 DEF HoldsRow, APIValue
<1>3. CASE k \notin ks
  <2>1. t.assocs[k] = s.assocs[k]
    BY <1>1, <1>3, UpsertGood
  <2> QED BY <1>3, <2>1 DEF HoldsRow, APIValue
<1> QED BY <1>2, <1>3

LEMMA UpdateUserWrites ==
  ASSUME NEW s, GoodServer(s), NEW p \in Model, NEW t \in ServerUpdateUser(s, p)
  PROVE  /\ s.user /\ t.user
         /\ t.admin = IF p.admin = Null THEN s.admin ELSE p.admin
         /\ t.wckey = IF p.wckey = Null THEN s.wckey ELSE p.wckey
<1>1. s.user /\ t = [s EXCEPT !.default = p.default,
                    !.admin   = IF p.admin = Null THEN @ ELSE p.admin,
                    !.wckey   = IF p.wckey = Null THEN @ ELSE p.wckey]
  BY DEF ServerUpdateUser
<1> QED BY <1>1 DEF GoodServer, Server

\* The bootstrap call of Create on a user that is not there.
LEMMA CreateUserWrites ==
  ASSUME NEW s, GoodServer(s), NEW a \in Accounts, NEW t \in ServerCreateUser(s, a)
  PROVE  /\ t.user
         /\ ~s.user => /\ Keys(t.assocs) = {<<a, NoPartition>>}
                       /\ t.default = a /\ t.admin = NoneLevel /\ t.wckey = Null
<1> DEFINE base == IF s.user THEN s ELSE [NoServerUser EXCEPT !.user = TRUE]
           key  == <<a, NoPartition>>
           add  == [base.assocs EXCEPT ![key] = IF @ = NoAssoc THEN Blank ELSE @]
<1>1. PICK d \in ({a, base.default} \ {Null}) : t = [base EXCEPT !.assocs = add, !.default = d]
  BY DEF ServerCreateUser
<1>2. base \in Server /\ base.user
  BY RowFacts DEF GoodServer, Server
<1>3. t.user /\ t.assocs = add /\ t.default = d /\ t.admin = base.admin /\ t.wckey = base.wckey
  BY <1>1, <1>2 DEF Server
<1>4. ASSUME ~s.user
      PROVE  Keys(add) = {key} /\ base.default = Null /\ base.admin = NoneLevel /\ base.wckey = Null
  <2>1. /\ base.default = Null /\ base.admin = NoneLevel /\ base.wckey = Null
        /\ base.assocs = NoAssocs
    BY <1>4 DEF NoServerUser
  <2>2. key \in Key
    BY KeyFacts
  <2>3. Keys(add) = {key}
    BY <2>1, <2>2, RowFacts DEF Keys, NoAssocs
  <2> QED BY <2>1, <2>3
<1> QED BY <1>1, <1>3, <1>4

\* A row in place that is deleted goes alone.
LEMMA SelectedAlone ==
  ASSUME DeletesOneRow, NEW s, NEW k \in Key, ServerDelete(s, k) # {},
         UnscopedDelete = "exact" \/ k \in Keys(s.assocs)
  PROVE  Selected(s, k) \subseteq {k}
<1>1. CASE UnscopedDelete = "exact" \/ k[2] # NoPartition
  BY <1>1 DEF Selected
<1>2. CASE UnscopedDelete = "refuse" /\ k \in Keys(s.assocs)
  <2>1. k \in Selected(s, k)
    BY <1>2 DEF Selected, Keys
  <2>2. ~(\E i, j \in Selected(s, k) : i # j)
    BY <1>2 DEF ServerDelete
  <2> QED BY <2>1, <2>2
<1> QED BY <1>1, <1>2 DEF DeletesOneRow

LEMMA InitWInv == Init => WInv
BY DEF Init, WInv, PlanIsConfigured, AdminIsKnown, UserWritten, RowsWritten, CreateWritten,
   UpdateCalls

\* Where a command stands with nothing written, or ends.
LEMMA NothingWritten ==
  ASSUME PlanIsConfigured',
         ~quiet' \/ pc' \notin {"planned", "createAttrs", "createAssocs"} \cup UpdateCalls
  PROVE  WInv'
BY DEF WInv, AdminIsKnown, UserWritten, RowsWritten, CreateWritten, UpdateCalls

LEMMA PlanWStep == ASSUME IInv, RInv, WInv, Plan PROVE WInv'
<1>1. pc = "refreshed" /\ plan' = Planned(config, state) /\ UNCHANGED <<config, state, srv, quiet>>
      /\ pc' \in {"idle", "planned"}
  BY DEF Plan, End
<1>2. PlanIsConfigured'
  <2>1. CASE config = NoUser
    BY <1>1, <2>1 DEF Planned, PlanIsConfigured
  <2>2. CASE config # NoUser
    <3>1. config \in Configs /\ config \in Model
      BY <2>2, ConfigIsModel DEF IInv, TypeOK
    <3>2. plan'.assocs = config.assocs
      BY <1>1, <2>2, <3>1 DEF Planned, Model
    <3> QED BY <2>2, <3>1, <3>2 DEF PlanIsConfigured
  <2> QED BY <2>1, <2>2
<1>3. AdminIsKnown'
  <2> SUFFICES ASSUME quiet, state # NoUser, plan' # NoUser PROVE plan'.admin # Null
    BY <1>1 DEF AdminIsKnown
  <2>1. state.admin # Null
    <3>1. state.admin = srv.admin
      BY <1>1 DEF RInv, RefreshIsTrue, HoldsUser
    <3> QED BY <3>1, ConstantsAssumption DEF IInv, TypeOK, Server
  <2>2. config # NoUser /\ config \in Model
    BY <1>1, ConfigIsModel DEF Planned, IInv
  <2>3. plan'.admin = IF config.admin = Null THEN state.admin ELSE config.admin
    BY <1>1, <2>2 DEF Planned, Model
  <2> QED BY <2>1, <2>3
<1> QED BY <1>1, <1>2, <1>3 DEF WInv, UserWritten, RowsWritten, CreateWritten, UpdateCalls

LEMMA CreateWStep == ASSUME IInv, WInv, Create PROVE WInv'
<1>0. plan' = plan /\ quiet' = quiet /\ PlanIsConfigured'
  BY DEF Create, ApplyCreate, CreateUserWithAssociation, CreateUpdateUser, CreateAssociations,
     WInv, PlanIsConfigured
<1>1. CASE ApplyCreate \/ CreateAssociations
  BY <1>0, <1>1, NothingWritten DEF ApplyCreate, CreateAssociations, End, UpdateCalls
<1>2. CASE CreateUserWithAssociation
  <2>1. /\ pc = "create" /\ srv' \in ServerCreateUser(srv, plan.default) /\ foreign' = srv.user
        /\ pc' = IF NeedsUserUpdate(plan) THEN "createAttrs" ELSE "createAssocs"
    BY <1>2 DEF CreateUserWithAssociation
  <2>2. plan \in Model /\ plan.default \in Accounts /\ plan.default # Null
    BY <2>1, HasAccountIsAccount DEF IInv, TypeOK, PlanChecked, CreateCalls
  <2>3. /\ srv'.user
        /\ ~srv.user => /\ Keys(srv'.assocs) = {<<plan.default, NoPartition>>}
                        /\ srv'.default = plan.default
                        /\ srv'.admin = NoneLevel /\ srv'.wckey = Null
    BY <2>1, <2>2, TypeOKGood, CreateUserWrites DEF IInv
  <2>4. ~srv.user /\ pc' = "createAssocs" => HoldsUser(srv', Stored(plan))
    <3> SUFFICES ASSUME ~srv.user, ~NeedsUserUpdate(plan) PROVE HoldsUser(srv', Stored(plan))
      BY <2>1
    <3>1. Stored(plan).admin = NoneLevel /\ Stored(plan).wckey = Null
      BY <2>2 DEF NeedsUserUpdate, Stored, Model
    <3> QED BY <2>3, <3>1 DEF HoldsUser
  <2>5. CreateWritten'
    BY <1>0, <2>1, <2>2, <2>3, <2>4 DEF CreateWritten, Keys, HoldsDefault, HoldsUser, Stored
  <2> QED BY <1>0, <2>1, <2>5 DEF WInv, AdminIsKnown, UserWritten, RowsWritten, UpdateCalls
<1>3. CASE CreateUpdateUser
  <2>1. /\ pc = "createAttrs" /\ pc' = "createAssocs" /\ foreign' = foreign
        /\ srv' \in ServerUpdateUser(srv, CreateAttrsBody(plan))
    BY <1>3 DEF CreateUpdateUser
  <2>2. plan \in Model /\ CreateAttrsBody(plan) \in Model /\ GoodServer(srv)
        /\ plan.default # Null
    BY <2>1, TypeOKGood, HasAccountIsAccount
       DEF IInv, TypeOK, PlanChecked, CreateCalls, CreateAttrsBody, Model
  <2>3. /\ CreateAttrsBody(plan).default = plan.default /\ CreateAttrsBody(plan).wckey = plan.wckey
        /\ CreateAttrsBody(plan).admin = IF plan.admin = NoneLevel THEN Null ELSE plan.admin
    BY <2>2 DEF CreateAttrsBody, Model
  <2>4. /\ srv'.user /\ srv'.assocs = srv.assocs /\ srv'.default = plan.default
        /\ srv'.admin = IF plan.admin \in {Null, NoneLevel} THEN srv.admin ELSE plan.admin
        /\ srv'.wckey = IF plan.wckey = Null THEN srv.wckey ELSE plan.wckey
    BY <2>1, <2>2, <2>3, UpdateUserGood, UpdateUserWrites
  <2>5. quiet /\ ~foreign => HoldsUser(srv', Stored(plan))
    <3> SUFFICES ASSUME quiet, ~foreign PROVE HoldsUser(srv', Stored(plan))
      OBVIOUS
    <3>1. srv.admin = NoneLevel
      BY <2>1 DEF WInv, CreateWritten
    <3>2. /\ Stored(plan).admin = IF plan.admin = Null THEN NoneLevel ELSE plan.admin
          /\ Stored(plan).wckey = plan.wckey
      BY <2>2 DEF Stored, Model
    <3> QED BY <2>4, <3>1, <3>2 DEF HoldsUser
  <2>6. CreateWritten'
    <3>1. quiet /\ ~foreign => Keys(srv.assocs) = {<<plan.default, NoPartition>>}
      BY <2>1 DEF WInv, CreateWritten
    <3> QED BY <1>0, <2>1, <2>2, <2>4, <2>5, <3>1
            DEF CreateWritten, Keys, HoldsDefault, HoldsUser, Stored
  <2> QED BY <1>0, <2>1, <2>6 DEF WInv, AdminIsKnown, UserWritten, RowsWritten, UpdateCalls
<1> QED BY <1>1, <1>2, <1>3 DEF Create

\* A row the diff leaves out shows what the plan sends.
LEMMA EqualRowHolds ==
  ASSUME NEW s, NEW old, NEW p, NEW k \in Keys(p.assocs),
         k \notin DiffCreate(old, p.assocs), k \notin DiffUpdate(old, p.assocs),
         \A f \in Fields : old[k][f] # Null => old[k][f] = APIValue(s, k, f)
  PROVE  HoldsRow(s, p, k)
<1>1. AssociationsEqual(old[k], p.assocs[k])
  BY DEF DiffCreate, DiffUpdate
<1> SUFFICES ASSUME NEW f \in Fields, p.assocs[k][f] \notin {Null, EmptyList}
             PROVE  APIValue(s, k, f) = p.assocs[k][f]
  BY DEF HoldsRow
<1>2. Wire(old[k][f]) = p.assocs[k][f]
  BY <1>1 DEF AssociationsEqual, Wire
<1> QED BY <1>2 DEF Wire

\* What differs after the user was not updated: nothing the user row holds.
LEMMA UserUnchangedHolds ==
  ASSUME NEW s, ~UserChanged
  PROVE  /\ HoldsUser(s, state) => HoldsUser(s, plan)
         /\ HoldsDefault(s, state) => HoldsDefault(s, plan)
BY DEF UserChanged, HoldsUser, HoldsDefault

LEMMA ApplyUpdateWStep == ASSUME IInv, RInv, WInv, ApplyUpdate PROVE WInv'
<1>0. /\ pc = "planned" /\ state # NoUser /\ plan # NoUser
      /\ UNCHANGED <<state, srv, plan, quiet, foreign>> /\ PlanIsConfigured'
  BY DEF ApplyUpdate, WInv, PlanIsConfigured
<1>1. CASE ~quiet \/ pc' = "idle"
  BY <1>0, <1>1, NothingWritten DEF UpdateCalls
<1>2. CASE quiet /\ pc' # "idle"
  <2>1. pc' = FirstCall /\ todo' = DiffDelete(state.assocs, plan.assocs)
    BY <1>2 DEF ApplyUpdate, End
  <2>2. /\ HoldsUser(srv, state)
        /\ ~foreign => HoldsDefault(srv, state)
        /\ Keys(srv.assocs) = Keys(state.assocs)
        /\ \A k \in Keys(state.assocs), f \in Fields :
             state.assocs[k][f] # Null => state.assocs[k][f] = APIValue(srv, k, f)
    BY <1>0, <1>2 DEF RInv, RefreshIsTrue
  <2>3. pc' \in UpdateCalls
    BY <2>1 DEF FirstCall, AfterCreate, AfterUser, UpdateCalls
  <2>4. AdminIsKnown'
    BY <1>0 DEF WInv, AdminIsKnown
  <2>5. pc' \notin {"updCreate", "updUser"} => ~UserChanged
    BY <2>1 DEF FirstCall, AfterCreate
  <2>6. UserWritten'
    BY <1>0, <2>2, <2>5, UserUnchangedHolds DEF UserWritten, HoldsUser, HoldsDefault
  <2>7. pc' # "updCreate" => DiffCreate(state.assocs, plan.assocs) = {}
    BY <2>1 DEF FirstCall
  <2>8. pc' = "updDelete" => DiffUpdate(state.assocs, plan.assocs) = {}
    BY <2>1 DEF FirstCall, AfterCreate, AfterUser
  <2>9. Keys(srv.assocs) = IF pc' = "updCreate" THEN Keys(state.assocs)
                                                ELSE Keys(plan.assocs) \cup todo'
    BY <2>1, <2>2, <2>7 DEF DiffCreate, DiffDelete
  <2>10. ASSUME NEW k \in Keys(plan.assocs)
         PROVE  \/ pc' = "updCreate" /\ k \in DiffCreate(state.assocs, plan.assocs)
                \/ pc' # "updDelete" /\ k \in DiffUpdate(state.assocs, plan.assocs)
                \/ HoldsRow(srv, plan, k)
    <3> SUFFICES ASSUME k \notin DiffCreate(state.assocs, plan.assocs),
                        k \notin DiffUpdate(state.assocs, plan.assocs)
                 PROVE  HoldsRow(srv, plan, k)
      BY <2>7, <2>8
    <3>1. k \in Keys(state.assocs)
      BY DEF DiffCreate
    <3> QED BY <2>2, <3>1, EqualRowHolds
  <2>11. RowsWritten'
    BY <1>0, <2>1, <2>9, <2>10
       DEF RowsWritten, HoldsRow, APIValue, DiffCreate, DiffUpdate, DiffDelete, Keys, AssociationsEqual
  <2> QED BY <1>0, <2>3, <2>4, <2>6, <2>11 DEF WInv, CreateWritten, UpdateCalls
<1> QED BY <1>1, <1>2

LEMMA UpdateWStep ==
  ASSUME IInv, WInv, UpdateCreateAssociations \/ UpdateUser \/ UpdateAssociations
  PROVE  WInv'
<1>0. /\ pc \in {"updCreate", "updUser", "updAssocs"} /\ pc \in UpdateCalls /\ pc' \in UpdateCalls
      /\ pc' # "updCreate" /\ UNCHANGED <<state, plan, todo, quiet, foreign>> /\ PlanIsConfigured'
  BY DEF UpdateCreateAssociations, UpdateUser, UpdateAssociations, AfterCreate, AfterUser,
     UpdateCalls, WInv, PlanIsConfigured
<1>1. CASE ~quiet
  BY <1>0, <1>1, NothingWritten
<1>2. CASE quiet
  <2> DEFINE created == DiffCreate(state.assocs, plan.assocs)
             changed == DiffUpdate(state.assocs, plan.assocs)
  <2>1. /\ plan \in Model /\ plan.assocs \in AssocMap /\ GoodServer(srv)
        /\ created \in SUBSET Keys(plan.assocs) /\ changed \in SUBSET Keys(plan.assocs)
        /\ plan.default # Null
    BY <1>0, UpdateFacts, DiffFacts, HasAccountIsAccount
  <2>2. plan # NoUser /\ state # NoUser
    BY <1>0 DEF IInv, PlanChecked
  <2>3. plan.admin # Null
    BY <1>0, <1>2, <2>2 DEF WInv, AdminIsKnown
  <2>4. AdminIsKnown'
    BY <1>0, <2>3 DEF AdminIsKnown
  <2>5. /\ HoldsUser(srv, IF pc \in {"updCreate", "updUser"} THEN state ELSE plan)
        /\ ~foreign => HoldsDefault(srv, IF pc \in {"updCreate", "updUser"} THEN state ELSE plan)
    BY <1>0, <1>2 DEF WInv, UserWritten
  <2>6. /\ todo = DiffDelete(state.assocs, plan.assocs)
        /\ Keys(srv.assocs) = IF pc = "updCreate" THEN Keys(state.assocs)
                                                  ELSE Keys(plan.assocs) \cup todo
        /\ \A k \in Keys(plan.assocs) :
             \/ pc = "updCreate" /\ k \in created
             \/ k \in changed
             \/ HoldsRow(srv, plan, k)
    BY <1>0, <1>2 DEF WInv, RowsWritten
  \* It is enough to look at the user and at the rows afterwards.
  <2>7. SUFFICES /\ HoldsUser(srv', IF pc' = "updUser" THEN state ELSE plan)
                 /\ ~foreign => HoldsDefault(srv', IF pc' = "updUser" THEN state ELSE plan)
                 /\ Keys(srv'.assocs) = Keys(plan.assocs) \cup todo
                 /\ \A k \in Keys(plan.assocs) :
                      (pc' # "updDelete" /\ k \in changed) \/ HoldsRow(srv', plan, k)
    <3> SUFFICES UserWritten' /\ RowsWritten'
      BY <1>0, <2>4 DEF WInv, CreateWritten, UpdateCalls
    <3>1. UserWritten'
      BY <1>0, <2>7 DEF UserWritten, HoldsUser, HoldsDefault
    <3>2. RowsWritten'
      BY <1>0, <2>6, <2>7
         DEF RowsWritten, HoldsRow, APIValue, DiffUpdate, DiffDelete, Keys, AssociationsEqual
    <3> QED BY <3>1, <3>2
  <2>8. CASE UpdateCreateAssociations
    <3>1. pc = "updCreate" /\ pc' = AfterCreate /\ srv' \in ServerUpsert(srv, created, plan.assocs)
      BY <2>8 DEF UpdateCreateAssociations
    <3>2. HoldsUser(srv', state) /\ (~foreign => HoldsDefault(srv', state))
      BY <2>1, <2>5, <3>1, UpsertKeepsUser DEF HoldsUser, HoldsDefault
    <3>3. pc' # "updUser" => ~UserChanged
      BY <3>1 DEF AfterCreate
    <3>4. Keys(srv'.assocs) = Keys(plan.assocs) \cup todo
      <4>1. Keys(srv'.assocs) = Keys(srv.assocs) \cup created
        BY <2>1, <3>1, UpsertGood
      <4> QED BY <2>6, <3>1, <4>1 DEF DiffCreate, DiffDelete
    <3>5. pc' = "updDelete" => changed = {}
      BY <3>1 DEF AfterCreate, AfterUser
    <3>6. \A k \in Keys(plan.assocs) : k \in changed \/ HoldsRow(srv', plan, k)
      BY <2>1, <2>6, <3>1, UpsertedIsShown
    <3> QED BY <3>2, <3>3, <3>4, <3>5, <3>6, UserUnchangedHolds
  <2>9. CASE UpdateUser
    <3>1. pc = "updUser" /\ pc' = AfterUser /\ srv' \in ServerUpdateUser(srv, plan)
      BY <2>9 DEF UpdateUser
    <3>2. /\ srv'.user /\ srv'.admin = plan.admin /\ srv'.default = plan.default
          /\ srv'.assocs = srv.assocs
          /\ srv'.wckey = IF plan.wckey = Null THEN srv.wckey ELSE plan.wckey
      BY <2>1, <2>3, <3>1, UpdateUserGood, UpdateUserWrites
    <3>3. HoldsUser(srv', plan) /\ HoldsDefault(srv', plan)
      BY <2>1, <3>2 DEF HoldsUser, HoldsDefault
    <3>4. pc' # "updUser" /\ (pc' = "updDelete" => changed = {})
      BY <3>1 DEF AfterUser
    <3>5. Keys(srv'.assocs) = Keys(plan.assocs) \cup todo
      BY <2>6, <3>1, <3>2
    <3>6. \A k \in Keys(plan.assocs) : k \in changed \/ HoldsRow(srv', plan, k)
      BY <2>6, <3>1, <3>2 DEF HoldsRow, APIValue
    <3> QED BY <3>3, <3>4, <3>5, <3>6
  <2>10. CASE UpdateAssociations
    <3>1. pc = "updAssocs" /\ pc' = "updDelete" /\ srv' \in ServerUpsert(srv, changed, plan.assocs)
      BY <2>10 DEF UpdateAssociations
    <3>2. HoldsUser(srv', plan) /\ (~foreign => HoldsDefault(srv', plan))
      BY <2>1, <2>5, <3>1, UpsertKeepsUser DEF HoldsUser, HoldsDefault
    <3>3. Keys(srv'.assocs) = Keys(plan.assocs) \cup todo
      BY <2>1, <2>6, <3>1, UpsertGood
    <3>4. \A k \in Keys(plan.assocs) : HoldsRow(srv', plan, k)
      BY <2>1, <2>6, <3>1, UpsertedIsShown
    <3> QED BY <3>1, <3>2, <3>3, <3>4
  <2> QED BY <2>8, <2>9, <2>10
<1> QED BY <1>1, <1>2

LEMMA DeleteWStep ==
  ASSUME DeletesOneRow, IInv, WInv, NEW k \in todo, DeleteAssociation(k)
  PROVE  WInv'
<1>0. /\ pc = "updDelete" /\ pc' = "updDelete" /\ srv' \in ServerDelete(srv, k) /\ todo' = todo \ {k}
      /\ UNCHANGED <<state, plan, quiet, foreign>> /\ PlanIsConfigured'
  BY DEF DeleteAssociation, WInv, PlanIsConfigured
<1>1. CASE ~quiet
  BY <1>0, <1>1, NothingWritten
<1>2. CASE quiet
  <2>1. /\ k \in Key /\ k \notin Keys(plan.assocs) /\ GoodServer(srv)
    BY <1>0, UpdateFacts, DiffFacts DEF UpdateCalls
  <2>2. /\ HoldsUser(srv, plan) /\ (~foreign => HoldsDefault(srv, plan))
        /\ Keys(srv.assocs) = Keys(plan.assocs) \cup todo
        /\ \A j \in Keys(plan.assocs) : HoldsRow(srv, plan, j)
    BY <1>0, <1>2 DEF WInv, UserWritten, RowsWritten, UpdateCalls
  <2>3. Selected(srv, k) = {k}
    <3>1. Selected(srv, k) \subseteq {k}
      BY <1>0, <2>1, <2>2, SelectedAlone
    <3>2. k \in Selected(srv, k)
      BY <2>2 DEF Selected
    <3> QED BY <3>1, <3>2
  <2>4. srv' = [srv EXCEPT !.assocs = Without(srv, {k})]
    BY <1>0, <2>3 DEF ServerDelete
  <2>5. /\ srv'.assocs = Without(srv, {k}) /\ srv'.user = srv.user /\ srv'.admin = srv.admin
        /\ srv'.wckey = srv.wckey /\ srv'.default = srv.default
    BY <2>1, <2>4 DEF GoodServer, Server
  <2>6. UserWritten'
    BY <1>0, <2>2, <2>5 DEF UserWritten, HoldsUser, HoldsDefault
  <2>7. Keys(srv'.assocs) = Keys(plan.assocs) \cup todo'
    BY <1>0, <2>1, <2>2, <2>5 DEF Without, Keys
  <2>8. \A j \in Keys(plan.assocs) : HoldsRow(srv', plan, j)
    BY <2>1, <2>2, <2>5 DEF HoldsRow, APIValue, Without, Keys
  <2>9. RowsWritten'
    BY <1>0, <2>7, <2>8 DEF RowsWritten, HoldsRow, APIValue, Keys
  <2>10. AdminIsKnown'
    BY <1>0 DEF WInv, AdminIsKnown, UpdateCalls
  <2> QED BY <1>0, <2>6, <2>9, <2>10 DEF WInv, CreateWritten
<1> QED BY <1>1, <1>2

LEMMA NextWInv == ASSUME DeletesOneRow PROVE IInv /\ RInv /\ WInv /\ [Next]_vars => WInv'
<1> SUFFICES ASSUME IInv, RInv, WInv, [Next]_vars PROVE WInv'
  OBVIOUS
<1>1. CASE UNCHANGED vars
  BY <1>1 DEF vars, env, WInv, PlanIsConfigured, AdminIsKnown, UserWritten, RowsWritten,
     CreateWritten, HoldsUser, HoldsDefault, HoldsRow, APIValue, Stored, DiffCreate, DiffUpdate,
     DiffDelete, AssociationsEqual, Keys
<1>2. CASE \/ ValidateConfig \/ StartPlan \/ StartImport \/ Read \/ FinishUpdate \/ Delete
           \/ Refused \/ Fail \/ EditConfig \/ Interfere
  <2>1. plan' = plan
    BY <1>2 DEF ValidateConfig, StartPlan, StartImport, Read, ReadGetUser, ReadGetAssociations,
       FinishUpdate, Delete, ApplyDelete, DeleteUser, Refused, Fail, EditConfig, Interfere
  <2>2. ~quiet' \/ pc' \in {"idle", "getUser", "getAssocs", "refreshed", "delete"}
    BY <1>2 DEF ValidateConfig, StartPlan, StartImport, Read, ReadGetUser, ReadGetAssociations,
       FinishUpdate, Delete, ApplyDelete, DeleteUser, Refused, Fail, EditConfig, Interfere, End
  <2> QED BY <2>1, <2>2, NothingWritten DEF UpdateCalls, WInv, PlanIsConfigured
<1>3. CASE Update
  BY <1>2, <1>3, ApplyUpdateWStep, UpdateWStep, DeleteWStep DEF Update
<1> QED BY <1>1, <1>2, <1>3, PlanWStep, CreateWStep DEF Next, Progress

LEMMA SpecWInv == ASSUME DeletesOneRow PROVE Spec => []WInv
BY InitWInv, NextWInv, SpecIInv, SpecRInv, PTL DEF Spec

-----------------------------------------------------------------------------
(* What follows for a command that nothing disturbs *)

\* allowed_qos = [] cannot be applied (client/assoc.go: omitempty), so it is
\* the one declaration that does not read back.
NoEmptyLists ==
  \A c \in Configs \ {NoUser} : \A k \in Keys(c.assocs), f \in Fields : c.assocs[k][f] # EmptyList

\* What slurmdbd holds of m, a refresh with the prior m reads back as m.
LEMMA HeldReadsBack ==
  ASSUME NEW s, GoodServer(s), NEW m \in Model, HoldsUser(s, m), HoldsDefault(s, m),
         Keys(s.assocs) = Keys(m.assocs), \A k \in Keys(m.assocs) : HoldsRow(s, m, k),
         \A k \in Keys(m.assocs), f \in Fields : m.assocs[k][f] # EmptyList
  PROVE  ReadModel(m, UserObject(s), s) = m
<1> DEFINE r == ReadModel(m, UserObject(s), s)
<1>1. r.admin = m.admin
  BY DEF ReadModel, UserObject, HoldsUser
<1>2. r.wckey = m.wckey
  BY DEF ReadModel, UserObject, APIWCKey, HoldsUser
<1>3. r.default = m.default
  BY DEF ReadModel, HoldsDefault, GoodServer
<1>4. r.assocs = m.assocs
  <2>1. r.assocs = APIAssociationsToState(m.assocs, s)
    BY DEF ReadModel
  <2>2. m.assocs \in AssocMap
    BY DEF Model
  <2>3. ASSUME NEW k \in Key PROVE APIAssociationsToState(m.assocs, s)[k] = m.assocs[k]
    <3>1. CASE k \notin Keys(m.assocs)
      <4>1. m.assocs[k] = NoAssoc /\ s.assocs[k] = NoAssoc
        BY <3>1 DEF Keys
      <4> QED BY <4>1 DEF APIAssociationsToState
    <3>2. CASE k \in Keys(m.assocs)
      <4>1. m.assocs[k] \in Attrs /\ m.assocs[k] # NoAssoc /\ s.assocs[k] # NoAssoc
        BY <2>2, <3>2 DEF Keys, AssocMap
      <4>2. \A f \in Fields : ReadField(m.assocs[k], f, APIValue(s, k, f)) = m.assocs[k][f]
        BY <3>2, <4>1 DEF ReadField, HoldsRow
      <4>3. APIAssociationsToState(m.assocs, s)[k]
              = [f \in Fields |-> ReadField(m.assocs[k], f, APIValue(s, k, f))]
        BY <4>1 DEF APIAssociationsToState
      <4>4. m.assocs[k] = [f \in Fields |-> m.assocs[k][f]]
        BY <4>1 DEF Attrs
      <4> QED BY <4>2, <4>3, <4>4
    <3> QED BY <3>1, <3>2
  <2> QED BY <2>1, <2>2, <2>3 DEF APIAssociationsToState, AssocMap
<1>5. r = [admin |-> r.admin, wckey |-> r.wckey, default |-> r.default, assocs |-> r.assocs]
  BY DEF ReadModel
<1>6. m = [admin |-> m.admin, wckey |-> m.wckey, default |-> m.default, assocs |-> m.assocs]
  BY DEF Model
<1> QED BY <1>1, <1>2, <1>3, <1>4, <1>5, <1>6

(* What an apply that nothing disturbed leaves in slurmdbd, found there or *)
(* not: every association it stored with every value it sent, after an     *)
(* update no other association and the user row as stored; and but for a   *)
(* user that Create finds there (or Read without default account) all of   *)
(* it, with no other row than that of the bootstrap call.                  *)
AppliedIsInForce ==
  pc = "idle" /\ quiet /\ result \in {"created", "updated"} =>
    /\ state # NoUser /\ plan # NoUser /\ state.assocs = plan.assocs
    /\ srv.user /\ Keys(state.assocs) \subseteq Keys(srv.assocs)
    /\ \A k \in Keys(state.assocs) : HoldsRow(srv, state, k)
    /\ result = "updated" => HoldsUser(srv, state) /\ Keys(srv.assocs) = Keys(state.assocs)
    /\ ~foreign =>
         /\ HoldsUser(srv, state) /\ HoldsDefault(srv, state)
         /\ Keys(srv.assocs) \subseteq Keys(state.assocs) \cup {<<state.default, NoPartition>>}

\* The last step of an update.
LEMMA FinishedIsInForce == ASSUME IInv, WInv, FinishUpdate PROVE AppliedIsInForce'
<1> SUFFICES ASSUME quiet PROVE AppliedIsInForce'
  BY DEF FinishUpdate, AppliedIsInForce
<1>1. pc = "updDelete" /\ todo = {} /\ UNCHANGED <<srv, plan, foreign>> /\ state' = plan
  BY DEF FinishUpdate
<1>2. HoldsUser(srv, plan) /\ (~foreign => HoldsDefault(srv, plan))
  BY <1>1 DEF WInv, UserWritten, UpdateCalls
<1>3. Keys(srv.assocs) = Keys(plan.assocs) /\ \A k \in Keys(plan.assocs) : HoldsRow(srv, plan, k)
  BY <1>1 DEF WInv, RowsWritten, UpdateCalls
<1>4. plan # NoUser
  BY <1>1 DEF IInv, PlanChecked, UpdateCalls
<1> QED BY <1>1, <1>2, <1>3, <1>4 DEF AppliedIsInForce, HoldsUser, HoldsDefault, HoldsRow, APIValue, Keys

\* The last call of Create.
LEMMA CreatedIsInForce == ASSUME IInv, WInv, CreateAssociations PROVE AppliedIsInForce'
<1> SUFFICES ASSUME quiet PROVE AppliedIsInForce'
  BY DEF CreateAssociations, AppliedIsInForce
<1>1. /\ pc = "createAssocs" /\ state' = Stored(plan) /\ UNCHANGED <<plan, foreign>>
      /\ srv' \in ServerUpsert(srv, Keys(plan.assocs), plan.assocs) /\ result' = "created"
  BY DEF CreateAssociations, End, Stored
<1>2. plan \in Model /\ plan # NoUser /\ plan.assocs \in AssocMap /\ GoodServer(srv)
  BY <1>1, TypeOKGood DEF IInv, TypeOK, PlanChecked, CreateCalls, Model
<1>3. Stored(plan) \in Model /\ Stored(plan).assocs = plan.assocs /\ Stored(plan).default = plan.default
  BY <1>2, ConstantsAssumption DEF Stored, Model
<1>4. srv'.user /\ Keys(srv'.assocs) = Keys(srv.assocs) \cup Keys(plan.assocs)
  BY <1>1, <1>2, UpsertKeepsUser, UpsertGood
<1>5. \A k \in Keys(plan.assocs) : HoldsRow(srv', Stored(plan), k)
  <2>1. \A k \in Keys(plan.assocs) : HoldsRow(srv', plan, k)
    BY <1>1, <1>2, UpsertedIsShown
  <2> QED BY <1>3, <2>1 DEF HoldsRow
<1>6. ~foreign => /\ HoldsUser(srv', Stored(plan)) /\ HoldsDefault(srv', Stored(plan))
                  /\ Keys(srv.assocs) = {<<plan.default, NoPartition>>}
  <2> SUFFICES ASSUME ~foreign
               PROVE  /\ HoldsUser(srv', Stored(plan)) /\ HoldsDefault(srv', Stored(plan))
                      /\ Keys(srv.assocs) = {<<plan.default, NoPartition>>}
    OBVIOUS
  <2>1. /\ Keys(srv.assocs) = {<<plan.default, NoPartition>>}
        /\ HoldsDefault(srv, plan) /\ HoldsUser(srv, Stored(plan))
    BY <1>1 DEF WInv, CreateWritten
  <2> QED BY <1>1, <1>2, <1>3, <2>1, UpsertKeepsUser DEF HoldsUser, HoldsDefault
<1>7. Stored(plan) # NoUser
  BY <1>3, ConstantsAssumption
<1> QED BY <1>1, <1>2, <1>3, <1>4, <1>5, <1>6, <1>7
        DEF AppliedIsInForce, HoldsUser, HoldsDefault, HoldsRow, APIValue, Keys

LEMMA NextAppliedIsInForce == IInv /\ WInv /\ AppliedIsInForce /\ [Next]_vars => AppliedIsInForce'
<1> SUFFICES ASSUME IInv, WInv, AppliedIsInForce, [Next]_vars PROVE AppliedIsInForce'
  OBVIOUS
<1>1. CASE UNCHANGED vars
  BY <1>1 DEF vars, AppliedIsInForce, HoldsUser, HoldsDefault, HoldsRow, APIValue, Keys
<1>2. CASE FinishUpdate \/ CreateAssociations
  BY <1>2, FinishedIsInForce, CreatedIsInForce
<1>3. CASE \/ ValidateConfig \/ StartPlan \/ StartImport \/ Read \/ Plan \/ Delete \/ Refused
           \/ Fail \/ EditConfig \/ Interfere
  BY <1>3 DEF AppliedIsInForce, ValidateConfig, StartPlan, StartImport, Read, ReadGetUser,
     ReadGetAssociations, Plan, Delete, ApplyDelete, DeleteUser, Refused, Fail, EditConfig,
     Interfere, End
<1>4. CASE ApplyCreate \/ CreateUserWithAssociation \/ CreateUpdateUser
  BY <1>4 DEF AppliedIsInForce, ApplyCreate, CreateUserWithAssociation, CreateUpdateUser, End
<1>5. CASE ApplyUpdate \/ UpdateCreateAssociations \/ UpdateUser \/ UpdateAssociations
           \/ \E k \in todo : DeleteAssociation(k)
  BY <1>5 DEF AppliedIsInForce, ApplyUpdate, UpdateCreateAssociations, UpdateUser,
     UpdateAssociations, DeleteAssociation, FirstCall, AfterCreate, AfterUser, End
<1> QED BY <1>1, <1>2, <1>3, <1>4, <1>5 DEF Next, Progress, Create, Update

(* An apply that nothing disturbed has done what it says, whatever failed  *)
(* or was changed before it: slurmdbd has every association and value that *)
(* is stored, and after an update nothing else.                            *)
THEOREM ApplyIsComplete == ASSUME DeletesOneRow PROVE Spec => []AppliedIsInForce
<1>1. Init => AppliedIsInForce
  BY DEF Init, AppliedIsInForce
<1> QED BY <1>1, NextAppliedIsInForce, SpecIInv, SpecWInv, PTL DEF Spec

(* The acceptance tests' "second plan shows no drift": unless a DELETE     *)
(* takes rows that were not asked for or a list is declared empty, what a  *)
(* create or an update stores is exactly what the next refresh reads.      *)
THEOREM AppliedReadsBack ==
  ASSUME DeletesOneRow, NoEmptyLists
  PROVE  Spec => []ApplyReadsBack
<1>1. IInv /\ WInv /\ AppliedIsInForce => ApplyReadsBack
  <2> SUFFICES ASSUME IInv, WInv, AppliedIsInForce,
                      pc = "idle", quiet, ~foreign, result \in {"created", "updated"},
                      result = "created" => <<state.default, NoPartition>> \in Keys(state.assocs)
               PROVE  Refreshed = state
    BY DEF ApplyReadsBack
  <2>1. /\ state # NoUser /\ plan # NoUser /\ state.assocs = plan.assocs
        /\ HoldsUser(srv, state) /\ HoldsDefault(srv, state)
        /\ Keys(srv.assocs) = Keys(state.assocs)
        /\ \A k \in Keys(state.assocs) : HoldsRow(srv, state, k)
    BY DEF AppliedIsInForce
  <2>2. \A k \in Keys(state.assocs), f \in Fields : state.assocs[k][f] # EmptyList
    BY <2>1 DEF WInv, PlanIsConfigured, NoEmptyLists
  <2>3. state \in Model /\ GoodServer(srv)
    BY <2>1, TypeOKGood DEF IInv, TypeOK
  <2> QED BY <2>1, <2>2, <2>3, HeldReadsBack DEF Refreshed
<1> QED BY <1>1, SpecIInv, SpecWInv, ApplyIsComplete, PTL

-----------------------------------------------------------------------------
(* The plan after an apply *)

(* After an apply that nothing disturbed, the next plan of the same        *)
(* configuration is empty.  Left out is what ApplyReadsBack leaves out.    *)
SecondPlanIsEmpty ==
  /\ pc = "idle" /\ quiet /\ ~foreign /\ result \in {"created", "updated"}
  /\ result = "created" => <<state.default, NoPartition>> \in Keys(state.assocs)
  => Planned(config, Refreshed) = Refreshed

\* What is carried out is the plan of the configuration as it is now, and what
\* is stored would be planned again.
CarriesOutPlan ==
  /\ pc \in {"planned"} \cup Calls => plan = Planned(config, state)
  /\ pc \in CreateCalls => state = NoUser
  /\ pc = "idle" /\ result \in {"created", "updated"} => Planned(config, state) = state

LEMMA PlannedAgain ==
  ASSUME NEW c \in Model, NEW st \in Model \cup {NoUser}, NEW p, p = Planned(c, st)
  PROVE  /\ st # NoUser => Planned(c, p) = p
         /\ st = NoUser => Planned(c, Stored(p)) = Stored(p)
<1>0. NoUser \notin Model
  BY ConstantsAssumption
<1> DEFINE filled(a) == [c EXCEPT !.admin = IF c.admin = Null THEN a ELSE c.admin]
<1>1. /\ \A a : filled(a).admin = IF c.admin = Null THEN a ELSE c.admin
      /\ c \in Model /\ c # NoUser
  BY <1>0 DEF Model
<1>2. \A a, b : filled(a).admin = b => filled(b) = filled(a)
  BY <1>1
<1>3. CASE st # NoUser
  <2>1. p = filled(st.admin)
    BY <1>0, <1>3 DEF Planned
  <2>2. p \in Model
    BY <1>3, <2>1 DEF Model
  <2>3. Planned(c, p) = filled(p.admin)
    BY <1>0, <2>2 DEF Planned
  <2> QED BY <1>2, <1>3, <2>1, <2>3
<1>4. CASE st = NoUser
  <2>1. p = c
    BY <1>4 DEF Planned
  <2>2. Stored(p) = filled(NoneLevel)
    BY <2>1 DEF Stored, Model
  <2>3. Stored(p) \in Model
    BY <2>1, ConstantsAssumption DEF Stored, Model
  <2>4. Planned(c, Stored(p)) = filled(Stored(p).admin)
    BY <1>0, <2>3 DEF Planned
  <2> QED BY <1>2, <1>4, <2>2, <2>4
<1> QED BY <1>3, <1>4

LEMMA NextCarriesOut == IInv /\ CarriesOutPlan /\ [Next]_vars => CarriesOutPlan'
<1> SUFFICES ASSUME IInv, CarriesOutPlan, [Next]_vars PROVE CarriesOutPlan'
  OBVIOUS
<1>1. CASE UNCHANGED vars
  BY <1>1 DEF vars, CarriesOutPlan
<1>2. CASE Plan
  <2>1. /\ plan' = Planned(config, state) /\ UNCHANGED <<config, state>>
        /\ pc' = "planned" \/ (pc' = "idle" /\ result' = "clean")
    BY <1>2 DEF Plan, End
  <2> QED BY <2>1 DEF CarriesOutPlan, Calls, CreateCalls
<1>3. CASE CreateAssociations \/ FinishUpdate
  <2>1. pc \in Calls /\ plan = Planned(config, state) /\ config' = config /\ pc' = "idle"
    BY <1>3 DEF CreateAssociations, FinishUpdate, CarriesOutPlan, Calls, End
  <2>2. plan # NoUser /\ (FinishUpdate => state # NoUser)
    BY <1>3 DEF CreateAssociations, FinishUpdate, IInv, PlanChecked, CreateCalls, UpdateCalls
  <2>3. config \in Model /\ state \in Model \cup {NoUser}
    BY <2>1, <2>2, ConfigIsModel DEF Planned, IInv, TypeOK
  <2>4. Planned(config, state') = state'
    <3>1. CASE FinishUpdate
      <4>1. state # NoUser /\ state' = plan
        BY <2>2, <3>1 DEF FinishUpdate
      <4> QED BY <2>1, <2>3, <4>1, PlannedAgain
    <3>2. CASE CreateAssociations
      <4>1. state = NoUser /\ state' = Stored(plan)
        BY <3>2 DEF CreateAssociations, CarriesOutPlan, CreateCalls, Stored
      <4> QED BY <2>1, <2>3, <4>1, PlannedAgain
    <3> QED BY <1>3, <3>1, <3>2
  <2> QED BY <2>1, <2>4 DEF CarriesOutPlan, Calls, CreateCalls
<1>4. CASE ValidateConfig \/ StartPlan \/ StartImport \/ Read \/ EditConfig \/ Fail \/ Refused \/ DeleteUser
  BY <1>4 DEF ValidateConfig, StartPlan, StartImport, Read, ReadGetUser, ReadGetAssociations,
     EditConfig, Fail, Refused, DeleteUser, End, CarriesOutPlan, Calls, CreateCalls
<1>5. CASE ApplyCreate \/ CreateUserWithAssociation \/ CreateUpdateUser \/ ApplyDelete \/ Interfere
  BY <1>5 DEF ApplyCreate, CreateUserWithAssociation, CreateUpdateUser, ApplyDelete, Interfere,
     End, CarriesOutPlan, Calls, CreateCalls
<1>6. CASE ApplyUpdate \/ UpdateCreateAssociations \/ UpdateUser \/ UpdateAssociations
           \/ \E k \in todo : DeleteAssociation(k)
  <2>1. /\ pc \in {"planned"} \cup Calls /\ UNCHANGED <<config, state, plan>>
        /\ pc' \in UpdateCalls \/ (pc' = "idle" /\ result' = "failed")
    BY <1>6 DEF ApplyUpdate, UpdateCreateAssociations, UpdateUser, UpdateAssociations,
       DeleteAssociation, FirstCall, AfterCreate, AfterUser, End, Calls, UpdateCalls
  <2> QED BY <2>1 DEF CarriesOutPlan, Calls, CreateCalls, UpdateCalls
<1> QED BY <1>1, <1>2, <1>3, <1>4, <1>5, <1>6 DEF Next, Progress, Create, Update, Delete

LEMMA SpecCarriesOut == Spec => []CarriesOutPlan
<1>1. Init => CarriesOutPlan
  BY DEF Init, CarriesOutPlan, Calls, CreateCalls
<1> QED BY <1>1, NextCarriesOut, SpecIInv, PTL DEF Spec

(* What the acceptance tests check of a few configurations: the plan after *)
(* an apply that nothing disturbed has nothing to do.                      *)
THEOREM SecondPlanHasNoDrift ==
  ASSUME DeletesOneRow, NoEmptyLists
  PROVE  Spec => []SecondPlanIsEmpty
<1>1. CarriesOutPlan /\ ApplyReadsBack => SecondPlanIsEmpty
  BY DEF CarriesOutPlan, ApplyReadsBack, SecondPlanIsEmpty
<1> QED BY <1>1, SpecCarriesOut, AppliedReadsBack, PTL

-----------------------------------------------------------------------------
(* No request refused without a reason, no planned row lost *)

\* Once Create or Update has found or made the user, it stays.
UserIsThere == quiet /\ pc \in {"createAttrs", "createAssocs"} \cup UpdateCalls => srv.user

\* Where a command stands or ends without the user.
LEMMA NoUserPromise ==
  ASSUME ~quiet' \/ pc' \notin {"createAttrs", "createAssocs"} \cup UpdateCalls
  PROVE  UserIsThere'
BY DEF UserIsThere

LEMMA NextUserIsThere == IInv /\ RInv /\ UserIsThere /\ [Next]_vars => UserIsThere'
<1> SUFFICES ASSUME IInv, RInv, UserIsThere, [Next]_vars PROVE UserIsThere'
  OBVIOUS
<1>0. GoodServer(srv)
  BY TypeOKGood DEF IInv
<1>1. CASE UNCHANGED vars
  BY <1>1 DEF vars, UserIsThere
<1>2. CASE \/ ValidateConfig \/ StartPlan \/ StartImport \/ Read \/ Plan \/ FinishUpdate \/ Delete
           \/ Refused \/ Fail \/ EditConfig \/ ApplyCreate \/ CreateAssociations
  BY <1>2, NoUserPromise DEF ValidateConfig, StartPlan, StartImport, Read, ReadGetUser,
     ReadGetAssociations, Plan, FinishUpdate, Delete, ApplyDelete, DeleteUser, Refused, Fail,
     EditConfig, ApplyCreate, CreateAssociations, End, UpdateCalls
<1>3. CASE Interfere
  BY <1>3 DEF Interfere, UserIsThere
<1>4. CASE CreateUserWithAssociation
  <2>1. pc = "create" /\ srv' \in ServerCreateUser(srv, plan.default)
    BY <1>4 DEF CreateUserWithAssociation
  <2>2. plan.default \in Accounts
    BY <2>1, HasAccountIsAccount DEF IInv, PlanChecked, CreateCalls
  <2> QED BY <1>0, <2>1, <2>2, CreateUserWrites DEF UserIsThere
<1>5. CASE CreateUpdateUser
  <2>1. pc = "createAttrs" /\ srv' \in ServerUpdateUser(srv, CreateAttrsBody(plan))
    BY <1>5 DEF CreateUpdateUser
  <2>2. CreateAttrsBody(plan) \in Model
    BY <2>1 DEF IInv, TypeOK, PlanChecked, CreateCalls, CreateAttrsBody, Model
  <2> QED BY <1>0, <2>1, <2>2, UpdateUserWrites DEF UserIsThere
<1>6. CASE ApplyUpdate
  <2>1. quiet => srv.user
    BY <1>6 DEF ApplyUpdate, RInv, RefreshIsTrue, HoldsUser
  <2> QED BY <1>6, <2>1 DEF ApplyUpdate, UserIsThere
<1>7. CASE UpdateCreateAssociations \/ UpdateAssociations
  <2>1. \E ks : srv' \in ServerUpsert(srv, ks, plan.assocs)
    BY <1>7 DEF UpdateCreateAssociations, UpdateAssociations
  <2> QED BY <1>0, <2>1, UpsertKeepsUser DEF UserIsThere
<1>8. CASE UpdateUser
  <2>1. plan \in Model /\ srv' \in ServerUpdateUser(srv, plan)
    BY <1>8, UpdateFacts DEF UpdateUser, UpdateCalls
  <2> QED BY <1>0, <2>1, UpdateUserWrites DEF UserIsThere
<1>9. ASSUME NEW k \in todo, DeleteAssociation(k) PROVE UserIsThere'
  <2>1. /\ srv' = [srv EXCEPT !.assocs = Without(srv, Selected(srv, k))]
        /\ pc = "updDelete" /\ UNCHANGED <<pc, quiet>>
    BY <1>9 DEF DeleteAssociation, ServerDelete
  <2>2. srv'.user = srv.user
    BY <1>0, <2>1 DEF GoodServer, Server
  <2> QED BY <2>1, <2>2 DEF UserIsThere, UpdateCalls
<1> QED BY <1>1, <1>2, <1>3, <1>4, <1>5, <1>6, <1>7, <1>8, <1>9
        DEF Next, Progress, Create, Update

LEMMA SpecUserIsThere == Spec => []UserIsThere
<1>1. Init => UserIsThere
  BY DEF Init, UserIsThere, UpdateCalls
<1> QED BY <1>1, NextUserIsThere, SpecIInv, SpecRInv, PTL DEF Spec

\* With everything an earlier call wrote in place, only the QOS rules and an
\* unscoped association next to another one get a request refused.
LEMMA RefusedWhy ==
  ASSUME IInv, UserIsThere, quiet, Refused
  PROVE  \/ Denied(plan)
         \/ /\ state # NoUser
            /\ \E k \in todo : k[2] = NoPartition /\ \E j \in Keys(srv.assocs) \ {k} : j[1] = k[1]
<1>0. pc \in Calls /\ GoodServer(srv)
  BY TypeOKGood DEF Refused, IInv
<1>1. ASSUME NEW p, srv.user, HasAccountAssociation(srv.assocs, p.default)
      PROVE  ServerUpdateUser(srv, p) # {}
  BY <1>1 DEF ServerUpdateUser
<1>2. ASSUME pc \in Upserts PROVE Denied(plan)
  <2> DEFINE rows == [k \in Key |-> IF k \in Batch THEN Upserted(srv.assocs[k], plan.assocs[k])
                                                   ELSE srv.assocs[k]]
             d    == IF srv.default = Null THEN Null ELSE srv.default
  <2>1. ServerUpsert(srv, Batch, plan.assocs) = {}
    BY <1>2 DEF Refused, Upserts
  <2>2. srv.user
    BY <1>2 DEF UserIsThere, Upserts, UpdateCalls
  <2>3. [srv EXCEPT !.assocs = rows, !.default = d] \notin ServerUpsert(srv, Batch, plan.assocs)
    BY <2>1
  <2>4. PICK k \in Batch : Upserted(srv.assocs[k], plan.assocs[k]) \in QosDenied[k]
    BY <2>2, <2>3 DEF ServerUpsert
  <2>5. Batch \subseteq Keys(plan.assocs)
    BY <1>2 DEF Upserts, Batch, DiffCreate, DiffUpdate
  <2> QED BY <2>4, <2>5 DEF Denied
<1>3. pc # "create"
  <2> SUFFICES ASSUME pc = "create" PROVE FALSE
    OBVIOUS
  <2>1. plan.default \in Accounts /\ plan.default # Null
    BY HasAccountIsAccount DEF IInv, PlanChecked, CreateCalls
  <2> DEFINE base == IF srv.user THEN srv ELSE [NoServerUser EXCEPT !.user = TRUE]
             key  == <<plan.default, NoPartition>>
             add  == [base.assocs EXCEPT ![key] = IF @ = NoAssoc THEN Blank ELSE @]
  <2>2. [base EXCEPT !.assocs = add, !.default = plan.default] \in ServerCreateUser(srv, plan.default)
    BY <2>1, Zenon DEF ServerCreateUser
  <2>3. ServerCreateUser(srv, plan.default) = {}
    <3>1. CallEffects = ServerCreateUser(srv, plan.default)
      BY DEF CallEffects, Upserts
    <3> QED BY <3>1 DEF Refused, Upserts
  <2> QED BY <2>2, <2>3, Zenon
<1>4. pc # "createAttrs"
  <2> SUFFICES ASSUME pc = "createAttrs" PROVE FALSE
    OBVIOUS
  <2>1. srv.user /\ HasAccountAssociation(srv.assocs, plan.default)
    BY DEF UserIsThere, IInv, NewDefaultInPlace
  <2>2. CreateAttrsBody(plan).default = plan.default
    BY DEF CreateAttrsBody, IInv, TypeOK, PlanChecked, CreateCalls, Model
  <2> QED BY <1>1, <2>1, <2>2 DEF Refused, CallEffects, Upserts
<1>5. pc # "updUser"
  <2> SUFFICES ASSUME pc = "updUser" PROVE FALSE
    OBVIOUS
  <2>1. srv.user /\ HasAccountAssociation(srv.assocs, plan.default)
    BY DEF UserIsThere, IInv, NewDefaultInPlace, PlanChecked, UpdateCalls, HasAccountAssociation
  <2> QED BY <1>1, <2>1 DEF Refused, CallEffects, Upserts
\* The default account keeps an association that is not to be deleted.
<1>6. CASE pc = "updDelete"
  <2>1. PICK k \in todo : ServerDelete(srv, k) = {}
    BY <1>6 DEF Refused, Upserts
  <2>2. state # NoUser /\ k \in Key
    BY <1>6 DEF IInv, PlanChecked, UpdateCalls, TypeOK
  <2>3. \/ \E i, j \in Selected(srv, k) : i # j
        \/ /\ srv.default # Null
           /\ \/ <<srv.default, NoPartition>> \in Selected(srv, k)
              \/ ~HasAccountAssociation(Without(srv, Selected(srv, k)), srv.default)
    BY <2>1 DEF ServerDelete
  <2>4. /\ Selected(srv, k) \subseteq Keys(srv.assocs)
        /\ \A j \in Selected(srv, k) : j = k \/ (k[2] = NoPartition /\ j[1] = k[1])
    BY DEF Selected
  <2>5. CASE \E i, j \in Selected(srv, k) : i # j
    BY <2>2, <2>4, <2>5
  <2>6. CASE ~\E i, j \in Selected(srv, k) : i # j
    <3>1. PICK j \in Keys(srv.assocs) : j \notin todo /\ j[1] = srv.default
      BY <1>6, <2>3, <2>6 DEF IInv, DefaultSurvives, HasAccountAssociation, Without, Keys
    <3>2. j # k /\ j \in Key
      BY <3>1 DEF Keys
    <3>3. CASE <<srv.default, NoPartition>> \in Selected(srv, k)
      <4>1. k[2] = NoPartition /\ k[1] = srv.default
        BY <2>4, <3>3
      <4> QED BY <2>2, <3>1, <3>2, <4>1
    <3>4. CASE ~HasAccountAssociation(Without(srv, Selected(srv, k)), srv.default)
      <4>1. j \in Selected(srv, k)
        BY <3>1, <3>2, <3>4 DEF HasAccountAssociation, Without, Keys
      <4> QED BY <2>2, <2>4, <3>1, <3>2, <4>1
    <3> QED BY <2>3, <2>6, <3>3, <3>4
  <2> QED BY <2>5, <2>6
<1>7. pc # "delete"
  BY DEF Refused, CallEffects, Upserts
<1> QED BY <1>0, <1>2, <1>3, <1>4, <1>5, <1>6, <1>7 DEF Calls, Upserts

(* Whatever earlier commands failed half way, a command that nothing       *)
(* disturbs is refused only for what its plan asks: the order of Create    *)
(* and Update never names a user, an account or an association that is not *)
(* there, and never takes the last association of the default account.     *)
THEOREM RefusalsHaveReasons == Spec => []RefusedForAReason
<1> DEFINE Running == pc # "idle" => result # "refused"
<1>1. Init => RefusedForAReason /\ Running
  BY DEF Init, RefusedForAReason
<1>2. IInv /\ UserIsThere /\ RefusedForAReason /\ Running /\ [Next]_vars
        => RefusedForAReason' /\ Running'
  <2> SUFFICES ASSUME IInv, UserIsThere, RefusedForAReason, Running, [Next]_vars
               PROVE  RefusedForAReason' /\ Running'
    OBVIOUS
  <2>1. CASE UNCHANGED vars
    BY <2>1 DEF vars, RefusedForAReason, Denied, Keys
  <2>2. CASE Refused
    <3>1. UNCHANGED <<srv, plan, state, todo, quiet>> /\ pc' = "idle"
      BY <2>2 DEF Refused, End
    <3> SUFFICES ASSUME quiet PROVE RefusedForAReason'
      BY <3>1 DEF RefusedForAReason
    <3>2. \/ Denied(plan)
          \/ /\ state # NoUser
             /\ \E k \in todo : k[2] = NoPartition /\ \E j \in Keys(srv.assocs) \ {k} : j[1] = k[1]
      BY <2>2, RefusedWhy
    <3> QED BY <3>1, <3>2 DEF RefusedForAReason, Denied, Keys
  <2>3. CASE Interfere
    BY <2>3 DEF Interfere, RefusedForAReason
  <2>4. CASE ValidateConfig \/ StartPlan \/ StartImport \/ EditConfig \/ Read \/ Plan \/ Delete \/ Fail
    BY <2>4 DEF RefusedForAReason, ValidateConfig, StartPlan, StartImport, EditConfig, Read,
       ReadGetUser, ReadGetAssociations, Plan, Delete, ApplyDelete, DeleteUser, Fail, End
  <2>5. CASE Create
    BY <2>5 DEF RefusedForAReason, Create, ApplyCreate, CreateUserWithAssociation, CreateUpdateUser,
       CreateAssociations, End
  <2>6. CASE Update
    BY <2>6 DEF RefusedForAReason, Update, ApplyUpdate, UpdateCreateAssociations, UpdateUser,
       UpdateAssociations, FinishUpdate, DeleteAssociation, End
  <2> QED BY <2>1, <2>2, <2>3, <2>4, <2>5, <2>6 DEF Next, Progress
<1> QED BY <1>1, <1>2, SpecIInv, SpecUserIsThere, PTL DEF Spec

\* Every request but the deletes keeps every row, and a delete of a row the
\* diff found removes that row and no other.
LEMMA CallKeepsPlanned ==
  ASSUME DeletesOneRow, IInv, WInv, pc \in Calls, plan # NoUser, state # NoUser,
         quiet \/ UnscopedDelete = "exact", NEW t \in CallEffects
  PROVE  Keys(plan.assocs) \cap Keys(srv.assocs) \subseteq Keys(t.assocs)
<1>1. GoodServer(srv) /\ todo \subseteq Key
  BY TypeOKGood DEF IInv, TypeOK
<1>2. ASSUME pc = "updDelete", NEW j \in todo, t \in ServerDelete(srv, j)
      PROVE  Keys(plan.assocs) \cap Keys(srv.assocs) \subseteq Keys(t.assocs)
  <2>1. quiet => j \in Keys(srv.assocs)
    BY <1>2 DEF WInv, RowsWritten, UpdateCalls
  <2>2. t.assocs = Without(srv, Selected(srv, j)) /\ Selected(srv, j) \subseteq {j}
    BY <1>1, <1>2, <2>1, DeleteGood, SelectedAlone
  <2>3. j \notin Keys(plan.assocs)
    BY <1>2 DEF IInv, PlanChecked, UpdateCalls, DiffDelete
  <2> QED BY <2>2, <2>3 DEF Without, Keys
<1>3. ASSUME t \in ServerCreateUser(srv, plan.default), plan.default \in Accounts
      PROVE  Keys(srv.assocs) \subseteq Keys(t.assocs)
  BY <1>1, <1>3, CreateUserGood DEF Keys
<1> QED BY <1>1, <1>2, <1>3, CallRequests, UpdateUserGood, UpsertRows DEF IInv

(* No call of an update, failed or not, removes an association the plan    *)
(* keeps: with a DELETE that takes its key exactly, whatever is done by    *)
(* hand meanwhile; where slurmdbd refuses one that selects several rows,   *)
(* as long as nothing is done by hand.                                     *)
THEOREM PlannedIsKept ==
  ASSUME DeletesOneRow
  PROVE  Spec => KeepsPlannedAssociations
<1>1. IInv /\ WInv /\ [Next]_vars =>
        (/\ pc \in Calls /\ state # NoUser /\ plan # NoUser
         /\ UNCHANGED interferences
         /\ quiet \/ UnscopedDelete = "exact"
         => Keys(plan.assocs) \cap Keys(srv.assocs) \subseteq Keys(srv.assocs)')
  <2> SUFFICES ASSUME IInv, WInv, [Next]_vars, pc \in Calls, state # NoUser, plan # NoUser,
                      UNCHANGED interferences, quiet \/ UnscopedDelete = "exact"
               PROVE  Keys(plan.assocs) \cap Keys(srv.assocs) \subseteq Keys(srv'.assocs)
    BY DEF Keys
  <2>1. CASE UNCHANGED vars
    BY <2>1 DEF vars
  <2>2. CASE Next
    BY <2>2, CallStep, CallKeepsPlanned
  <2> QED BY <2>1, <2>2
<1> QED BY <1>1, SpecIInv, SpecWInv, PTL DEF Spec, KeepsPlannedAssociations
=============================================================================
