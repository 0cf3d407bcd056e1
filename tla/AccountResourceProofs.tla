------------------------ MODULE AccountResourceProofs ------------------------
(***************************************************************************)
(* Proofs about AccountResource, for any names, attributes, configurations *)
(* and any number of edits, failures and changes by hand.                  *)
(***************************************************************************)
EXTENDS AccountResource, TLAPS

Writes == {"create", "createLimits", "update", "updateLimits"}

\* A read knows which account it is about.
ReadHasName == pc \in {"getAccount", "getAssocs"} => state # NoAccount \/ config # NoAccount

\* A write knows what it is to write.
WriteHasPlan ==
  /\ pc \in Writes => plan # NoAccount
  /\ pc = "planned" => state # NoAccount \/ plan # NoAccount

\* Nothing protected gets as far as the call that deletes.
DeleteIsAllowed == pc = "delete" => state # NoAccount /\ ~Protected(state.name)

IInv == TypeOK /\ ReadHasName /\ WriteHasPlan /\ DeleteIsAllowed /\ RootIsKept

\* A row that may stand for an account without association.
GoodRow(row) == row \in Row /\ (~row.assoc => \A a \in Limits : row.attrs[a] = Null)

-----------------------------------------------------------------------------
(* Values and rows *)

(* What slurmdbd shows are values or nothing.                              *)
LEMMA APIValuesType ==
  ASSUME TypeOK, NEW n \in Names
  PROVE  APIValues(srv[n]) \in [Attributes -> Values \cup {Null}]
BY AccountAssumption DEF TypeOK, APIValues, Row

(* Read works on a known account and stores a model of it.                 *)
LEMMA ReadModelType ==
  ASSUME TypeOK, state # NoAccount \/ config # NoAccount,
         NEW x \in [Attributes -> Values \cup {Null}],
         NEW y \in [Attributes -> Values \cup {Null}]
  PROVE  Prior \in Model /\ ReadModel(x, y) \in Model
<1>1. config \in Model \cup {NoAccount}
  BY AccountAssumption DEF TypeOK
<1>2. Prior \in Model
  BY <1>1 DEF TypeOK, Prior, Model, Unset
<1> QED BY <1>2 DEF ReadModel, ReadAttribute, Model

(* An upsert writes values only, and leaves the attributes of other        *)
(* requests and the undeclared ones alone.                                 *)
LEMMA UpsertedKeeps ==
  ASSUME NEW attrs \in [Attributes -> Values \cup {Null}], NEW p \in Model, NEW S
  PROVE  /\ Upserted(attrs, p, S) \in [Attributes -> Values \cup {Null}]
         /\ \A a \in Attributes : a \notin S \/ p.attrs[a] = Null => Upserted(attrs, p, S)[a] = attrs[a]
BY AccountAssumption DEF Upserted, Wire, Model

(* The rows a write leaves are rows of an account, and keep what the plan  *)
(* leaves null (but for blanks).                                           *)
LEMMA WriteEffects ==
  ASSUME IInv, pc \in Writes, NEW row \in Effects
  PROVE  /\ plan \in Model /\ Target \in Names /\ Target = plan.name
         /\ GoodRow(row)
         /\ srv[Target] # NoAccount =>
              \A a \in Attributes \ SentBlank :
                plan.attrs[a] = Null => row.attrs[a] = srv[Target].attrs[a]
<1> DEFINE old == srv[Target]
<1>1. plan \in Model /\ Target = plan.name /\ Target \in Names
  BY DEF IInv, TypeOK, WriteHasPlan, Target, Writes, Model
<1>2. old = NoAccount \/ GoodRow(old)
  BY <1>1 DEF IInv, TypeOK, GoodRow
<1>3. Unset \in [Attributes -> Values \cup {Null}] /\ (\A a \in Attributes : Unset[a] = Null)
  BY DEF Unset
<1>4. CASE pc = "create"
  <2>1. Effects = CreateEffects(old, plan)
    BY <1>4 DEF Effects
  <2>2. CASE old = NoAccount
    <3>1. row = [assoc |-> TRUE, attrs |-> Upserted(Unset, plan, Meta)]
      BY <2>1, <2>2 DEF CreateEffects
    <3> QED BY <1>1, <1>3, <2>2, <3>1, UpsertedKeeps DEF GoodRow, Row
  <2>3. CASE old # NoAccount
    <3>1. PICK attrs \in {old.attrs, Upserted(old.attrs, plan, Meta)} :
            row = [assoc |-> TRUE, attrs |-> attrs]
      BY <2>1, <2>3 DEF CreateEffects
    <3> QED BY <1>1, <1>2, <2>3, <3>1, UpsertedKeeps DEF GoodRow, Row
  <2> QED BY <2>2, <2>3
<1>5. CASE pc = "update"
  <2>1. Effects = UpdateEffects(old, plan)
    BY <1>5 DEF Effects
  <2>2. PICK r, cleared :
          /\ r \in IF old = NoAccount THEN [assoc : BOOLEAN, attrs : {Unset}] ELSE {old}
          /\ cleared \in SUBSET {a \in SentBlank : plan.attrs[a] = Null}
          /\ row = [assoc |-> r.assoc,
                    attrs |-> [a \in Attributes |-> IF a \in cleared THEN Null
                                                    ELSE Upserted(r.attrs, plan, Meta)[a]]]
    BY <2>1 DEF UpdateEffects
  <2>3. GoodRow(r) /\ (old # NoAccount => r = old)
    <3>1. CASE old # NoAccount
      BY <1>2, <2>2, <3>1
    <3>2. CASE old = NoAccount
      <4>1. r \in [assoc : BOOLEAN, attrs : {Unset}]
        BY <2>2, <3>2
      <4>2. r.attrs = Unset /\ r \in Row
        BY <1>3, <4>1 DEF Row
      <4> QED BY <1>3, <3>2, <4>2 DEF GoodRow, Limits
    <3> QED BY <3>1, <3>2
  <2>4. \A a \in Attributes \ SentBlank : row.attrs[a] = Upserted(r.attrs, plan, Meta)[a]
    BY <2>2
  <2>5. \A a \in Limits : row.attrs[a] = r.attrs[a]
    BY <1>1, <2>2, <2>3, UpsertedKeeps, AccountAssumption DEF Limits, GoodRow, Row
  <2>6. row \in Row
    BY <1>1, <2>2, <2>3, UpsertedKeeps DEF GoodRow, Row
  <2>7. GoodRow(row)
    BY <2>2, <2>3, <2>5, <2>6 DEF GoodRow
  <2> QED BY <1>1, <2>3, <2>4, <2>7, UpsertedKeeps DEF GoodRow, Row
<1>6. CASE pc \in {"createLimits", "updateLimits"}
  <2>1. Effects = LimitEffects(old, plan)
    BY <1>6 DEF Effects
  <2>2. old # NoAccount /\ row = [assoc |-> TRUE, attrs |-> Upserted(old.attrs, plan, Limits)]
    BY <2>1 DEF LimitEffects
  <2> QED BY <1>1, <1>2, <2>2, UpsertedKeeps DEF GoodRow, Row
<1> QED BY <1>4, <1>5, <1>6 DEF Writes

(* An executed call leaves typed accounts, and never removes a protected   *)
(* one; a write removes none.                                              *)
LEMMA CallKeepsAccounts ==
  ASSUME IInv, pc \in Calls, Call
  PROVE  /\ srv' \in [Names -> Row \cup {NoAccount}]
         /\ \A n \in Names : srv'[n] = NoAccount \/ GoodRow(srv'[n])
         /\ srv'[Root] # NoAccount
<1>1. PICK row \in Effects : srv' = [srv EXCEPT ![Target] = row]
  BY DEF Call
<1>2. srv \in [Names -> Row \cup {NoAccount}] /\ srv[Root] # NoAccount /\ Root \in Names
  BY AccountAssumption DEF IInv, TypeOK, RootIsKept
<1>3. \A n \in Names : srv[n] = NoAccount \/ GoodRow(srv[n])
  BY <1>2 DEF IInv, TypeOK, GoodRow
<1>4. CASE pc = "delete"
  <2>1. row = NoAccount /\ Target = state.name /\ Target # Root
    BY <1>1, <1>4 DEF Effects, Target, IInv, DeleteIsAllowed, Protected
  <2> QED BY <1>1, <1>2, <1>3, <2>1
<1>5. CASE pc \in Writes
  <2>1. GoodRow(row) /\ Target \in Names
    BY <1>1, <1>5, WriteEffects
  <2>2. row \in Row /\ row # NoAccount
    BY <2>1, AccountAssumption DEF GoodRow
  <2> QED BY <1>1, <1>2, <1>3, <2>1, <2>2
<1> QED BY <1>4, <1>5 DEF Calls, Writes

(* The same for a change by hand.                                          *)
LEMMA InterfereKeepsAccounts ==
  ASSUME IInv, Interfere
  PROVE  /\ srv' \in [Names -> Row \cup {NoAccount}]
         /\ \A n \in Names : srv'[n] = NoAccount \/ GoodRow(srv'[n])
         /\ srv'[Root] # NoAccount
<1>0. PICK name \in Names : \E row \in OutOfBand(name) : srv' = [srv EXCEPT ![name] = row]
  BY DEF Interfere
<1>1. PICK row \in OutOfBand(name) : srv' = [srv EXCEPT ![name] = row]
  BY <1>0
<1>2. srv \in [Names -> Row \cup {NoAccount}] /\ srv[Root] # NoAccount /\ Root \in Names
  BY AccountAssumption DEF IInv, TypeOK, RootIsKept
<1>3. \A n \in Names : srv[n] = NoAccount \/ GoodRow(srv[n])
  BY <1>2 DEF IInv, TypeOK, GoodRow
<1>4. row = NoAccount \/ GoodRow(row)
  <2> DEFINE old == srv[name]
             cleared == [assoc |-> FALSE, attrs |-> [a \in Attributes |->
                           IF a \in Limits THEN Null ELSE old.attrs[a]]]
  <2>1. CASE old = NoAccount
    <3>1. row = [assoc |-> TRUE, attrs |-> Unset]
      BY <1>1, <2>1 DEF OutOfBand
    <3> QED BY <3>1 DEF GoodRow, Row, Unset
  <2>2. CASE old # NoAccount
    <3>1. GoodRow(old)
      BY <1>3, <2>2
    <3>2. CASE row = cleared
      <4>1. cleared.attrs \in [Attributes -> Values \cup {Null}]
        BY <3>1 DEF GoodRow, Row
      <4>2. \A a \in Limits : cleared.attrs[a] = Null
        BY DEF Limits
      <4> QED BY <3>2, <4>1, <4>2 DEF GoodRow, Row
    <3>3. ASSUME NEW a \in IF old.assoc THEN Attributes ELSE Meta,
                 NEW v \in Values \cup {Null}, row = [old EXCEPT !.attrs[a] = v]
          PROVE  GoodRow(row)
      <4>1. a \in Attributes /\ (~old.assoc => a \notin Limits)
        BY <3>3, AccountAssumption DEF Limits
      <4>2. row.assoc = old.assoc /\ row.attrs = [old.attrs EXCEPT ![a] = v] /\ row \in Row
        BY <3>1, <3>3, <4>1 DEF GoodRow, Row
      <4> QED BY <3>1, <4>1, <4>2 DEF GoodRow, Row, Limits
    <3> QED BY <1>1, <2>2, <3>2, <3>3 DEF OutOfBand
  <2> QED BY <2>1, <2>2
<1>5. name = Root => row # NoAccount
  <2> SUFFICES ASSUME name = Root PROVE row # NoAccount
    OBVIOUS
  <2>1. GoodRow(srv[Root])
    BY <1>2, <1>3
  <2>2. row \in {[srv[Root] EXCEPT !.attrs[a] = v] :
                 a \in IF srv[Root].assoc THEN Attributes ELSE Meta, v \in Values \cup {Null}}
    BY <1>1, <1>2 DEF OutOfBand
  <2>3. row \in Row
    BY <2>1, <2>2, AccountAssumption DEF GoodRow, Row
  <2> QED BY <2>3, AccountAssumption
<1> QED BY <1>1, <1>2, <1>3, <1>4, <1>5 DEF GoodRow

-----------------------------------------------------------------------------
(* The inductive invariant *)

LEMMA InitIInv == Init => IInv
<1> SUFFICES ASSUME Init PROVE IInv
  OBVIOUS
<1>1. [assoc |-> TRUE, attrs |-> Unset] \in Row /\ Unset \in [Attributes -> Values \cup {Null}]
  BY DEF Row, Unset
<1>2. srv \in [Names -> Row \cup {NoAccount}]
  BY <1>1 DEF Init
<1>3. \A n \in Names : srv[n] # NoAccount => srv[n].assoc
  BY DEF Init
<1>4. RootIsKept
  BY <1>1, AccountAssumption DEF Init, RootIsKept
<1>5. ReadHasName /\ WriteHasPlan /\ DeleteIsAllowed
  BY DEF Init, ReadHasName, WriteHasPlan, DeleteIsAllowed, Writes
<1>6. replace \in BOOLEAN /\ quiet \in BOOLEAN /\ blind \in BOOLEAN /\ foreign \in BOOLEAN
  BY DEF Init
<1>7. TypeOK
  BY <1>1, <1>2, <1>3, <1>6, AccountAssumption DEF Init, TypeOK, PCs, Results
<1> QED BY <1>4, <1>5, <1>7 DEF IInv

\* What TypeOK says of everything but srv.
RestTyped ==
  /\ config \in Configs
  /\ state \in Model \cup {NoAccount} /\ plan \in Model \cup {NoAccount}
  /\ pc \in PCs /\ result \in Results
  /\ seen \in [Attributes -> Values \cup {Null}]
  /\ replace \in BOOLEAN /\ quiet \in BOOLEAN /\ blind \in BOOLEAN /\ foreign \in BOOLEAN
  /\ edits \in 0..MaxEdits /\ faults \in 0..MaxFaults
  /\ interferences \in 0..MaxInterference

(* The accounts decide the rest of the invariant.                          *)
LEMMA Assemble ==
  ASSUME RestTyped', ReadHasName', WriteHasPlan', DeleteIsAllowed',
         srv' \in [Names -> Row \cup {NoAccount}],
         \A n \in Names : srv'[n] = NoAccount \/ GoodRow(srv'[n]),
         srv'[Root] # NoAccount
  PROVE  IInv'
BY DEF RestTyped, IInv, TypeOK, RootIsKept, GoodRow

(* A step that leaves the accounts alone.                                  *)
LEMMA SameAccounts ==
  ASSUME IInv, UNCHANGED srv, RestTyped', ReadHasName', WriteHasPlan', DeleteIsAllowed'
  PROVE  IInv'
BY DEF RestTyped, IInv, TypeOK, RootIsKept

(* Every step keeps the invariant.                                         *)
LEMMA NextIInv == IInv /\ [Next]_vars => IInv'
<1> SUFFICES ASSUME IInv, [Next]_vars PROVE IInv'
  OBVIOUS
<1> USE AccountAssumption
<1>0. RestTyped /\ (config \in Model \cup {NoAccount})
  BY DEF IInv, TypeOK, RestTyped
<1>1. CASE UNCHANGED vars
  BY <1>1 DEF vars, history, env, IInv, TypeOK, ReadHasName, WriteHasPlan, DeleteIsAllowed,
     RootIsKept
<1>2. CASE StartPlan \/ StartReplace \/ StartImport
  <2>1. /\ pc' \in {"refreshed", "getAccount"} /\ result' = "none"
        /\ pc' = "getAccount" => state # NoAccount \/ config # NoAccount
        /\ UNCHANGED <<config, state, srv, plan, seen, faults, interferences>>
        /\ edits' \in {edits, edits + 1} /\ (edits' # edits => edits < MaxEdits)
    BY <1>2 DEF StartPlan, StartReplace, StartImport, Start
  <2>2. RestTyped'
    <3>1. replace' \in BOOLEAN /\ quiet' \in BOOLEAN /\ blind' \in BOOLEAN /\ foreign' \in BOOLEAN
      BY <1>2 DEF StartPlan, StartReplace, StartImport, Start
    <3> QED BY <1>0, <2>1, <3>1 DEF RestTyped, PCs, Results
  <2>3. ReadHasName' /\ WriteHasPlan' /\ DeleteIsAllowed'
    BY <2>1 DEF ReadHasName, WriteHasPlan, DeleteIsAllowed, Writes
  <2> QED BY <2>1, <2>2, <2>3, SameAccounts
<1>3. CASE ReadGetAccount
  <2>1. Prior.name \in Names
    BY <1>3, ReadModelType DEF ReadGetAccount, IInv, ReadHasName, Model, TypeOK, Prior
  <2>2. APIValues(srv[Prior.name]) \in [Attributes -> Values \cup {Null}]
    BY <2>1, APIValuesType DEF IInv
  <2>3. pc' \in {"getAssocs", "refreshed", "idle"} /\ pc = "getAccount"
    BY <1>3 DEF ReadGetAccount, End
  <2>4. ReadHasName' /\ WriteHasPlan' /\ DeleteIsAllowed'
    BY <1>3, <2>3
       DEF ReadGetAccount, End, IInv, ReadHasName, WriteHasPlan, DeleteIsAllowed, Writes
  <2>5. RestTyped'
    <3>1. seen' \in [Attributes -> Values \cup {Null}] /\ state' \in Model \cup {NoAccount}
      BY <1>0, <1>3, <2>2 DEF ReadGetAccount, RestTyped
    <3>2. pc' \in PCs /\ result' \in Results
      BY <1>0, <1>3, <2>3 DEF ReadGetAccount, End, RestTyped, PCs, Results
    <3> QED BY <1>0, <1>3, <3>1, <3>2 DEF ReadGetAccount, history, env, RestTyped
  <2> QED BY <1>3, <2>4, <2>5, SameAccounts DEF ReadGetAccount
<1>4. CASE ReadGetAssociations \/ ReadWithoutAssociations
  <2>1. pc = "getAssocs" /\ pc' \in {"refreshed", "idle"}
    BY <1>4 DEF ReadGetAssociations, ReadWithoutAssociations, EndRead, End
  <2>2. state' \in Model
    <3>1. (state # NoAccount \/ config # NoAccount) /\ Prior.name \in Names
      BY <2>1, ReadModelType DEF IInv, ReadHasName, Model, TypeOK, Prior
    <3>2. /\ APIValues(srv[Prior.name]) \in [Attributes -> Values \cup {Null}]
          /\ Unset \in [Attributes -> Values \cup {Null}]
          /\ seen \in [Attributes -> Values \cup {Null}]
      BY <3>1, APIValuesType DEF IInv, TypeOK, Unset
    <3> QED BY <1>4, <3>1, <3>2, ReadModelType
            DEF ReadGetAssociations, ReadWithoutAssociations, IInv
  <2>3. ReadHasName' /\ WriteHasPlan' /\ DeleteIsAllowed'
    BY <2>1 DEF ReadHasName, WriteHasPlan, DeleteIsAllowed, Writes
  <2>4. pc' \in PCs /\ result' \in Results
    BY <1>0, <1>4, <2>1
       DEF ReadGetAssociations, ReadWithoutAssociations, EndRead, End, RestTyped, PCs, Results
  <2>5. RestTyped'
    <3>1. /\ UNCHANGED <<config, plan, seen, replace, quiet, foreign, edits, interferences>>
          /\ faults' \in {faults, faults + 1} /\ (faults' # faults => faults < MaxFaults)
      BY <1>4 DEF ReadGetAssociations, ReadWithoutAssociations, history, env
    <3>2. blind' \in BOOLEAN
      BY <1>0, <1>4 DEF ReadGetAssociations, ReadWithoutAssociations, history, RestTyped
    <3> QED BY <1>0, <2>2, <2>4, <3>1, <3>2 DEF RestTyped
  <2> QED BY <1>4, <2>3, <2>5, SameAccounts DEF ReadGetAssociations, ReadWithoutAssociations
<1>5. CASE Plan
  <2>1. pc' \in {"idle", "planned"} /\ plan' = config /\ UNCHANGED <<config, state, srv, seen, replace, history, env>>
    BY <1>5 DEF Plan, End
  <2>2. pc' = "planned" => state # NoAccount \/ config # NoAccount
    BY <1>5, <2>1 DEF Plan, End, Destroys
  <2>3. pc' \in PCs /\ result' \in Results
    BY <1>0, <1>5 DEF Plan, End, RestTyped, PCs, Results
  <2>4. RestTyped'
    BY <1>0, <2>1, <2>3 DEF history, env, RestTyped
  <2>5. ReadHasName' /\ WriteHasPlan' /\ DeleteIsAllowed'
    BY <2>1, <2>2 DEF ReadHasName, WriteHasPlan, DeleteIsAllowed, Writes
  <2> QED BY <2>1, <2>4, <2>5, SameAccounts
<1>6. CASE Apply \/ ApplyDelete
  <2>1. pc = "planned" /\ UNCHANGED <<config, state, srv, plan, seen, replace, history, env>>
    BY <1>6 DEF Apply, ApplyDelete
  <2>2. pc' \in {"idle", "delete", "create", "update"} /\ result' \in Results
    BY <1>0, <1>6 DEF Apply, ApplyDelete, End, RestTyped, Results
  <2>3. pc' \in {"create", "update"} => plan # NoAccount
    BY <1>6, <2>1 DEF Apply, ApplyDelete, End, Destroys, IInv, WriteHasPlan
  <2>4. pc' = "delete" => state # NoAccount /\ ~Protected(state.name)
    BY <1>6 DEF Apply, ApplyDelete, End, Destroys
  <2>5. RestTyped'
    BY <1>0, <2>1, <2>2 DEF history, env, RestTyped, PCs, Calls
  <2>6. ReadHasName' /\ WriteHasPlan' /\ DeleteIsAllowed'
    BY <2>1, <2>2, <2>3, <2>4 DEF ReadHasName, WriteHasPlan, DeleteIsAllowed, Writes, Protected
  <2> QED BY <2>1, <2>5, <2>6, SameAccounts
<1>7. CASE CreateAccountWithAssociation \/ UpdateAccount \/ CreateAssociations
  <2>1. pc \in Writes /\ Call /\ plan # NoAccount
    BY <1>7 DEF CreateAccountWithAssociation, UpdateAccount, CreateAssociations, Writes,
       IInv, WriteHasPlan
  <2>2. pc' \in {"idle", "createLimits", "updateLimits"}
    BY <1>7 DEF CreateAccountWithAssociation, UpdateAccount, CreateAssociations, Store, End
  <2>3. UNCHANGED <<config, plan, seen, replace, quiet, blind, env>> /\ state' \in {state, plan}
    BY <1>7 DEF CreateAccountWithAssociation, UpdateAccount, CreateAssociations, Store, history
  <2>4. result' \in Results /\ foreign' \in BOOLEAN
    BY <1>0, <1>7 DEF CreateAccountWithAssociation, UpdateAccount, CreateAssociations, Store,
       End, history, RestTyped, Results
  <2>5. RestTyped'
    BY <1>0, <2>2, <2>3, <2>4 DEF env, RestTyped, PCs, Calls
  <2>6. ReadHasName' /\ WriteHasPlan' /\ DeleteIsAllowed'
    BY <2>1, <2>2, <2>3 DEF ReadHasName, WriteHasPlan, DeleteIsAllowed, Writes
  <2> QED BY <2>1, <2>5, <2>6, CallKeepsAccounts, Assemble DEF Writes, Calls
<1>8. CASE DeleteAccount
  <2>1. pc = "delete" /\ Call /\ UNCHANGED <<config, plan, seen, replace, history, env>>
    BY <1>8 DEF DeleteAccount
  <2>2. state' = NoAccount /\ pc' \in {"idle", "create"} /\ (pc' = "create" => plan # NoAccount)
    BY <1>8 DEF DeleteAccount, End
  <2>3. result' \in Results
    BY <1>0, <1>8 DEF DeleteAccount, End, RestTyped, Results
  <2>4. RestTyped'
    BY <1>0, <2>1, <2>2, <2>3 DEF history, env, RestTyped, PCs, Calls
  <2>5. ReadHasName' /\ WriteHasPlan' /\ DeleteIsAllowed'
    BY <2>1, <2>2 DEF ReadHasName, WriteHasPlan, DeleteIsAllowed, Writes
  <2> QED BY <2>1, <2>4, <2>5, CallKeepsAccounts, Assemble DEF Calls
<1>9. CASE Refused
  BY <1>0, <1>9, SameAccounts
     DEF Refused, End, history, env, RestTyped, PCs, Results, IInv, ReadHasName,
         WriteHasPlan, DeleteIsAllowed, Writes
<1>10. CASE Fail
  <2>1. pc' = "idle" /\ result' = "failed" /\ faults' = faults + 1 /\ faults < MaxFaults
    BY <1>10 DEF Fail, End
  <2>2. UNCHANGED <<config, state, plan, seen, replace, history, edits, interferences>>
    BY <1>10 DEF Fail
  <2>3. RestTyped'
    BY <1>0, <2>1, <2>2 DEF history, RestTyped, PCs, Results
  <2>4. ReadHasName' /\ WriteHasPlan' /\ DeleteIsAllowed'
    BY <2>1 DEF ReadHasName, WriteHasPlan, DeleteIsAllowed, Writes
  <2>5. CASE UNCHANGED srv
    BY <2>3, <2>4, <2>5, SameAccounts
  <2>6. CASE pc \in Calls /\ Call
    BY <2>3, <2>4, <2>6, CallKeepsAccounts, Assemble
  <2> QED BY <1>10, <2>5, <2>6 DEF Fail
<1>11. CASE EditConfig
  BY <1>0, <1>11, SameAccounts
     DEF EditConfig, history, RestTyped, Results, IInv, ReadHasName, WriteHasPlan,
         DeleteIsAllowed, Writes
<1>12. CASE Interfere
  <2>1. RestTyped' /\ ReadHasName' /\ WriteHasPlan' /\ DeleteIsAllowed'
    <3>1. /\ UNCHANGED <<config, state, pc, plan, seen, replace, result, blind, foreign, edits, faults>>
          /\ quiet' \in BOOLEAN
          /\ interferences' = interferences + 1 /\ interferences < MaxInterference
      BY <1>12 DEF Interfere
    <3>2. RestTyped'
      BY <1>0, <3>1 DEF RestTyped
    <3> QED BY <3>1, <3>2 DEF IInv, ReadHasName, WriteHasPlan, DeleteIsAllowed
  <2> QED BY <1>12, <2>1, InterfereKeepsAccounts, Assemble
<1> QED BY <1>1, <1>2, <1>3, <1>4, <1>5, <1>6, <1>7, <1>8, <1>9, <1>10, <1>11, <1>12
        DEF Next, Progress, Read, Create, Delete

THEOREM SpecIInv == Spec => []IInv
BY InitIInv, NextIInv, PTL DEF Spec

-----------------------------------------------------------------------------
(* What it is for *)

(* Type correctness, and no limits without an association.                 *)
THEOREM TypeCorrect == Spec => []TypeOK
<1>1. IInv => TypeOK
  BY DEF IInv
<1> QED BY <1>1, SpecIInv, PTL

(* The backstop in Delete alone keeps Root: no destroy, rename,            *)
(* replacement or failure removes it.                                      *)
THEOREM RootSurvives == Spec => []RootIsKept
<1>1. IInv => RootIsKept
  BY DEF IInv
<1> QED BY <1>1, SpecIInv, PTL

(* No write changes an attribute the plan leaves null (but for blanks).    *)
THEOREM UnmanagedIsKept == Spec => NullIsUnmanaged
<1>1. ASSUME IInv, [Next]_vars, pc \in Calls \ {"delete"}, UNCHANGED interferences,
             srv[Target] # NoAccount, NEW a \in Attributes \ SentBlank, plan.attrs[a] = Null
      PROVE  srv'[Target].attrs[a] = srv[Target].attrs[a]
  <2>1. pc \in Writes
    BY <1>1 DEF Calls, Writes
  <2>2. CASE UNCHANGED srv
    BY <2>2
  <2>3. CASE Call
    <3>1. PICK row \in Effects : srv' = [srv EXCEPT ![Target] = row]
      BY <2>3 DEF Call
    <3>2. Target \in Names /\ row.attrs[a] = srv[Target].attrs[a]
      BY <1>1, <2>1, <3>1, WriteEffects
    <3> QED BY <3>1, <3>2 DEF IInv, TypeOK
  <2>4. ~Interfere
    BY <1>1 DEF Interfere, IInv, TypeOK
  <2>5. UNCHANGED srv \/ Call
    BY <1>1, <2>4 DEF Next, vars, Progress, Read, Create, Delete, StartPlan, StartReplace,
       StartImport, Start, ReadGetAccount, ReadGetAssociations, ReadWithoutAssociations, Plan,
       Apply, ApplyDelete, DeleteAccount, CreateAccountWithAssociation, UpdateAccount,
       CreateAssociations, Refused, Fail, EditConfig
  <2> QED BY <2>2, <2>3, <2>5
<1>2. IInv /\ [Next]_vars =>
        [(pc \in Calls \ {"delete"}) /\ UNCHANGED interferences /\ srv[Target] # NoAccount =>
           \A a \in Attributes \ SentBlank :
             plan.attrs[a] = Null => srv'[Target].attrs[a] = srv[Target].attrs[a]]_vars
  BY <1>1
<1> QED BY <1>2, SpecIInv, PTL DEF Spec, NullIsUnmanaged
-----------------------------------------------------------------------------
(* What a command that nothing disturbed knows of slurmdbd *)

\* Every value that p declares in S is in slurmdbd.
InPlace(p, S) ==
  /\ srv[p.name] # NoAccount
  /\ \A a \in S : Wire(p.attrs[a]) # Null => srv[p.name].attrs[a] = p.attrs[a]

\* Between the two calls of Read, the first answer still holds.
SeenIsTrue ==
  quiet /\ pc = "getAssocs" =>
    srv[Prior.name] # NoAccount /\ seen = APIValues(srv[Prior.name])

\* What a whole Read stores is what slurmdbd shows, if it shows anything.
RefreshIsTrue ==
  quiet /\ ~blind /\ pc = "refreshed" /\ state # NoAccount => ShowsOrHides(state, Attributes)

\* The metadata is written before the limits.
MetadataIsWritten ==
  quiet /\ ~foreign /\ pc \in {"createLimits", "updateLimits"} => InPlace(plan, Meta)

\* What an apply stores is written.
StoredIsWritten ==
  quiet /\ ~foreign /\ pc = "idle" /\ result \in {"created", "updated"} =>
    state # NoAccount /\ InPlace(state, Attributes)

FInv ==
  /\ SeenIsTrue /\ RefreshIsTrue /\ MetadataIsWritten /\ StoredIsWritten
  /\ EmptyPlanMeansNoOtherValue

(* What the requests of an apply write: a new account and an update get the*)
(* declared metadata, the second call the declared limits and nothing else.*)
LEMMA WriteIsExecuted ==
  ASSUME IInv, pc \in Writes, NEW row \in Effects
  PROVE  /\ pc = "update" \/ (pc = "create" /\ srv[Target] = NoAccount) =>
              \A a \in Meta : Wire(plan.attrs[a]) # Null => row.attrs[a] = plan.attrs[a]
         /\ pc \in {"createLimits", "updateLimits"} =>
              /\ srv[Target] # NoAccount
              /\ \A a \in Limits : Wire(plan.attrs[a]) # Null => row.attrs[a] = plan.attrs[a]
              /\ \A a \in Meta : row.attrs[a] = srv[Target].attrs[a]
<1> DEFINE old == srv[Target]
<1>0. Meta \subseteq Attributes /\ SentBlank \subseteq Meta /\ Limits \subseteq Attributes
  BY AccountAssumption DEF Limits
<1>1. CASE pc = "update"
  <2>1. Effects = UpdateEffects(old, plan)
    BY <1>1 DEF Effects
  <2>2. PICK r, cleared :
          /\ cleared \in SUBSET {a \in SentBlank : plan.attrs[a] = Null}
          /\ row = [assoc |-> r.assoc,
                    attrs |-> [a \in Attributes |-> IF a \in cleared THEN Null
                                                    ELSE Upserted(r.attrs, plan, Meta)[a]]]
    BY <2>1 DEF UpdateEffects
  <2>3. ASSUME NEW a \in Meta, Wire(plan.attrs[a]) # Null
        PROVE  row.attrs[a] = plan.attrs[a]
    <3>1. a \notin cleared
      BY <2>2, <2>3 DEF Wire
    <3> QED BY <1>0, <2>2, <2>3, <3>1 DEF Upserted
  <2> QED BY <1>1, <2>3
<1>2. CASE pc = "create" /\ old = NoAccount
  <2>1. row = [assoc |-> TRUE, attrs |-> Upserted(Unset, plan, Meta)]
    BY <1>2 DEF Effects, CreateEffects
  <2> QED BY <1>0, <1>2, <2>1 DEF Upserted
<1>3. CASE pc \in {"createLimits", "updateLimits"}
  <2>1. Effects = LimitEffects(old, plan)
    BY <1>3 DEF Effects
  <2>2. old # NoAccount /\ row = [assoc |-> TRUE, attrs |-> Upserted(old.attrs, plan, Limits)]
    BY <2>1 DEF LimitEffects
  <2> QED BY <1>0, <1>3, <2>2 DEF Upserted, Limits
<1> QED BY <1>1, <1>2, <1>3

(* A declared value in slurmdbd is shown, and a limit has its association. *)
LEMMA WrittenIsShown ==
  ASSUME TypeOK, NEW p \in Model, InPlace(p, Attributes), NEW a \in Attributes,
         Wire(p.attrs[a]) # Null
  PROVE  APIValues(srv[p.name])[a] = p.attrs[a]
<1>1. p.name \in Names /\ srv[p.name] # NoAccount /\ srv[p.name].attrs[a] = p.attrs[a]
  BY DEF InPlace, Model
<1>2. p.attrs[a] # Null
  BY DEF Wire
<1>3. a \in Limits => srv[p.name].assoc
  BY <1>1, <1>2 DEF TypeOK
<1> QED BY <1>1, <1>2, <1>3 DEF APIValues

LEMMA InitFInv == Init => FInv
BY DEF Init, FInv, SeenIsTrue, RefreshIsTrue, MetadataIsWritten, StoredIsWritten,
   EmptyPlanMeansNoOtherValue

\* Where a command stands or ends without a promise.
LEMMA NoPromise ==
  ASSUME \/ ~quiet'
         \/ pc' \notin {"idle", "getAssocs", "refreshed", "createLimits", "updateLimits"}
         \/ pc' = "idle" /\ result' \notin {"created", "updated", "clean"}
         \/ pc' = "refreshed" /\ state' = NoAccount
  PROVE  FInv'
BY DEF FInv, SeenIsTrue, RefreshIsTrue, MetadataIsWritten, StoredIsWritten,
   EmptyPlanMeansNoOtherValue

(* What Read stores agrees with what it read.                              *)
LEMMA ReadShowsOrHides ==
  ASSUME TypeOK, state # NoAccount \/ config # NoAccount, srv[Prior.name] # NoAccount,
         NEW m, m = ReadModel(APIValues(srv[Prior.name]), APIValues(srv[Prior.name]))
  PROVE  ShowsOrHides(m, Attributes)
<1> DEFINE shown == APIValues(srv[Prior.name])
<1>1. Prior \in Model /\ m.name = Prior.name
  <2>1. Unset \in [Attributes -> Values \cup {Null}]
    BY DEF Unset
  <2>2. Prior \in Model
    BY <2>1, ReadModelType
  <2> QED BY <2>2 DEF ReadModel, Model
<1>2. \A a \in Attributes : m.attrs[a] = ReadAttribute(Prior.attrs[a], shown[a])
  BY <1>1 DEF ReadModel, Model
<1>3. ASSUME NEW a \in Attributes, Wire(m.attrs[a]) # Null
      PROVE  shown[a] \in {m.attrs[a], Null}
  BY <1>2, <1>3 DEF ReadAttribute, Wire
<1> QED BY <1>1, <1>3 DEF ShowsOrHides

(* Every step keeps what the command knows.                                *)
LEMMA NextFInv == IInv /\ FInv /\ [Next]_vars => FInv'
<1> SUFFICES ASSUME IInv, FInv, [Next]_vars PROVE FInv'
  OBVIOUS
<1>1. CASE UNCHANGED vars
  BY <1>1 DEF vars, history, env, FInv, SeenIsTrue, RefreshIsTrue, MetadataIsWritten,
     StoredIsWritten, EmptyPlanMeansNoOtherValue, Prior, InPlace, ShowsOrHides
<1>2. CASE StartPlan \/ StartReplace \/ StartImport
  BY <1>2, NoPromise DEF StartPlan, StartReplace, StartImport, Start
<1>3. CASE ReadGetAccount
  <2>1. CASE srv[Prior.name] # NoAccount
    <3>1. /\ seen' = APIValues(srv[Prior.name]) /\ pc' = "getAssocs"
          /\ UNCHANGED <<config, state, srv>>
      BY <1>3, <2>1 DEF ReadGetAccount
    <3>2. SeenIsTrue'
      BY <2>1, <3>1 DEF SeenIsTrue, Prior, APIValues
    <3> QED BY <3>1, <3>2 DEF FInv, RefreshIsTrue, MetadataIsWritten, StoredIsWritten,
            EmptyPlanMeansNoOtherValue
  <2>2. CASE srv[Prior.name] = NoAccount
    BY <1>3, <2>2, NoPromise DEF ReadGetAccount, End
  <2> QED BY <2>1, <2>2
<1>4. CASE ReadGetAssociations
  <2>1. pc = "getAssocs" /\ UNCHANGED <<config, srv, history>>
    BY <1>4 DEF ReadGetAssociations
  <2>2. CASE state = NoAccount \/ ~quiet
    BY <1>4, <2>1, <2>2, NoPromise DEF ReadGetAssociations, EndRead, End, history
  <2>3. CASE state # NoAccount /\ quiet
    <3>1. pc' = "refreshed"
      BY <1>4, <2>3 DEF ReadGetAssociations, EndRead
    <3>2. srv[Prior.name] # NoAccount /\ seen = APIValues(srv[Prior.name])
      BY <2>1, <2>3 DEF FInv, SeenIsTrue
    <3>3. ShowsOrHides(state', Attributes)
      BY <1>4, <2>3, <3>2, ReadShowsOrHides DEF ReadGetAssociations, IInv
    <3>4. RefreshIsTrue'
      BY <2>1, <3>3 DEF RefreshIsTrue, ShowsOrHides, APIValues
    <3> QED BY <3>1, <3>4 DEF FInv, SeenIsTrue, MetadataIsWritten, StoredIsWritten,
            EmptyPlanMeansNoOtherValue
  <2> QED BY <2>2, <2>3
<1>5. CASE ReadWithoutAssociations
  <2>1. blind' /\ (pc' = "refreshed" \/ (pc' = "idle" /\ result' = "imported"))
    BY <1>5 DEF ReadWithoutAssociations, EndRead, End
  <2> QED BY <2>1 DEF FInv, SeenIsTrue, RefreshIsTrue, MetadataIsWritten, StoredIsWritten,
          EmptyPlanMeansNoOtherValue
<1>6. CASE Plan
  <2>1. pc = "refreshed" /\ UNCHANGED <<config, state, srv, history>>
    BY <1>6 DEF Plan
  <2>2. CASE pc' = "idle" /\ result' = "clean"
    <3>1. config = state
      BY <1>6, <2>1, <2>2 DEF Plan, End
    <3>2. quiet /\ ~blind /\ config # NoAccount => ShowsOrHides(config, Attributes)
      BY <2>1, <3>1 DEF FInv, RefreshIsTrue
    <3>3. EmptyPlanMeansNoOtherValue'
      BY <2>1, <3>2 DEF EmptyPlanMeansNoOtherValue, ShowsOrHides, APIValues, history
    <3> QED BY <2>2, <3>3 DEF FInv, SeenIsTrue, RefreshIsTrue, MetadataIsWritten, StoredIsWritten
  <2>3. CASE ~(pc' = "idle" /\ result' = "clean")
    BY <1>6, <2>3, NoPromise DEF Plan, End
  <2> QED BY <2>2, <2>3
<1>7. CASE Apply \/ ApplyDelete \/ DeleteAccount
  BY <1>7, NoPromise DEF Apply, ApplyDelete, DeleteAccount, End
<1>8. CASE CreateAccountWithAssociation \/ UpdateAccount \/ CreateAssociations
  <2>1. pc \in Writes /\ Call /\ quiet' = quiet /\ plan' = plan
    BY <1>8 DEF CreateAccountWithAssociation, UpdateAccount, CreateAssociations, Writes, history
  <2>2. PICK row \in Effects : srv' = [srv EXCEPT ![Target] = row]
    BY <2>1 DEF Call
  <2>3. /\ plan \in Model /\ Target = plan.name /\ Target \in Names /\ row \in Row
        /\ Meta \subseteq Attributes /\ Attributes = Meta \cup Limits
    BY <2>1, <2>2, WriteEffects, AccountAssumption DEF GoodRow, Limits
  <2>4. srv'[plan.name] = row /\ row # NoAccount
    BY <2>2, <2>3, AccountAssumption DEF IInv, TypeOK
  <2>5. CASE ~quiet
    BY <2>1, <2>5, NoPromise
  <2>6. CASE quiet /\ pc \in {"create", "update"}
    <3>1. \/ pc' \in {"createLimits", "updateLimits"} /\ HasLimits(plan)
          \/ pc' = "idle" /\ ~HasLimits(plan) /\ state' = plan /\ result' \in {"created", "updated"}
      <4>1. CASE pc = "create"
        BY <1>8, <4>1 DEF CreateAccountWithAssociation, UpdateAccount, CreateAssociations, Store, End
      <4>2. CASE pc = "update"
        BY <1>8, <4>2 DEF CreateAccountWithAssociation, UpdateAccount, CreateAssociations, Store, End
      <4> QED BY <2>6, <4>1, <4>2
    <3>2. pc = "create" => foreign' = (srv[Target] # NoAccount)
      BY <1>8 DEF CreateAccountWithAssociation, UpdateAccount, CreateAssociations
    <3>3. ~foreign' => \A a \in Meta : Wire(plan.attrs[a]) # Null => row.attrs[a] = plan.attrs[a]
      BY <2>1, <2>2, <2>6, <3>2, WriteIsExecuted
    <3>4. ~HasLimits(plan) => \A a \in Limits : Wire(plan.attrs[a]) = Null
      BY DEF HasLimits, Wire
    <3>5. MetadataIsWritten'
      BY <2>1, <2>4, <3>3 DEF MetadataIsWritten, InPlace
    <3>6. StoredIsWritten'
      <4> SUFFICES ASSUME ~foreign', pc' = "idle"
                   PROVE  state' = plan /\ state' # NoAccount
                          /\ \A a \in Attributes : Wire(plan.attrs[a]) # Null => row.attrs[a] = plan.attrs[a]
        BY <2>4 DEF StoredIsWritten, InPlace
      <4> QED BY <2>3, <3>1, <3>3, <3>4, AccountAssumption
    <3> QED BY <3>1, <3>5, <3>6 DEF FInv, SeenIsTrue, RefreshIsTrue, EmptyPlanMeansNoOtherValue
  <2>7. CASE quiet /\ pc \in {"createLimits", "updateLimits"}
    <3>1. /\ pc' = "idle" /\ state' = plan /\ result' \in {"created", "updated"}
          /\ foreign' = foreign
      BY <1>8, <2>7 DEF CreateAccountWithAssociation, UpdateAccount, CreateAssociations, Store,
         End, history
    <3>2. ~foreign => \A a \in Attributes : Wire(plan.attrs[a]) # Null => row.attrs[a] = plan.attrs[a]
      <4>1. \A a \in Limits : Wire(plan.attrs[a]) # Null => row.attrs[a] = plan.attrs[a]
        BY <2>1, <2>2, <2>7, WriteIsExecuted
      <4>2. \A a \in Meta : row.attrs[a] = srv[Target].attrs[a]
        BY <2>1, <2>2, <2>7, WriteIsExecuted
      <4>3. ~foreign => \A a \in Meta : Wire(plan.attrs[a]) # Null => row.attrs[a] = plan.attrs[a]
        BY <2>3, <2>7, <4>2 DEF FInv, MetadataIsWritten, InPlace
      <4> QED BY <2>3, <4>1, <4>3
    <3>3. StoredIsWritten'
      BY <2>3, <2>4, <3>1, <3>2, AccountAssumption DEF StoredIsWritten, InPlace
    <3> QED BY <3>1, <3>3 DEF FInv, SeenIsTrue, RefreshIsTrue, MetadataIsWritten,
            EmptyPlanMeansNoOtherValue
  <2> QED BY <2>1, <2>5, <2>6, <2>7 DEF Writes
<1>9. CASE Refused \/ Fail \/ EditConfig \/ Interfere
  BY <1>9, NoPromise DEF Refused, Fail, EditConfig, Interfere, End
<1> QED BY <1>1, <1>2, <1>3, <1>4, <1>5, <1>6, <1>7, <1>8, <1>9
        DEF Next, Progress, Read, Create, Delete

LEMMA SpecFInv == Spec => []FInv
BY InitFInv, NextFInv, SpecIInv, PTL DEF Spec

(* Drift detection: an empty plan that nothing disturbed means that no     *)
(* declared attribute has another value in slurmdbd.                       *)
THEOREM EmptyPlanIsTrue == Spec => []EmptyPlanMeansNoOtherValue
<1>1. FInv => EmptyPlanMeansNoOtherValue
  BY DEF FInv
<1> QED BY <1>1, SpecFInv, PTL

(* An apply that nothing disturbed reads back as it was stored.            *)
THEOREM AppliedReadsBack == Spec => []ApplyReadsBack
<1>1. IInv /\ FInv => ApplyReadsBack
  <2> SUFFICES ASSUME IInv, FInv, pc = "idle", quiet, ~foreign, result \in {"created", "updated"},
                      \A a \in Attributes : state.attrs[a] # EmptyList
               PROVE  /\ srv[state.name] # NoAccount
                      /\ ReadModel(APIValues(srv[state.name]), APIValues(srv[state.name])) = state
    BY DEF ApplyReadsBack
  <2> DEFINE shown == APIValues(srv[state.name])
  <2>1. state \in Model /\ Prior = state /\ InPlace(state, Attributes)
    BY DEF FInv, StoredIsWritten, IInv, TypeOK, Prior
  <2>2. ASSUME NEW a \in Attributes
        PROVE  ReadAttribute(state.attrs[a], shown[a]) = state.attrs[a]
    BY <2>1, <2>2, WrittenIsShown DEF ReadAttribute, Wire, IInv
  <2>3. ReadModel(shown, shown).attrs = state.attrs
    BY <2>1, <2>2 DEF ReadModel, Model
  <2>4. ReadModel(shown, shown) = state
    BY <2>1, <2>3 DEF ReadModel, Model
  <2> QED BY <2>1, <2>4 DEF InPlace
<1> QED BY <1>1, SpecIInv, SpecFInv, PTL

\* What is carried out, and then stored, is the configuration as it is now.
CarriesOutConfig ==
  /\ pc \in {"planned"} \cup Calls => plan = config
  /\ pc = "idle" /\ result \in {"created", "updated"} => state = config

LEMMA NextCarriesOut == CarriesOutConfig /\ [Next]_vars => CarriesOutConfig'
<1> SUFFICES ASSUME CarriesOutConfig, [Next]_vars PROVE CarriesOutConfig'
  OBVIOUS
<1>1. CASE UNCHANGED vars
  BY <1>1 DEF vars, CarriesOutConfig
<1>2. CASE StartPlan \/ StartReplace \/ StartImport \/ Read \/ ReadWithoutAssociations \/ EditConfig
           \/ Fail \/ Refused
  BY <1>2 DEF StartPlan, StartReplace, StartImport, Start, Read, ReadGetAccount,
     ReadGetAssociations, ReadWithoutAssociations, EndRead, EditConfig, Fail, Refused, End,
     CarriesOutConfig, Calls, Writes
<1>3. CASE Plan
  BY <1>3 DEF Plan, End, CarriesOutConfig, Calls, Writes
<1>4. CASE Apply \/ Delete \/ Interfere
  BY <1>4 DEF Apply, Delete, ApplyDelete, DeleteAccount, Interfere, End, CarriesOutConfig, Calls, Writes
<1>5. CASE Create \/ UpdateAccount
  BY <1>5 DEF Create, CreateAccountWithAssociation, CreateAssociations, UpdateAccount, Store, End,
     CarriesOutConfig, Calls, Writes
<1> QED BY <1>1, <1>2, <1>3, <1>4, <1>5 DEF Next, Progress

LEMMA SpecCarriesOut == Spec => []CarriesOutConfig
<1>1. Init => CarriesOutConfig
  BY DEF Init, CarriesOutConfig, Calls, Writes
<1> QED BY <1>1, NextCarriesOut, PTL DEF Spec

\* After an apply that nothing disturbed, the next plan of the same
\* configuration is empty.  Left out is what ApplyReadsBack leaves out.
SecondPlanIsEmpty ==
  /\ pc = "idle" /\ quiet /\ ~foreign /\ result \in {"created", "updated"}
  /\ \A a \in Attributes : state.attrs[a] # EmptyList
  => LET shown     == APIValues(srv[state.name])
         refreshed == ReadModel(shown, shown)
     IN  srv[state.name] # NoAccount /\ config = refreshed /\ ~Destroys(refreshed, config, FALSE)

(* What the acceptance tests check of a few configurations: the plan after *)
(* an apply that nothing disturbed has nothing to do.                      *)
THEOREM SecondPlanHasNoDrift == Spec => []SecondPlanIsEmpty
<1>1. CarriesOutConfig /\ ApplyReadsBack => SecondPlanIsEmpty
  BY DEF CarriesOutConfig, ApplyReadsBack, SecondPlanIsEmpty, Destroys
<1> QED BY <1>1, SpecCarriesOut, AppliedReadsBack, PTL
=============================================================================
