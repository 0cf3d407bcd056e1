---------------------------- MODULE UserResource ----------------------------
(***************************************************************************)
(* One slurm_user resource (src/internal/resources/user.go) driven by the  *)
(* Terraform core against slurmdbd.  A command (plan/apply, or import)     *)
(* refreshes the state with two GETs, plans, and applies with a sequence   *)
(* of HTTP calls.  Every call is a step of its own: it may be executed and *)
(* answered, refused by the server, or lost with or without its effect.    *)
(* Between any two steps an administrator may change slurmdbd with         *)
(* sacctmgr, and between two commands the configuration may be edited.     *)
(*                                                                         *)
(* The twenty limits and settings of an association are abstracted to      *)
(* Fields, told apart only by what the API shows for an unset value        *)
(* (Inherited) and by which values a read without a prior hides            *)
(* (ImportHides).                                                          *)
(***************************************************************************)
EXTENDS Naturals

CONSTANTS
  Accounts, Partitions, NoPartition,  \* an association key is (account, partition)
  Fields, Values,         \* optional attributes of an association
  EmptyList,              \* an attribute declared as [] (never sent: omitempty)
  Null,                   \* an absent attribute
  NoAssoc, NoUser,        \* no association at a key; no resource at all
  AdminLevels, NoneLevel, \* administrator levels; NoneLevel is "None"
  WCKeys,                 \* default workload characterization keys
  WCKeyReadable,          \* does the API return default.wckey?
  Inherited,              \* Fields -> what the API shows for an unset value
  ImportHides,            \* Fields -> values not taken from the API without a prior
  UnscopedDelete,         \* what DELETE without a partition selects
  QosDenied,              \* Key -> the rows slurmdbd's QOS rules refuse there
  Configs,                \* the configurations the operator may write
  MaxEdits, MaxFaults, MaxInterference  \* bounds of the environment

Key == Accounts \X (Partitions \cup {NoPartition})
Attrs == [Fields -> Values \cup {Null, EmptyList}]
AssocMap == [Key -> Attrs \cup {NoAssoc}]
ServerRow == [Fields -> Values \cup {Null}]
Model == [admin   : AdminLevels \cup {Null},
          wckey   : WCKeys \cup {Null},
          default : Accounts \cup {Null},
          assocs  : AssocMap]

ASSUME ConstantsAssumption ==
  /\ NoAssoc \notin Attrs
  /\ NoUser \notin Model
  /\ NoPartition \notin Partitions
  /\ Null \notin Accounts \cup AdminLevels \cup WCKeys \cup Values
  /\ EmptyList \notin Values \cup {Null}
  /\ NoneLevel \in AdminLevels
  /\ WCKeyReadable \in BOOLEAN
  /\ Inherited \in [Fields -> Values \cup {Null}]
  /\ ImportHides \in [Fields -> SUBSET Values]
  /\ UnscopedDelete \in {"exact", "all", "refuse"}
  /\ QosDenied \in [Key -> SUBSET ServerRow]
  /\ Configs \subseteq Model \cup {NoUser}
  /\ \A c \in Configs \ {NoUser} : c.default \in Accounts
  /\ MaxEdits \in Nat /\ MaxFaults \in Nat /\ MaxInterference \in Nat

VARIABLES
  config,   \* the resource block in the .tf files
  state,    \* the resource in the Terraform state
  srv,      \* the user in slurmdbd: the user row and its associations
  pc,       \* where the running command is; "idle" between commands
  plan,     \* the planned state Terraform core hands to the provider
  seen,     \* the user object GetUser returned, until GetAssociations answers
  todo,     \* keys of diff.Delete not deleted yet
  result,   \* how the last command ended
  quiet,    \* history: no interference since the command started
  foreign,  \* history: Create found the user there, or Read found no default
  edits, faults, interferences   \* what the environment did so far

env == <<edits, faults, interferences>>
vars == <<config, state, srv, pc, plan, seen, todo, result, quiet, foreign, env>>

NoAssocs == [k \in Key |-> NoAssoc]
Blank == [f \in Fields |-> Null]
Keys(m) == {k \in Key : m[k] # NoAssoc}

\* hasAccountAssociation
HasAccountAssociation(m, account) == \E k \in Keys(m) : k[1] = account

\* validateUserConfigInvariants (and the backstop of Create)
ValidConfig(c) == Keys(c.assocs) # {} /\ HasAccountAssociation(c.assocs, c.default)

-----------------------------------------------------------------------------
(* Reading *)

\* What importStateByName leaves for Read: only the name is known.
Imported == [admin |-> Null, wckey |-> Null, default |-> Null, assocs |-> NoAssocs]

Prior == IF state = NoUser THEN Imported ELSE state

\* GET shows the inherited or default value where the association has none.
APIValue(s, k, f) == IF s.assocs[k][f] # Null THEN s.assocs[k][f] ELSE Inherited[f]

APIWCKey(s) == IF WCKeyReadable THEN s.wckey ELSE Null

\* One attribute in apiAssociationsToState: without a prior the API value is
\* taken unless hidden; with one, only an attribute the prior holds is taken.
ReadField(prior, f, v) ==
  IF prior = NoAssoc THEN IF v \in ImportHides[f] THEN Null ELSE v
                     ELSE IF prior[f] = Null THEN Null ELSE v

APIAssociationsToState(prior, s) ==
  [k \in Key |-> IF s.assocs[k] = NoAssoc THEN NoAssoc
                 ELSE [f \in Fields |-> ReadField(prior[k], f, APIValue(s, k, f))]]

\* Mutant: the is_default flag is not looked at once a default is known.
StickyReadModel(prior, u, s) ==
  [admin   |-> u.admin,
   wckey   |-> IF u.wckey # Null /\ prior.wckey # Null THEN u.wckey ELSE prior.wckey,
   default |-> IF prior.default = Null THEN s.default ELSE prior.default,
   assocs  |-> APIAssociationsToState(prior.assocs, s)]

\* The model Read stores: u is GetUser's answer, s the server at GetAssociations.
ReadModel(prior, u, s) ==
  [admin   |-> u.admin,
   wckey   |-> IF u.wckey # Null /\ prior.wckey # Null THEN u.wckey ELSE prior.wckey,
   default |-> IF HasAccountAssociation(s.assocs, s.default) THEN s.default ELSE prior.default,
   assocs  |-> APIAssociationsToState(prior.assocs, s)]

UserObject(s) == [admin |-> s.admin, wckey |-> APIWCKey(s)]

-----------------------------------------------------------------------------
(* Planning and diffing *)

\* The proposed new state: admin_level is Optional+Computed with
\* UseStateForUnknown, and Null stands for "known after apply".
Planned(c, st) ==
  IF c = NoUser \/ st = NoUser THEN c
  ELSE [c EXCEPT !.admin = IF c.admin = Null THEN st.admin ELSE c.admin]

\* Mutant: empty lists are sent.
WireAll(v) == v

\* What the JSON body carries: omitempty drops empty lists as well as nil.
Wire(v) == IF v = EmptyList THEN Null ELSE v

\* Mutant: an attribute missing from the comparison.
AssociationsEqualButQos(a, b) == \A f \in Fields \ {"default_qos"} : Wire(a[f]) = Wire(b[f])

AssociationsEqual(a, b) == \A f \in Fields : Wire(a[f]) = Wire(b[f])

DiffCreate(old, new) == Keys(new) \ Keys(old)
DiffUpdate(old, new) == {k \in Keys(new) \cap Keys(old) : ~AssociationsEqual(old[k], new[k])}
\* Mutants: changed associations are deleted and made anew; keys are accounts only.
DiffDeleteChanged(old, new) == (Keys(old) \ Keys(new)) \cup DiffUpdate(old, new)
DiffDeleteAccounts(old, new) == {k \in Keys(old) : ~HasAccountAssociation(new, k[1])}
DiffDelete(old, new) == Keys(old) \ Keys(new)

-----------------------------------------------------------------------------
(* slurmdbd, as the provider uses it.  Each operator is the set of servers *)
(* the request may leave behind; the empty set is a refusal.               *)

NoServerUser ==
  [user |-> FALSE, admin |-> NoneLevel, wckey |-> Null, default |-> Null, assocs |-> NoAssocs]

\* POST users_association/: adds an unscoped association, and the user when
\* it is new.  Which account is then the default of an existing user is left open.
ServerCreateUser(s, account) ==
  LET base == IF s.user THEN s ELSE [NoServerUser EXCEPT !.user = TRUE]
      key  == <<account, NoPartition>>
      add  == [base.assocs EXCEPT ![key] = IF @ = NoAssoc THEN Blank ELSE @]
  IN  {[base EXCEPT !.assocs = add, !.default = d] : d \in ({account, base.default} \ {Null})}

\* POST users/: the default account must be one the user is associated with.
ServerUpdateUser(s, p) ==
  IF s.user /\ HasAccountAssociation(s.assocs, p.default)
  THEN {[s EXCEPT !.default = p.default,
                  !.admin   = IF p.admin = Null THEN @ ELSE p.admin,
                  !.wckey   = IF p.wckey = Null THEN @ ELSE p.wckey]}
  ELSE {}

\* Mutant: every attribute is sent, null ones as a reset.
UpsertedWhole(row, a) == [f \in Fields |-> Wire(a[f])]

\* The row of one association after an upsert of the attributes of a.
Upserted(row, a) ==
  [f \in Fields |-> IF Wire(a[f]) # Null THEN a[f] ELSE IF row = NoAssoc THEN Null ELSE row[f]]

\* POST associations/: upserts the rows ks of m; a user left without a default
\* account may get one of them.  A row whose default QOS is not accessible to it
\* is refused, and the batch with it (qosAccessHint).
ServerUpsert(s, ks, m) ==
  IF s.user /\ \A k \in ks : Upserted(s.assocs[k], m[k]) \notin QosDenied[k]
  THEN LET rows == [k \in Key |-> IF k \in ks THEN Upserted(s.assocs[k], m[k]) ELSE s.assocs[k]]
       IN  {[s EXCEPT !.assocs = rows, !.default = d] :
               d \in IF s.default = Null THEN {Null} \cup {k[1] : k \in ks} ELSE {s.default}}
  ELSE {}

\* A batch that fails may have been executed for some of its rows.
ServerPartialUpsert(s, ks, m) == UNION {ServerUpsert(s, part, m) : part \in SUBSET ks}

\* The rows DELETE association/ selects: no partition parameter is sent for an
\* unscoped key, and what the server makes of that is a parameter.
Selected(s, k) ==
  IF k[2] = NoPartition /\ UnscopedDelete # "exact"
  THEN {j \in Keys(s.assocs) : j[1] = k[1]}
  ELSE Keys(s.assocs) \cap {k}

Without(s, ks) == [k \in Key |-> IF k \in ks THEN NoAssoc ELSE s.assocs[k]]

\* DELETE association/: nothing selected is a no-op (304); the unscoped and the
\* last association of the default account stay ("never resolves", README of
\* examples/big-cluster); an ambiguous selector may be refused.
ServerDelete(s, k) ==
  IF \/ UnscopedDelete = "refuse" /\ \E i, j \in Selected(s, k) : i # j
     \/ /\ s.default # Null
        /\ \/ <<s.default, NoPartition>> \in Selected(s, k)
           \/ ~HasAccountAssociation(Without(s, Selected(s, k)), s.default)
  THEN {}
  ELSE {[s EXCEPT !.assocs = Without(s, Selected(s, k))]}

-----------------------------------------------------------------------------
Init ==
  /\ config \in Configs
  /\ state = NoUser
  /\ srv = NoServerUser
  /\ pc = "idle"
  /\ plan = NoUser
  /\ seen = UserObject(NoServerUser)
  /\ todo = {}
  /\ result = "none"
  /\ quiet = TRUE
  /\ foreign = FALSE
  /\ edits = 0 /\ faults = 0 /\ interferences = 0

\* A command ends; the diagnostics decide how.
End(how) == pc' = "idle" /\ result' = how

-----------------------------------------------------------------------------
(* The command up to the plan *)

\* tofu validate/plan: ValidateConfig rejects the block.
ValidateConfig ==
  /\ pc = "idle" /\ config # NoUser /\ ~ValidConfig(config)
  /\ End("invalid")
  /\ UNCHANGED <<config, state, srv, plan, seen, todo, quiet, foreign, env>>

\* tofu plan/apply.  An invalid block comes this far when an account in it is
\* not known yet, so that ValidateConfig skips the check.
StartPlan ==
  /\ pc = "idle"
  /\ pc' = IF state = NoUser THEN "refreshed" ELSE "getUser"
  /\ quiet' = TRUE
  /\ result' = "none"
  /\ UNCHANGED <<config, state, srv, plan, seen, todo, foreign, env>>

\* tofu import: ImportState stores the name, then core calls Read.
StartImport ==
  /\ pc = "idle" /\ state = NoUser /\ config # NoUser
  /\ pc' = "getUser"
  /\ quiet' = TRUE
  /\ result' = "none"
  /\ UNCHANGED <<config, state, srv, plan, seen, todo, foreign, env>>

\* Read, first call: a missing user leaves the state (or fails the import).
ReadGetUser ==
  /\ pc = "getUser"
  /\ \/ /\ srv.user
        /\ seen' = UserObject(srv)
        /\ pc' = "getAssocs"
        /\ UNCHANGED <<state, result>>
     \/ /\ ~srv.user /\ state # NoUser
        /\ state' = NoUser
        /\ pc' = "refreshed"
        /\ UNCHANGED <<seen, result>>
     \/ /\ ~srv.user /\ state = NoUser
        /\ End("failed")
        /\ UNCHANGED <<state, seen>>
  /\ UNCHANGED <<config, srv, plan, todo, quiet, foreign, env>>

\* Read, second call, and the state it stores.
ReadGetAssociations ==
  /\ pc = "getAssocs"
  /\ state' = ReadModel(Prior, seen, srv)
  /\ foreign' = (srv.default = Null)
  /\ IF state = NoUser THEN End("imported") ELSE pc' = "refreshed" /\ UNCHANGED result
  /\ UNCHANGED <<config, srv, plan, seen, todo, quiet, env>>

\* Terraform core compares the planned state with the refreshed one.
Plan ==
  /\ pc = "refreshed"
  /\ plan' = Planned(config, state)
  /\ IF plan' = state THEN End("clean") ELSE pc' = "planned" /\ UNCHANGED result
  /\ UNCHANGED <<config, state, srv, seen, todo, quiet, foreign, env>>

-----------------------------------------------------------------------------
(* Apply: Create *)

ApplyCreate ==
  /\ pc = "planned" /\ state = NoUser
  /\ IF ValidConfig(plan) THEN pc' = "create" /\ UNCHANGED result ELSE End("failed")
  /\ UNCHANGED <<config, state, srv, plan, seen, todo, quiet, foreign, env>>

\* needsUpdate of Create
NeedsUserUpdate(p) == p.admin \notin {Null, NoneLevel} \/ p.wckey # Null

CreateUserWithAssociation ==
  /\ pc = "create"
  /\ srv' \in ServerCreateUser(srv, plan.default)
  /\ foreign' = srv.user
  /\ pc' = IF NeedsUserUpdate(plan) THEN "createAttrs" ELSE "createAssocs"
  /\ UNCHANGED <<config, state, plan, seen, todo, result, quiet, env>>

\* The body of this UpdateUser leaves administrator_level out for "None".
CreateAttrsBody(p) == [p EXCEPT !.admin = IF @ = NoneLevel THEN Null ELSE @]

CreateUpdateUser ==
  /\ pc = "createAttrs"
  /\ srv' \in ServerUpdateUser(srv, CreateAttrsBody(plan))
  /\ pc' = "createAssocs"
  /\ UNCHANGED <<config, state, plan, seen, todo, result, quiet, foreign, env>>

\* The upsert of every association; then Create stores the plan.
CreateAssociations ==
  /\ pc = "createAssocs"
  /\ srv' \in ServerUpsert(srv, Keys(plan.assocs), plan.assocs)
  /\ state' = [plan EXCEPT !.admin = IF @ = Null THEN NoneLevel ELSE @]
  /\ End("created")
  /\ UNCHANGED <<config, plan, seen, todo, quiet, foreign, env>>

-----------------------------------------------------------------------------
(* Apply: Update.  The order is create, update user, update, delete. *)

\* Mutant: a change of the default account alone is not noticed.
UserChangedButDefault == state.admin # plan.admin \/ state.wckey # plan.wckey

UserChanged == \/ state.default # plan.default
               \/ state.admin # plan.admin
               \/ state.wckey # plan.wckey

AfterUser == IF DiffUpdate(state.assocs, plan.assocs) # {} THEN "updAssocs" ELSE "updDelete"
AfterCreate == IF UserChanged THEN "updUser" ELSE AfterUser
\* Mutant: the user is updated before its new associations exist.
FirstCallUser == AfterCreate
FirstCall == IF DiffCreate(state.assocs, plan.assocs) # {} THEN "updCreate" ELSE AfterCreate

ApplyUpdate ==
  /\ pc = "planned" /\ state # NoUser /\ plan # NoUser
  /\ IF HasAccountAssociation(plan.assocs, plan.default)
     THEN /\ pc' = FirstCall
          /\ todo' = DiffDelete(state.assocs, plan.assocs)
          /\ UNCHANGED result
     ELSE End("failed") /\ UNCHANGED todo
  /\ UNCHANGED <<config, state, srv, plan, seen, quiet, foreign, env>>

UpdateCreateAssociations ==
  /\ pc = "updCreate"
  /\ srv' \in ServerUpsert(srv, DiffCreate(state.assocs, plan.assocs), plan.assocs)
  /\ pc' = AfterCreate
  /\ UNCHANGED <<config, state, plan, seen, todo, result, quiet, foreign, env>>

UpdateUser ==
  /\ pc = "updUser"
  /\ srv' \in ServerUpdateUser(srv, plan)
  /\ pc' = AfterUser
  /\ UNCHANGED <<config, state, plan, seen, todo, result, quiet, foreign, env>>

UpdateAssociations ==
  /\ pc = "updAssocs"
  /\ srv' \in ServerUpsert(srv, DiffUpdate(state.assocs, plan.assocs), plan.assocs)
  /\ pc' = "updDelete"
  /\ UNCHANGED <<config, state, plan, seen, todo, result, quiet, foreign, env>>

\* One turn of the delete loop; the sorted order of the keys is left open.
DeleteAssociation(k) ==
  /\ pc = "updDelete" /\ k \in todo
  /\ srv' \in ServerDelete(srv, k)
  /\ todo' = todo \ {k}
  /\ UNCHANGED <<config, state, pc, plan, seen, result, quiet, foreign, env>>

FinishUpdate ==
  /\ pc = "updDelete" /\ todo = {}
  /\ state' = plan
  /\ End("updated")
  /\ UNCHANGED <<config, srv, plan, seen, todo, quiet, foreign, env>>

-----------------------------------------------------------------------------
(* Apply: Delete *)

ApplyDelete ==
  /\ pc = "planned" /\ plan = NoUser
  /\ pc' = "delete"
  /\ UNCHANGED <<config, state, srv, plan, seen, todo, result, quiet, foreign, env>>

\* slurmdbd removes the associations with the user.
DeleteUser ==
  /\ pc = "delete"
  /\ srv' = NoServerUser
  /\ state' = NoUser
  /\ End("deleted")
  /\ UNCHANGED <<config, plan, seen, todo, quiet, foreign, env>>

-----------------------------------------------------------------------------
(* Failures.  An error return keeps the state the command started from. *)

Upserts == {"createAssocs", "updCreate", "updAssocs"}

\* The rows the upsert at pc sends.
Batch == CASE pc = "createAssocs" -> Keys(plan.assocs)
           [] pc = "updCreate"    -> DiffCreate(state.assocs, plan.assocs)
           [] pc = "updAssocs"    -> DiffUpdate(state.assocs, plan.assocs)

\* The servers the call at pc \in Calls may leave when it is executed.
CallEffects ==
  CASE pc = "create"       -> ServerCreateUser(srv, plan.default)
    [] pc = "createAttrs"  -> ServerUpdateUser(srv, CreateAttrsBody(plan))
    [] pc \in Upserts      -> ServerPartialUpsert(srv, Batch, plan.assocs)
    [] pc = "updUser"      -> ServerUpdateUser(srv, plan)
    [] pc = "updDelete"    -> UNION {ServerDelete(srv, k) : k \in todo}
    [] pc = "delete"       -> {NoServerUser}

Calls == {"create", "createAttrs", "createAssocs", "updCreate", "updUser",
          "updAssocs", "updDelete", "delete"}

\* The call fails after every retry, or the process is interrupted: the
\* request may have been executed all the same.  A GET fails without effect,
\* and a plan may simply not be approved.
Fail ==
  /\ pc # "idle" /\ faults < MaxFaults
  /\ faults' = faults + 1
  /\ \/ srv' = srv
     \/ pc \in Calls /\ srv' \in CallEffects
  /\ End("failed")
  /\ UNCHANGED <<config, state, plan, seen, todo, quiet, foreign, edits, interferences>>

\* slurmdbd refuses the call at pc.
Refused ==
  /\ pc \in Calls
  /\ CASE pc \in Upserts    -> ServerUpsert(srv, Batch, plan.assocs) = {}
       [] pc = "updDelete"  -> \E k \in todo : ServerDelete(srv, k) = {}
       [] OTHER             -> CallEffects = {}
  /\ End("refused")
  /\ UNCHANGED <<config, state, srv, plan, seen, todo, quiet, foreign, env>>

-----------------------------------------------------------------------------
(* The environment *)

EditConfig ==
  /\ pc = "idle" /\ edits < MaxEdits
  /\ edits' = edits + 1
  /\ config' \in Configs \ {config}
  /\ result' = "none"
  /\ UNCHANGED <<state, srv, pc, plan, seen, todo, quiet, foreign, faults, interferences>>

\* Removing rows outside Terraform (an account deleted with its associations)
\* leaves the user without a default when the default account goes.
RowsRemoved(ks) ==
  [srv EXCEPT !.assocs  = Without(srv, ks),
              !.default = IF HasAccountAssociation(Without(srv, ks), @) THEN @ ELSE Null]

OutOfBand ==
  \/ ~srv.user /\ \E a \in Accounts : srv' \in ServerCreateUser(srv, a)
  \/ srv.user /\ srv' = NoServerUser
  \/ \E k \in Keys(srv.assocs) :
       \/ srv' = RowsRemoved({k})
       \/ \E f \in Fields, v \in Values \cup {Null} : srv' = [srv EXCEPT !.assocs[k][f] = v]
       \/ srv' = [srv EXCEPT !.default = k[1]]
  \/ srv.user /\ \E k \in Key \ Keys(srv.assocs) : srv' = [srv EXCEPT !.assocs[k] = Blank]
  \/ srv.user /\ \E a \in AdminLevels : srv' = [srv EXCEPT !.admin = a]

\* sacctmgr, or another resource of the same configuration.
Interfere ==
  /\ interferences < MaxInterference
  /\ interferences' = interferences + 1
  /\ OutOfBand
  /\ quiet' = FALSE
  /\ UNCHANGED <<config, state, pc, plan, seen, todo, result, foreign, edits, faults>>

-----------------------------------------------------------------------------
Read == ReadGetUser \/ ReadGetAssociations
Create == ApplyCreate \/ CreateUserWithAssociation \/ CreateUpdateUser \/ CreateAssociations
Update == \/ ApplyUpdate \/ UpdateCreateAssociations \/ UpdateUser \/ UpdateAssociations
          \/ FinishUpdate
          \/ \E k \in todo : DeleteAssociation(k)
Delete == ApplyDelete \/ DeleteUser

\* The steps of a command that is making progress.
Progress == Read \/ Plan \/ Create \/ Update \/ Delete \/ Refused

Next == \/ ValidateConfig \/ StartPlan \/ StartImport
        \/ Progress
        \/ Fail \/ EditConfig \/ Interfere

Spec == Init /\ [][Next]_vars

\* Every HTTP call returns (the client has a timeout), so a started command
\* ends; and the operator runs plan/apply again and again, imports or not.
Fairness == WF_vars(Progress) /\ SF_vars(StartPlan)
FairSpec == Spec /\ Fairness

-----------------------------------------------------------------------------
(* Properties *)

PCs == {"idle", "getUser", "getAssocs", "refreshed", "planned"} \cup Calls
Results == {"none", "invalid", "clean", "created", "updated", "deleted",
            "imported", "failed", "refused"}

Server == [user    : BOOLEAN,
           admin   : AdminLevels,
           wckey   : WCKeys \cup {Null},
           default : Accounts \cup {Null},
           assocs  : [Key -> ServerRow \cup {NoAssoc}]]

(* Every variable keeps its type; slurmdbd never stores the empty list, a  *)
(* missing user has no rows, and a default account is one of the user's.   *)
TypeOK ==
  /\ config \in Configs
  /\ state \in Model \cup {NoUser}
  /\ srv \in Server
  /\ srv.user \/ srv = NoServerUser
  /\ srv.default # Null => HasAccountAssociation(srv.assocs, srv.default)
  /\ pc \in PCs /\ result \in Results
  /\ plan \in Model \cup {NoUser}
  /\ seen \in [admin : AdminLevels, wckey : WCKeys \cup {Null}]
  /\ todo \in SUBSET Key
  /\ quiet \in BOOLEAN /\ foreign \in BOOLEAN
  /\ edits \in 0..MaxEdits /\ faults \in 0..MaxFaults
  /\ interferences \in 0..MaxInterference

(* Update's ordering (user.go: create, update user, update, delete): left  *)
(* alone, a command never names a default account without an association,  *)
(* and never deletes the last association of the default account.          *)
DefaultNeverDangles ==
  quiet =>
    /\ pc \in {"createAttrs", "updUser"} => HasAccountAssociation(srv.assocs, plan.default)
    /\ pc = "updDelete" /\ srv.default # Null =>
         HasAccountAssociation(Without(srv, todo), srv.default)

\* A declared association that slurmdbd's QOS rules do not admit.
Denied(p) == \E k \in Keys(p.assocs) : Upserted(srv.assocs[k], p.assocs[k]) \in QosDenied[k]

(* The order of Create and Update never gets a command refused: left       *)
(* alone, it is refused only for what its plan asks: an association the    *)
(* QOS rules deny (the errors assocErrorDetail explains), or the deletion  *)
(* of an unscoped association next to another one of the same account.     *)
RefusedForAReason ==
  quiet /\ result = "refused" =>
    \/ Denied(plan)
    \/ /\ state # NoUser
       /\ \E k \in todo : k[2] = NoPartition /\ \E j \in Keys(srv.assocs) \ {k} : j[1] = k[1]

(* The diff by natural key: a step of Update never removes an association  *)
(* that the plan keeps.  Where slurmdbd refuses a DELETE that selects      *)
(* several, the only one left may be a scoped one: this needs the          *)
(* refreshed rows in place.  It is not claimed for UnscopedDelete = "all". *)
KeepsPlannedAssociations ==
  [][/\ pc \in Calls /\ state # NoUser /\ plan # NoUser
     /\ UNCHANGED interferences
     /\ quiet \/ UnscopedDelete = "exact"
     => Keys(plan.assocs) \cap Keys(srv.assocs) \subseteq Keys(srv.assocs)']_vars

(* "Removing this attribute stops managing it": a call never changes an    *)
(* attribute that the plan leaves null.                                    *)
NullIsUnmanaged ==
  [][(pc \in Calls) /\ plan # NoUser /\ UNCHANGED interferences =>
     \A k \in Keys(plan.assocs) \cap Keys(srv.assocs) \cap Keys(srv.assocs)', f \in Fields :
       plan.assocs[k][f] = Null => srv.assocs[k][f]' = srv.assocs[k][f]]_vars

\* The state the next refresh would store.
Refreshed == ReadModel(state, UserObject(srv), srv)

(* The acceptance tests' "second plan shows no drift": after an apply that *)
(* nothing disturbed, a refresh reads back exactly the state stored.  Left *)
(* out: a user that Create finds in slurmdbd or Read finds without default *)
(* account, and the extra row the bootstrap call of Create leaves when the *)
(* default account is declared with a partition only.                      *)
ApplyReadsBack ==
  /\ pc = "idle" /\ quiet /\ ~foreign /\ result \in {"created", "updated"}
  /\ result = "created" => <<state.default, NoPartition>> \in Keys(state.assocs)
  => Refreshed = state

\* slurmdbd is what the configuration asks for: its associations, no other but
\* those in extra, and every declared attribute.  A user without any default
\* account is not seen.
InForce(c, extra) ==
  /\ srv.user
  /\ Keys(c.assocs) \subseteq Keys(srv.assocs)
  /\ Keys(srv.assocs) \ Keys(c.assocs) \subseteq extra
  /\ srv.default \in {c.default, Null}
  /\ c.admin # Null => srv.admin = c.admin
  /\ WCKeyReadable /\ c.wckey # Null => srv.wckey \in {c.wckey, Null}
  /\ \A k \in Keys(c.assocs), f \in Fields :
       c.assocs[k][f] # Null => APIValue(srv, k, f) = Wire(c.assocs[k][f])

(* Drift detection: when a plan that nothing disturbed is empty, slurmdbd  *)
(* holds everything the configuration declares.                            *)
EmptyPlanMeansInForce ==
  pc = "idle" /\ quiet /\ result = "clean" /\ config # NoUser => InForce(config, {})

\* The rows that c does not declare, where slurmdbd refuses to delete one of
\* them: the delete loop stops there, in every apply.
Leftover(c) == LET undeclared == Keys(srv.assocs) \ Keys(c.assocs)
               IN  IF \E k \in undeclared : ServerDelete(srv, k) = {} THEN undeclared ELSE {}

(* Retry converges: whatever failed, was interrupted or was changed by     *)
(* hand, repeated applies bring slurmdbd to the configuration for good,    *)
(* unless its QOS rules deny an association, and but for undeclared rows   *)
(* that slurmdbd refuses to delete (a default account declared with a      *)
(* partition only keeps its unscoped row: the diff never resolves).        *)
Converges ==
  <>[](IF config = NoUser THEN state = NoUser
       ELSE ValidConfig(config) /\ ~Denied(config) => InForce(config, Leftover(config)))
=============================================================================
