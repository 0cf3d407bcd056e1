--------------------------- MODULE AccountResource ---------------------------
(***************************************************************************)
(* One slurm_account resource (src/internal/resources/account.go) driven   *)
(* by the Terraform core against slurmdbd, one step per HTTP call.  The    *)
(* name of the account may change, which replaces it, and one account,     *)
(* Root, must never be deleted.                                            *)
(*                                                                         *)
(* The optional attributes are told apart by the request that carries them *)
(* (Meta: accounts/ and accounts_association/; the others: associations/), *)
(* by what the API shows for an unset value (Inherited), and by whether an *)
(* update sends a blank for an undeclared one (SentBlank: no omitempty).   *)
(***************************************************************************)
EXTENDS Naturals

CONSTANTS
  Names, Root,
  Attributes, Meta, SentBlank,
  Values,
  EmptyList,   \* an attribute declared as [] (never sent: omitempty)
  Null,        \* an absent attribute
  NoAccount,   \* no resource, or no account
  Inherited,   \* Attributes -> what the API shows for an unset value
  Configs,     \* the configurations the operator may write
  MaxEdits, MaxFaults, MaxInterference  \* bounds of the environment

Model == [name : Names, attrs : [Attributes -> Values \cup {Null, EmptyList}]]

\* assoc: has the account an association on the cluster of the provider?
Row == [assoc : BOOLEAN, attrs : [Attributes -> Values \cup {Null}]]

ASSUME AccountAssumption ==
  /\ Root \in Names
  /\ SentBlank \subseteq Meta /\ Meta \subseteq Attributes
  /\ Null \notin Values /\ EmptyList \notin Values \cup {Null}
  /\ NoAccount \notin Model \cup Row
  /\ Inherited \in [Attributes -> Values \cup {Null}]
  /\ Configs \subseteq Model \cup {NoAccount}
  /\ MaxEdits \in Nat /\ MaxFaults \in Nat /\ MaxInterference \in Nat

VARIABLES
  config,   \* the resource block in the .tf files
  state,    \* the resource in the Terraform state
  srv,      \* Names -> the accounts in slurmdbd
  pc,       \* where the running command is; "idle" between commands
  plan,     \* the planned state Terraform core hands to the provider
  seen,     \* the account GetAccount returned, until GetAssociations answers
  replace,  \* was the command started with -replace, or the resource tainted?
  result,   \* how the last command ended
  quiet,    \* history: no interference since the command started
  blind,    \* history: the second call of Read failed
  foreign,  \* history: Create found the account in slurmdbd
  edits, faults, interferences   \* what the environment did so far

env == <<edits, faults, interferences>>
history == <<quiet, blind, foreign>>
vars == <<config, state, srv, pc, plan, seen, replace, result, history, env>>

Unset == [a \in Attributes |-> Null]
Limits == Attributes \ Meta

Init ==
  /\ config \in Configs
  /\ state = NoAccount
  /\ srv = [n \in Names |-> IF n = Root THEN [assoc |-> TRUE, attrs |-> Unset] ELSE NoAccount]
  /\ pc = "idle" /\ plan = NoAccount
  /\ seen = Unset
  /\ replace = FALSE
  /\ result = "none"
  /\ quiet = TRUE /\ blind = FALSE /\ foreign = FALSE
  /\ edits = 0 /\ faults = 0 /\ interferences = 0

\* A command ends; the diagnostics decide how.
End(how) == pc' = "idle" /\ result' = how

-----------------------------------------------------------------------------
(* Reading *)

\* What importStateByName leaves for Read: only the name is known.
Prior == IF state = NoAccount THEN [name |-> config.name, attrs |-> Unset] ELSE state

\* What the GETs show of a row: inherited or default values where it has none.
APIValues(row) ==
  [a \in Attributes |->
     IF row = NoAccount \/ (a \in Limits /\ ~row.assoc) THEN Null
     ELSE IF row.attrs[a] # Null THEN row.attrs[a] ELSE Inherited[a]]

\* Mutant: the null check of the prior state is inverted.
ReadWhenNull(prior, v) == IF prior # Null \/ v = Null THEN prior ELSE v

\* Null-preservation; and what the API does not show stays as it was.
ReadAttribute(prior, v) == IF prior = Null \/ v = Null THEN prior ELSE v

\* The state Read stores from the account and its association.
ReadModel(account, association) ==
  [Prior EXCEPT !.attrs = [a \in Attributes |->
     ReadAttribute(@[a], IF a \in Meta THEN account[a] ELSE association[a])]]

\* Read, first call: a missing account leaves the state (or fails the import).
ReadGetAccount ==
  /\ pc = "getAccount"
  /\ \/ /\ srv[Prior.name] # NoAccount
        /\ seen' = APIValues(srv[Prior.name])
        /\ pc' = "getAssocs"
        /\ UNCHANGED <<state, result>>
     \/ /\ srv[Prior.name] = NoAccount /\ state # NoAccount
        /\ state' = NoAccount
        /\ pc' = "refreshed"
        /\ UNCHANGED <<seen, result>>
     \/ /\ srv[Prior.name] = NoAccount /\ state = NoAccount
        /\ End("failed")
        /\ UNCHANGED <<state, seen>>
  /\ UNCHANGED <<config, srv, plan, replace, history, env>>

EndRead ==
  IF state = NoAccount THEN End("imported") ELSE pc' = "refreshed" /\ UNCHANGED result

\* Read, second call; a row without User is the association of the account.
ReadGetAssociations ==
  /\ pc = "getAssocs"
  /\ state' = ReadModel(seen, APIValues(srv[Prior.name]))
  /\ EndRead
  /\ UNCHANGED <<config, srv, plan, seen, replace, history, env>>

\* The second call fails: a warning in the log, and Read goes on without it.
ReadWithoutAssociations ==
  /\ pc = "getAssocs" /\ faults < MaxFaults
  /\ faults' = faults + 1
  /\ blind' = TRUE
  /\ state' = ReadModel(seen, Unset)
  /\ EndRead
  /\ UNCHANGED <<config, srv, plan, seen, replace, quiet, foreign, edits, interferences>>

-----------------------------------------------------------------------------
(* The command up to the plan *)

Start(replacing) ==
  /\ pc = "idle"
  /\ quiet' = TRUE /\ blind' = FALSE /\ foreign' = FALSE
  /\ result' = "none"
  /\ replace' = replacing
  /\ UNCHANGED <<config, state, srv, plan, seen, faults, interferences>>

\* tofu plan/apply.
StartPlan ==
  /\ Start(FALSE)
  /\ pc' = IF state = NoAccount THEN "refreshed" ELSE "getAccount"
  /\ UNCHANGED edits

\* tofu apply -replace, or an apply of a tainted resource.
StartReplace ==
  /\ state # NoAccount /\ edits < MaxEdits
  /\ Start(TRUE)
  /\ pc' = "getAccount"
  /\ edits' = edits + 1

\* tofu import: ImportState stores the name, then core calls Read.
StartImport ==
  /\ state = NoAccount /\ config # NoAccount
  /\ Start(FALSE)
  /\ pc' = "getAccount"
  /\ UNCHANGED edits

\* protectedAccountDeleteError
Protected(name) == name = Root

\* The plan calls for the deletion of the account in the state.
Destroys(s, p, replacing) ==
  s # NoAccount /\ (p # NoAccount => replacing \/ p.name # s.name)

\* ModifyPlan blocks what it can see of the deletion of a protected account:
\* a destroy, or another name.
Blocked(known) ==
  /\ state # NoAccount /\ Protected(state.name)
  /\ config = NoAccount \/ (known /\ config.name # state.name)

\* Terraform core compares the planned state with the refreshed one.  The new
\* name may not be known yet.
Plan ==
  /\ pc = "refreshed"
  /\ plan' = config
  /\ \E known \in BOOLEAN :
       IF Blocked(known) THEN End("blocked")
       ELSE IF config = state /\ ~Destroys(state, config, replace) THEN End("clean")
       ELSE pc' = "planned" /\ UNCHANGED result
  /\ UNCHANGED <<config, state, srv, seen, replace, history, env>>

-----------------------------------------------------------------------------
(* What slurmdbd does with a request *)

\* Mutant: an empty list is sent.
WireAll(v) == v

\* A declared value as it leaves in the JSON; Null is omitted.
Wire(v) == IF v = EmptyList THEN Null ELSE v

\* Mutant: an update writes every attribute, declared or not.
UpsertedWhole(attrs, p, S) ==
  [a \in Attributes |-> IF a \in S THEN Wire(p.attrs[a]) ELSE attrs[a]]

\* Of the attributes in S the declared ones are written, the others kept.
Upserted(attrs, p, S) ==
  [a \in Attributes |-> IF a \in S /\ Wire(p.attrs[a]) # Null THEN p.attrs[a] ELSE attrs[a]]

\* POST accounts_association/ creates the account with its association; of an
\* account that exists the metadata may be kept or written.
CreateEffects(row, p) ==
  IF row = NoAccount THEN {[assoc |-> TRUE, attrs |-> Upserted(Unset, p, Meta)]}
  ELSE {[assoc |-> TRUE, attrs |-> attrs] : attrs \in {row.attrs, Upserted(row.attrs, p, Meta)}}

\* POST accounts/ upserts the metadata.  A blank may be ignored or clear the
\* attribute; an account that has gone comes back with an association or not.
UpdateEffects(row, p) ==
  LET old == IF row = NoAccount THEN [assoc : BOOLEAN, attrs : {Unset}] ELSE {row}
      blanks == {a \in SentBlank : p.attrs[a] = Null}
  IN  {[assoc |-> r.assoc,
        attrs |-> [a \in Attributes |-> IF a \in cleared THEN Null
                                         ELSE Upserted(r.attrs, p, Meta)[a]]]
         : r \in old, cleared \in SUBSET blanks}

\* POST associations/ upserts the association of the account.
LimitEffects(row, p) ==
  IF row = NoAccount THEN {}
  ELSE {[assoc |-> TRUE, attrs |-> Upserted(row.attrs, p, Limits)]}

\* The name of the account a call is about, and the rows it may leave.
Target == IF pc = "delete" THEN state.name ELSE plan.name
Effects ==
  CASE pc = "create" -> CreateEffects(srv[Target], plan)
    [] pc = "update" -> UpdateEffects(srv[Target], plan)
    [] pc \in {"createLimits", "updateLimits"} -> LimitEffects(srv[Target], plan)
    [] pc = "delete" -> {NoAccount}

Calls == {"create", "createLimits", "update", "updateLimits", "delete"}

\* The call at pc is executed and answered.
Call == \E row \in Effects : srv' = [srv EXCEPT ![Target] = row]

-----------------------------------------------------------------------------
(* Apply *)

\* hasLimits of buildAccountAssociation
HasLimits(p) == \E a \in Limits : p.attrs[a] # Null

\* Mutant: ModifyPlan is trusted to have blocked the deletion.
ApplyDeleteUnguarded ==
  /\ pc = "planned" /\ Destroys(state, plan, replace)
  /\ pc' = "delete" /\ UNCHANGED result
  /\ UNCHANGED <<config, state, srv, plan, seen, replace, history, env>>

\* Delete, the backstop included.
ApplyDelete ==
  /\ pc = "planned" /\ Destroys(state, plan, replace)
  /\ IF Protected(state.name) THEN End("failed") ELSE pc' = "delete" /\ UNCHANGED result
  /\ UNCHANGED <<config, state, srv, plan, seen, replace, history, env>>

\* A replaced account is created under the planned name next.
DeleteAccount ==
  /\ pc = "delete"
  /\ Call
  /\ state' = NoAccount
  /\ IF plan = NoAccount THEN End("deleted") ELSE pc' = "create" /\ UNCHANGED result
  /\ UNCHANGED <<config, plan, seen, replace, history, env>>

Apply ==
  /\ pc = "planned" /\ ~Destroys(state, plan, replace)
  /\ pc' = IF state = NoAccount THEN "create" ELSE "update"
  /\ UNCHANGED <<config, state, srv, plan, seen, replace, result, history, env>>

\* The state is stored after the last call.
Store(how) == state' = plan /\ End(how)

\* Mutant: the limits are forgotten.
CreateWithoutLimits ==
  /\ pc = "create"
  /\ Call
  /\ foreign' = (srv[Target] # NoAccount)
  /\ Store("created")
  /\ UNCHANGED <<config, plan, seen, replace, quiet, blind, env>>

CreateAccountWithAssociation ==
  /\ pc = "create"
  /\ Call
  /\ foreign' = (srv[Target] # NoAccount)
  /\ IF HasLimits(plan) THEN pc' = "createLimits" /\ UNCHANGED <<state, result>>
     ELSE Store("created")
  /\ UNCHANGED <<config, plan, seen, replace, quiet, blind, env>>

UpdateAccount ==
  /\ pc = "update"
  /\ Call
  /\ IF HasLimits(plan) THEN pc' = "updateLimits" /\ UNCHANGED <<state, result>>
     ELSE Store("updated")
  /\ UNCHANGED <<config, plan, seen, replace, history, env>>

CreateAssociations ==
  /\ pc \in {"createLimits", "updateLimits"}
  /\ Call
  /\ Store(IF pc = "createLimits" THEN "created" ELSE "updated")
  /\ UNCHANGED <<config, plan, seen, replace, history, env>>

\* slurmdbd refuses the call at pc.
Refused ==
  /\ pc \in Calls /\ Effects = {}
  /\ End("refused")
  /\ UNCHANGED <<config, state, srv, plan, seen, replace, history, env>>

\* A call fails after every retry, or the process is interrupted: the request
\* may have been executed all the same.
Fail ==
  /\ pc # "idle" /\ faults < MaxFaults
  /\ faults' = faults + 1
  /\ UNCHANGED srv \/ (pc \in Calls /\ Call)
  /\ End("failed")
  /\ UNCHANGED <<config, state, plan, seen, replace, history, edits, interferences>>

-----------------------------------------------------------------------------
(* The environment *)

EditConfig ==
  /\ pc = "idle" /\ edits < MaxEdits
  /\ edits' = edits + 1
  /\ config' \in Configs \ {config}
  /\ result' = "none"
  /\ UNCHANGED <<state, srv, pc, plan, seen, replace, history, faults, interferences>>

\* What an administrator may make of an account; Root cannot be removed.
OutOfBand(name) ==
  IF srv[name] = NoAccount THEN {[assoc |-> TRUE, attrs |-> Unset]}
  ELSE {[srv[name] EXCEPT !.attrs[a] = v] :
          a \in IF srv[name].assoc THEN Attributes ELSE Meta, v \in Values \cup {Null}}
       \cup IF name = Root THEN {}
            ELSE {NoAccount, [assoc |-> FALSE, attrs |-> [a \in Attributes |->
                                IF a \in Limits THEN Null ELSE srv[name].attrs[a]]]}

Interfere ==
  /\ interferences < MaxInterference
  /\ interferences' = interferences + 1
  /\ \E name \in Names : \E row \in OutOfBand(name) : srv' = [srv EXCEPT ![name] = row]
  /\ quiet' = FALSE
  /\ UNCHANGED <<config, state, pc, plan, seen, replace, result, blind, foreign, edits, faults>>

-----------------------------------------------------------------------------
Read == ReadGetAccount \/ ReadGetAssociations
Create == CreateAccountWithAssociation \/ CreateAssociations
Delete == ApplyDelete \/ DeleteAccount

\* The steps of a command that is making progress.
Progress == Read \/ Plan \/ Apply \/ Create \/ UpdateAccount \/ Delete \/ Refused

Next == \/ StartPlan \/ StartReplace \/ StartImport
        \/ Progress
        \/ ReadWithoutAssociations \/ Fail \/ EditConfig \/ Interfere

Spec == Init /\ [][Next]_vars

\* Every call returns, so a started command ends; and the operator plans and
\* applies again and again.
FairSpec == Spec /\ WF_vars(Progress) /\ SF_vars(StartPlan)

-----------------------------------------------------------------------------
(* Properties *)

PCs == {"idle", "getAccount", "getAssocs", "refreshed", "planned"} \cup Calls
Results == {"none", "clean", "blocked", "created", "updated", "deleted", "imported",
            "failed", "refused"}

(* Every variable keeps its type; slurmdbd never stores the empty list,    *)
(* and an account without association has no limits.                       *)
TypeOK ==
  /\ config \in Configs
  /\ state \in Model \cup {NoAccount} /\ plan \in Model \cup {NoAccount}
  /\ srv \in [Names -> Row \cup {NoAccount}]
  /\ \A n \in Names : srv[n] # NoAccount /\ ~srv[n].assoc =>
       \A a \in Limits : srv[n].attrs[a] = Null
  /\ pc \in PCs /\ result \in Results
  /\ seen \in [Attributes -> Values \cup {Null}]
  /\ replace \in BOOLEAN /\ quiet \in BOOLEAN /\ blind \in BOOLEAN /\ foreign \in BOOLEAN
  /\ edits \in 0..MaxEdits /\ faults \in 0..MaxFaults
  /\ interferences \in 0..MaxInterference

(* protectedAccountNames: the built-in account outlives every destroy,     *)
(* rename and replacement, whatever fails.                                 *)
RootIsKept == srv[Root] # NoAccount

(* docs/resources/account.md: "removing any of them stops tracking it,     *)
(* leaving whatever value is currently live in Slurm in place": a call on  *)
(* an account that exists never changes what the plan leaves null.         *)
NullIsUnmanaged ==
  [][(pc \in Calls \ {"delete"}) /\ UNCHANGED interferences /\ srv[Target] # NoAccount =>
     \A a \in Attributes \ SentBlank :
       plan.attrs[a] = Null => srv'[Target].attrs[a] = srv[Target].attrs[a]]_vars

(* Standard import workflow, step 3 ("must report no changes"): after an   *)
(* apply that nothing disturbed, a refresh reads back the state stored.    *)
(* Left out: an account Create found in slurmdbd, and declared empty lists.*)
ApplyReadsBack ==
  /\ pc = "idle" /\ quiet /\ ~foreign /\ result \in {"created", "updated"}
  /\ \A a \in Attributes : state.attrs[a] # EmptyList
  => /\ srv[state.name] # NoAccount
     /\ LET row == APIValues(srv[state.name]) IN ReadModel(row, row) = state

\* slurmdbd shows what the configuration declares, or nothing, for the
\* attributes in S.
ShowsOrHides(c, S) ==
  /\ srv[c.name] # NoAccount
  /\ \A a \in S : Wire(c.attrs[a]) # Null =>
       APIValues(srv[c.name])[a] \in {c.attrs[a], Null}

(* Drift detection: an empty plan that nothing disturbed means that no     *)
(* declared attribute has another value in slurmdbd.                       *)
EmptyPlanMeansNoOtherValue ==
  pc = "idle" /\ quiet /\ ~blind /\ result = "clean" /\ config # NoAccount =>
    ShowsOrHides(config, Attributes)

(* Whatever failed, was interrupted or was changed by hand, repeated       *)
(* applies bring slurmdbd to the configuration for good, as far as Read    *)
(* can see; only the deletion of Root stays blocked.                       *)
Converges ==
  <>[]\/ IF config = NoAccount THEN state = NoAccount ELSE ShowsOrHides(config, Attributes)
      \/ Destroys(state, config, FALSE) /\ Protected(state.name)
=============================================================================
