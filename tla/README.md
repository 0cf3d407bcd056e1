# TLA+ verification of terraform-provider-slurm

This directory holds TLA+ models of the provider in `src/`, the TLC
configurations that check them, and proofs checked by TLAPS. Everything is
translated from the Go source; where the provider talks to something whose code
is not here (Terraform core, slurmrestd, slurmdbd, an administrator with
`sacctmgr`), the model says what the provider relies on and leaves the rest
nondeterministic.

## 1. The system

The provider is a plugin that Terraform/OpenTofu core calls. It turns three
resources and a handful of data sources into HTTP calls to slurmrestd, which
forwards them to slurmdbd, the accounting database. Nothing is locked across
calls: between any two of them an administrator, another resource of the same
apply, or a crash may intervene.

| Component | State | Operations | Talks to |
|---|---|---|---|
| `slurm_user` (`internal/resources/user.go`) | the resource in the Terraform state | ValidateConfig, Create (2–3 calls), Read (2 GETs), Update (create, update user, update, one DELETE per association), Delete, ImportState | client |
| Association diff (`internal/resources/user_association_diff.go`) | none (pure) | DiffAssociations, associationsEqual | used by Update |
| `slurm_account` (`internal/resources/account.go`) | the resource in the state | ModifyPlan (protects `root`), Create (1–2 calls), Read (2 GETs, the second may fail with a warning), Update (1–2 calls), Delete (a backstop for `root`), ImportState | client |
| `slurm_qos` (`internal/resources/qos.go`) | the resource in the state | ValidateConfig (a warning), Create (POST and a GET that reads it back), Read (1 GET), Update (1 POST, no read-back), Delete (1 DELETE), ImportState | client |
| HTTP client (`internal/client`) | `deleteMu`, retry settings | doRequest (retries with backoff), one method per endpoint | slurmrestd |
| Provider configuration (`internal/provider`, `client/cluster.go`) | the shared client | Configure, Ping, EnsureCluster | client |
| Data sources (six of them) | none | a version check for two of them, one or two GETs each | client |
| Configuration reader (`client/conf.go`) | none | flattens slurm.conf from the API | data sources |
| Fairshare conversion (`resources/fairshare.go`) | none | a validator, string to shares_raw and back | user, account |
| Import generator (`tools/generate_import/generate_import.py`) | none | writes HCL or YAML and import blocks from a live server | slurmrestd |

What is hard here: an apply is several calls and any of them may fail with or
without its effect; users and accounts are stored in the state only after the
last one; Read takes two calls; attributes that the configuration does not
declare are deliberately not read ("null preservation"), or, in a QOS, are read
and sent back; the order of the calls matters because slurmdbd protects default
accounts; empty and zero values are dropped by the JSON encoder or hidden by
the read; several resources share one client, whose retries may repeat what was
already done. The hazards are listed with their lines in `PROJECT.json`.

What makes each component correct:

- user: repeated applies converge whatever failed; a command left alone is
  refused for a documented reason only; an apply reads back; an empty plan means
  the configuration is in force; undeclared attributes and planned associations
  are never touched.
- account: the same, and the built-in `root` is never deleted.
- QOS: what an apply stores is in force; Terraform rejects the result of a
  create for a reason only; an attribute left out keeps its value.
- client: a call that succeeds was executed, has no effect before its start or
  after its end, and is sent at most `MaxRetries + 1` times; deletes do not
  overlap; cancellation ends the call.
- diff: an update acts on exactly what differs in meaning, and what it reports
  is in force.
- provider: a configured process has its cluster; an existing cluster is not
  overwritten.
- data sources: an answer is true of the object, and what copies it gets values
  the object had only.
- import generator: bringing a user under management changes nothing.

## 2. What is modelled

### The common frame of the three resources

`config` is the block in the `.tf` files, `state` the resource in the Terraform
state, `srv` what slurmdbd holds, `pc` where the running command is, `plan` what
Terraform core hands to the provider, `result` how the last command ended.
`StartPlan`, `Plan` and `StartImport` are Terraform core; every HTTP call is one
action; `Fail` is any error return or interruption, at any point of a command,
with or without the effect of the call under way; `Refused` is slurmdbd saying
no; `EditConfig` is the operator and `Interfere` an administrator with
`sacctmgr`. `quiet` (no interference since the command started), `foreign` and
`blind` are history variables that appear in the properties only.

That one HTTP call is one step is not taken for granted: `SlurmClient`
implements `CallContract`, which says just that (section 5), and `Fail` covers
the calls that do not succeed.

### `UserResource` — one `slurm_user`

| Action | Code |
|---|---|
| `ValidateConfig` | `ValidateConfig` rejects the block |
| `ReadGetUser`, `ReadGetAssociations` | the two GETs of `Read` |
| `ApplyCreate`, `CreateUserWithAssociation`, `CreateUpdateUser`, `CreateAssociations` | `Create`: guards, then two or three POSTs, then the state |
| `ApplyUpdate`, `UpdateCreateAssociations`, `UpdateUser`, `UpdateAssociations`, `DeleteAssociation(k)`, `FinishUpdate` | `Update`: guard and diff, four phases, then the state |
| `ApplyDelete`, `DeleteUser` | `Delete` |

An association key is (account, partition) with `NoPartition` for the empty
partition. The twenty attributes of an association are `Fields`; what tells
them apart is only what the API shows for an unset value (`Inherited`: 1 for
fairshare, the account's limit for limits) and which values a read without a
prior hides (`ImportHides`: fairshare 1, every `allowed_qos`). A declared empty
list is a value of its own (`EmptyList`) because it is dropped on the wire. The
keys of a diff are deleted in any order (the code sorts them by name).

slurmdbd is what the provider's comments, documentation and tests say of it:
POSTs are upserts, a user's default account must be one of its associations,
the last association of the default account cannot be deleted, deleting a user
deletes its associations. Two kinds of refusal are documented. An association
whose QOS the rules of slurmdbd deny it is refused, and the request with it
(`assocErrorDetail`, user.go:112-158; docs/resources/user.md:246-258): `QosDenied`
says which rows. And the unscoped association of the default account cannot be
deleted: examples/big-cluster/README.md:631-641 found that a default account
declared with a partition only is "a perpetual diff that never resolves", because
the row of the bootstrap call stays. What the repository does not say is left
open: which account is the default after `users_association/` names an existing
user, and what a DELETE without a partition selects (`UnscopedDelete`: the exact
key, all the account's associations, or a refusal when there are several).

### `AccountResource` — one `slurm_account`, and the built-in `root`

| Action | Code |
|---|---|
| `ReadGetAccount`, `ReadGetAssociations`, `ReadWithoutAssociations` | the two GETs of `Read`; the second one failing with a warning |
| `Plan` | core's comparison and `ModifyPlan` |
| `StartReplace` | `-replace`, or a tainted resource |
| `Apply`, `CreateAccountWithAssociation`, `UpdateAccount`, `CreateAssociations` | `Create` and `Update`: the metadata, then the limits if there are any, then the state |
| `ApplyDelete`, `DeleteAccount` | `Delete` with its backstop; a replaced account is created next |

A change of name replaces the resource, and a new name may not be known when
the plan is made, in which case `ModifyPlan` does not look at it. Attributes
are told apart by the request that carries them (`Meta` in `accounts/`, the
others in `associations/`), by what the API shows for an unset one, and by
whether an update sends a blank for an undeclared one (`SentBlank`: description
and organization have no `omitempty`); slurmdbd may ignore the blank or clear
the attribute. An account may lose its association on the cluster, and an
account deleted between the refresh and the update comes back from POST
`accounts/` with an association or without.

### `QosResource` — one `slurm_qos`, and the QOS that slurmdbd creates itself

| Action | Code |
|---|---|
| `Read` | `Read`, `qosAPIToState` |
| `Plan` | core's planned state, with the schema's `UseStateForUnknown` |
| `CreateQOS`, `ReadBack` | `Create`: the POST, the GET, `preservePlanTRES`, and core's consistency check |
| `Update` | `Update`: the POST, then the plan is the state |
| `DeleteQOS` | `Delete`; a replaced QOS is created next |

Attributes are told apart by what Slurm gives them when nobody does
(`Default`), by the values a read shows as unset (`Hidden`), by those
`omitempty` drops from a request (`Unsent`), by whether they are `Computed`, and
by whether the GET right after the POST may not show them yet (`Lagging`: the
TRES limits; any subset of those just sent may be missing from the answer).
With the framework version of `go.mod`, `UseStateForUnknown` plans a null prior
value as null, so `Planned` copies the state as it is. A created state that is
not what was planned is stored tainted and the next apply replaces it. The QOS
in `System` are only soft-deleted, and POST does not bring them back.

### `SlurmClient`, `CallContract` — the HTTP client

Several callers (resources of one apply) are inside `doRequest` together.

| Action | Code |
|---|---|
| `Begin`, `Lock`, `Finish` | the client methods; `deleteMu.Lock`, and the deferred `Unlock` |
| `Send`, `Wake`, `CancelledInBackoff`, `RetryOrGiveUp` | the loop of `doRequest`, `sleepCtx` |
| `Answer`, `Reject`, `TransientError`, `GiveUpWaiting` | what `doRequestOnce` and `isRetryable` tell apart |
| `Cancel` | the context of a call |
| `FinishLate` | slurmrestd executes, or loses, a request nobody waits for |

Each caller owns one object in slurmdbd and its calls write numbered values, so
that it is visible which request took effect last. `LateExecution` says whether
slurmrestd may execute a request after its client gave up on it. `CallContract`
is the abstract call: effects only while it is under way, at least one if it
succeeds.

### `AssociationDiff` — the association blocks of a user as data

| Definition | Code |
|---|---|
| `ValidateString`, `sharesRawFromFairshare`, `fairshareStringFromSharesRaw` | `fairshare.go`, with int32 cut down to `Sentinel` |
| `extractAssociations`, `buildAssociationMap`, `associationsEqual`, `stringSlicesEqual`, `tresSlicesEqual`, `DiffAssociations` | the conversion of a plan, and the diff |
| `Plan` | validation, `apiAssociationsToState` (`ReadPrior`, `ReadNew`), core's comparison |
| `Create` | the bootstrap call (`Bootstrapped`) and the POST of every block, in one step |
| `Update`, `DeleteAssociation(k)`, `FinishUpdate`, `Refused` | the diff and its POSTs in one step, one DELETE for each key that left the plan, and the delete that slurmdbd refuses (the order of the POSTs and lost calls are in `UserResource`) |

`UserResource` has one row per key and compares values; here a configuration is
a set of blocks that may name a key twice, list a QOS twice or in another order,
limit a TRES type twice, to zero, or write a number as `+5`. `Posted` leaves
open what slurmdbd does with the entries of one association in a request beyond
what the last one says, and whether types that a request does not name are kept.
The default account is a constant; `Selected` and `Protected` say what a DELETE
takes and when it is refused, as in `UserResource`.
One attribute stands for each type of value. A Go map made from a list keeps
the last entry; lists made from Terraform sets are in an order nobody chose, so
"the last" is some entry. `Meaning` is the reference: what a block says, apart
from its spelling.

### `ClusterBootstrap` — provider processes and the cluster

| Action | Code |
|---|---|
| `Configure` | the provider block over the environment, the three required settings |
| `Ping`, `GetCluster`, `CreateCluster`, `Configured` | `Ping`, and `EnsureCluster`: GET, then POST if it is missing; a POST may be executed `MaxAttempts` times |
| `Fail` | any of the calls returns an error; a POST may be executed later (`late`, `FinishLate`) |
| `ControllerRegisters`, `RemoveCluster` | slurmctld with its TRES; `sacctmgr delete cluster` |

Whether POST over an existing cluster resets its TRES is not known from the
code (a comment fears that it does), so `Upsert` allows both.

### `DataSources` — a data source and the resource that copies it

| Action | Code |
|---|---|
| `StartRead` | `requireAPIVersion` (configuration files only) |
| `ReadObject`, `ReadAssociations`, `FailRead` | the one or two GETs; an account goes on with a warning when the second fails |
| `Apply` | Terraform copies what was read into a resource; null is left out |
| `ChangeObject` | the object changes, vanishes or comes back at any time |

A limit (number, unset or infinite) and a list stand for the attributes; each
of the four readers (`slurmIntOrNull`, `dsAssocJobsScalar`, `stringifySlurmInt`,
`ListOrNull`) is a definition. The QOS source hides a zero `priority` or
`grace_time` (qos.go:549-552, 596-598): a QOS where the limit is one of those is
a kind of its own, `qos_priority`, read with `nonZeroOrNull`. An account's answer
also has the rows of its members.

### `ImportGenerator` — from a live account to a managed one

| Action | Code |
|---|---|
| `Generate` | `generate_import.py`: `_assoc_fields` in both layouts; `_hoist_common_defaults` and the `generate.tf` the tool writes, in `big-cluster` |
| `Import(u)` | `ImportState` and a read without a prior |
| `Reconcile(u)` | a refresh, a plan and an Update by the diff |
| `ChangeAccount` | the account's limits change in between |

Values are in slots, an attribute and a TRES type (`Whole` for an attribute that
is no TRES list). slurmdbd merges TRES limits with the account's type by type, so
`Shown` is by slot, while `AssocFields` compares and writes a list whole, as
`_assoc_fields` does; `Norm` drops the zeros. A POST keeps or clears the types
that a list does not name.

### The MC modules

Each component has an `MC...` module with its small instance: the configurations
the operator may write and what the API shows for unset values. No state
constraint, symmetry or definition override is used.

## 3. What the runs show

| Run | Question | Bounds |
|---|---|---|
| `UserFailures` | Does the order of Update keep the default account valid, however often it fails half-way, where a DELETE without a partition takes the whole account? | 2 accounts, 1 partition, 9 configurations; 2 edits, 2 failed calls |
| `UserDrift` | Is a command left alone refused for a documented reason only, does an apply read back, does an empty plan mean in force, are planned associations and undeclared attributes left alone, do repeated applies converge, where slurmdbd refuses ambiguous DELETEs and denies a QOS below one account? | 2 accounts, 1 partition, 12 configurations; 1 edit, 1 failed call, 1 change by hand |
| `ClientCalls` | Does the retry loop keep the contract of one call, do deletes take turns, does every call return? | 2 callers, 2 calls each, 1 retry, no late execution |
| `ClientLate` | … and when requests are executed late, does the client still wait for one delete at a time? | 2 callers, 1 call each, 1 retry |
| `AccountApplies` | Does `root` survive, does an apply read back, are undeclared attributes left alone, do repeated applies converge? | 2 names, 4 attributes; 1 edit or replacement, 1 failed call, 1 change by hand |
| `QosApplies` | Is what an apply stores in force, does an empty plan mean in force, is a create rejected for a reason only, do omitted attributes keep their value, do repeated applies converge? | 2 names, 3 attributes; 2 edits, 1 failed call, 1 change by hand |
| `QosZeroClaim` | A comment says a zero is skipped to avoid drift: violated | none |
| `AssociationDiff` | Is the diff exact in meaning, is what an apply or an empty plan reports in force, does a canonical configuration reach an empty plan? | 2 accounts with and without a partition (4 keys), 2 QOS, 2 TRES types, 10 blocks, ambiguous DELETEs refused; 2 edits, 1 change by hand |
| `ClusterBootstrap` | Does a configured process have its cluster, when can TRES be lost, do repeated commands get through? | 2 processes, 2 clusters, 4 setups; 1 removal, 1 failed call, POST executed at most twice |
| `DataSources` | Are answers true, does a copy only get what the object had, does it follow the object? | 6 data sources and the QOS attributes that hide zero, limits 0, 5, unset and infinite, lists of at most 1 name; 2 changes, 1 failed call |
| `ImportGenerator` | Does bringing an account under management keep every association? | 2 users, 1 partition, at most 2 associations out of 9 kinds, 4 accounts, 2 TRES types, values 0, 1, 5 and unset; 1 change of the account |
| `ImportHoistClaim` | A docstring says hoisting can never change a member's configuration: violated | the same |

The bounds count what the environment does over a whole behaviour; between
those events commands repeat without limit. They are enough for the
interactions the code can have: a failed apply, retried, failed again, and
planned against another configuration (`UserFailures`); an edit, a failure and
a change by hand in every order and between any two calls (`UserDrift`,
`AccountApplies`); with two edits a QOS is renamed and renamed back
(`QosApplies`). Two accounts and one partition give every relation of keys the
code tells apart (same key, same account with and without a partition,
different account); two names give the protected one and another; one attribute
stands for each way an attribute behaves. Two callers with two calls each give
a delete that waits for another and a late or repeated attempt of an earlier
call; one retry has a first, a repeated and a last attempt. The blocks of
`AssociationDiff` are chosen so that any two differ in one way that matters, and
two edits put any two of them in state and configuration; a sentinel of 3 has a
number below it, itself and the keyword. Two processes race for one cluster, and
the removal may fall between any two of their calls. Two changes let an object
vanish and come back between the two requests of a read. Two associations are
the least that are hoisted, of one user or of two.

Every property excludes what the code makes impossible, in its text:

- `KeepsPlannedAssociations` is not claimed for `UnscopedDelete = "all"`:
  removing the unscoped association of an account would then remove the scoped
  ones that the plan keeps, and nothing in the repository says how slurmrestd
  treats that request.
- The user's `ApplyReadsBack` leaves out a user that Create found in slurmdbd,
  one without default account, and the extra unscoped row of the bootstrap call
  when the default account is declared with a partition only. That row is never
  removed, and the plan is never empty again: `Converges` asks for the declared
  associations with what they declare, and accepts undeclared ones where slurmdbd
  refuses to delete one of them (`Leftover`). It says nothing of a configuration
  whose QOS slurmdbd denies (`Denied`). `EmptyPlanMeansInForce` and `Converges`
  accept a user left without any default account, because Read then keeps the
  old one.
- `RefusedForAReason` names the refusals that the plan itself asks for: a denied
  QOS, and the deletion of an unscoped association next to another one of its
  account (ambiguous, or that of the default account).
- A list emptied to `[]` is never sent and the old one reads back for ever. The
  account's `ApplyReadsBack` leaves such a list out.
- The account's `NullIsUnmanaged` leaves out `SentBlank`. Its
  `EmptyPlanMeansNoOtherValue` and `Converges` accept an attribute that
  slurmdbd does not show, because Read keeps the old value; and `Converges`
  accepts a deletion of `root` that stays blocked.
- For a QOS, `Lost` are the declared values that a request drops or a read
  hides (the subject of `QosZeroClaim`), and `Converges` accepts a soft-deleted
  system QOS. An attribute that is withdrawn from the configuration and is not
  computed is not sent and reads back: the plan is never empty again, so
  `EmptyPlanMeansInForce` says nothing of it, and the configuration, which no
  longer declares it, is in force.
- The diff: a zero TRES limit equals a missing one for `tresSlicesEqual`, so
  `DiffIsExact` allows a silent no-op, and `DeclaredIsInForce` an apply without
  effect, where a block has one (`HasZero`); an empty plan has no such excuse.
  Two limits for one type (`HasTwins`) mean whichever slurmdbd keeps. Of several
  blocks with one key one is in force. After a create the bootstrapped
  association may be there undeclared; where a DELETE takes a whole account an
  update may have taken scoped associations. `Converges` is claimed for blocks
  written as Read writes them (`Canonical`), without zero limits, that restate
  every type slurmdbd shows, as the documentation asks (`Restates`), one for each
  key, where slurmdbd does not refuse to delete an undeclared association.
- The cluster: `ExistingClusterIsKept` leaves out a removal, a POST executed
  after its client gave up, and a process whose Configure saw a moment without
  the cluster; look-then-create cannot do better. `ConfiguredHasCluster` leaves
  out a cluster removed since Configure began.
- The data sources: `AnswerIsTrue` speaks of reads during which nothing changed
  and nothing was warned of. `Follows` leaves out what cannot be read (the
  object is gone, the server or `api_version` is too old) and, but for the
  configuration files, asks only for what the source shows (`Visible`): null, and
  so a priority or a grace time that became 0, never clears an attribute of the
  copy.
- The generator: `UsersAreKept` leaves out a hoisted partition
  (`PartitionIsLost`), the subject of `ImportHoistClaim`. In a TRES list of which
  the association overrides a type, the other types may be pinned to what the
  account had, and an own limit of zero, which is not written, may be cleared
  (`ValueIsKept`).

### Fairness

The resources' `FairSpec` assumes that a command that can make progress does
(weak fairness of `Progress`): the client has a 30 s timeout and a bounded
number of retries, so every call returns. And that the operator keeps running
plan/apply (strong fairness of `StartPlan`, since imports, edits and
replacements compete with it). Faults and interference are bounded, so they
stop. Nothing else is assumed; in particular no call is assumed to succeed.

The client's `FairSpec` assumes weak fairness of a caller's own steps (an
attempt ends because of the timeout, a backoff because of its timer) and strong
fairness of `Lock`: a `sync.Mutex` starves nobody. `EveryCallReturns` is what
the resources' weak fairness rests on.

`AssociationDiff` and `DataSources` assume that the operator plans again and
again and applies what is planned, and that reads return. `ClusterBootstrap`
assumes the same of commands, and that a POST is executed once if its process
keeps waiting; that it is sent again or executed late is never assumed.

## 4. Findings

Shown by a run:

1. `QosZeroClaim`: qos.go:549 skips a zero priority when reading "to avoid
   drift"; a declared `priority = 0` (or `grace_time = 0`) is therefore read
   back as unset, Terraform rejects the result of Create and taints the
   resource, and every further apply deletes the QOS and creates it again.
2. `ImportHoistClaim`: generate_import.py:910-914 says hoisting can never
   change a member's effective configuration, because generate.tf falls back to
   the account's default. The generate.tf that the tool writes never reads
   `association_defaults` (only the one in `examples/big-cluster` does). Hoisted
   values are no longer managed, and a hoisted partition changes the key of
   every member's association: the first apply after the import replaces the
   scoped associations by unscoped ones.

Met while modelling; the models follow the code in each case, no run is kept
for them:

- `docs/resources/user.md:240-244` says imported limits are null until the first
  reconcile; `apiAssociationsToState` takes every API value when there is no
  prior (user.go:880-889).
- user.go:454-455 says admin_level is applied by a separate UpdateUser; the call
  is skipped for `None`, so after a failed Create with `Operator` a Create with
  `None` stores `None` while slurmdbd keeps `Operator`, until the next refresh.
- client.go:64-66 says `deleteMu` serializes all delete operations; it is
  released when the client stops waiting, which after a timeout is not when
  slurmdbd is done. `OneDeleteAwaited` is what it does give. For the same reason
  an attempt that timed out and is executed late can overwrite what a later call
  wrote (retry.go:70-72 calls retries "always safe"), which is why
  `AcknowledgedInForce` is checked and proved without late execution only.
- account.md:250-253 says any plan that would destroy `root` fails at plan time;
  with `-replace`, a tainted resource or a name that is not known yet,
  `ModifyPlan` lets it pass and only Delete refuses. `root` is safe all the same
  (`RootIsKept`). The comment at account.go:31 speaks of a `slurm_cluster`
  resource that does not exist.
- account.md:266-268 says `parent_account` has a stricter null-preservation rule
  than the other attributes; Read has the same rule for `default_qos`,
  `allowed_qos`, `max_jobs` and every TRES limit, so a limit cleared by hand is
  never noticed.
- user_association_diff.go:274 says TRES lists are compared "order-insensitively
  by type+name"; the comparison looks a missing type up as 0, so a change from
  `cpu = 5` to `gpu = 0` is planned and never sent (`HasZero`).
- A fairshare of `+5` or `007`, and an `allowed_qos` in another order than
  slurmdbd's, are accepted, applied, and planned again for ever (`Canonical`).
- `ValidateConfig` accepts a default account declared with a partition only,
  although its plan is never empty: the unscoped row of the bootstrap call cannot
  be deleted (examples/big-cluster/README.md:631-641 warns of it).
- A resource that copies `priority` or `grace_time` from the QOS data source
  keeps the old number when it is set to 0, because the source then shows null
  (qos.go:549-552, 596-598).
- examples/big-cluster/README.md:653-656 says of merged TRES limits that with
  the generator "a partial override is handled correctly by construction". The
  merged list is written whole (generate_import.py:655-674), so the first apply
  that sends the association pins the types that it inherited, and a zero of its
  own is left out (generate_import.py:256-283) and may be cleared.
- The generator's README (lines 259-260) says the flat layout "emits every
  user"; a user without associations is skipped in both (generate_import.py:738).

## 5. What is proved

For every value of the constants (any names, attributes, values and
configurations, any number of edits, failures, changes by hand, callers and
retries). The only assumption is the named `ASSUME` of each module, which TLC
evaluates in every run; further ones are in the last column.

| Module | Theorem | Property | Extra assumption |
|---|---|---|---|
| `UserResourceProofs` | `TypeCorrect` | `TypeOK` | |
| | `OrderIsSafe` | `DefaultNeverDangles` | none: all three behaviours of DELETE |
| | `UnmanagedIsKept` | `NullIsUnmanaged` | |
| | `EmptyPlanIsTrue` | `EmptyPlanMeansInForce` | |
| | `ApplyIsComplete` | (`AppliedIsInForce`) | `DeletesOneRow` |
| | `AppliedReadsBack` | `ApplyReadsBack` | `DeletesOneRow`, `NoEmptyLists` |
| | `SecondPlanHasNoDrift` | (`SecondPlanIsEmpty`) | `DeletesOneRow`, `NoEmptyLists` |
| | `RefusalsHaveReasons` | `RefusedForAReason` | none: all three behaviours of DELETE |
| | `PlannedIsKept` | `KeepsPlannedAssociations` | `DeletesOneRow` |
| `AccountResourceProofs` | `TypeCorrect` | `TypeOK` | |
| | `RootSurvives` | `RootIsKept` | |
| | `UnmanagedIsKept` | `NullIsUnmanaged` | |
| | `EmptyPlanIsTrue` | `EmptyPlanMeansNoOtherValue` | |
| | `AppliedReadsBack` | `ApplyReadsBack` | |
| | `SecondPlanHasNoDrift` | (`SecondPlanIsEmpty`) | |
| `QosResourceProofs` | `TypeCorrect` | `TypeOK` | |
| | `StoredIsInForce` | `ApplyIsInForce` | |
| | `EmptyPlanIsTrue` | `EmptyPlanMeansInForce` | |
| | `RejectionHasAReason` | `RejectedForAReason` | |
| | `OmittedSurvives` | `OmittedIsKept` | |
| | `SecondPlanHasNoDrift` | (`SecondPlanIsEmpty`) | |
| `SlurmClientProofs` | `TypeCorrect` | `TypeOK` | |
| | `MutexWorks` | `OneDeleteAwaited` | none: late execution too |
| | `DeletesAreSerialized` | `DeletesSerialized` | `~LateExecution` |
| | `CancellationStopsSending` | `CancelledSendsNothing` | |
| | `ClientKeepsContract` | `KeepsContract` | `~LateExecution` |
| | `AcknowledgedStaysInForce` | `AcknowledgedInForce` | `~LateExecution` |
| `AssociationDiffProofs` | `TypeCorrect` | `TypeOK` | |
| | `DiffExact` | `DiffIsExact` | |
| | `StoredIsInForce` | `DeclaredIsInForce` | |
| | `DiffIsTheUsers` | (a link to `UserResource`) | `ToldApart`, one block for each key, plain lists |
| `ClusterBootstrapProofs` | `TypeCorrect` | `TypeOK` | |
| | `ClusterIsThere` | `ConfiguredHasCluster` | |
| | `ExistingSurvives` | `ExistingClusterIsKept` | |
| `DataSourcesProofs` | `TypeCorrect` | `TypeOK` | |
| | `AnswersAreTrue` | `AnswerIsTrue` | |
| | `CopiesAreTrue` | `CopyWasTrue` | |
| `ImportGeneratorProofs` | `ImportKeepsUsers` | `UsersAreKept` | |

**User.** `DefaultNeverDangles` is not inductive: that the new default account
exists when the user is updated follows from what the refresh stored two calls
earlier. The inductive invariant follows the command: `PlanChecked` (the guards
of Create and Update still hold during their calls, and `todo` holds keys of
the diff only); `RefreshedInPlace` (until the user is updated, slurmdbd still
has every row of the refreshed state, and its default account or none);
`NewDefaultInPlace` (before `UpdateUser` every planned row exists);
`DefaultSurvives` (from then on the default account has a row outside `todo`).
The last one is preserved by a delete even when the request selects more rows
than asked for, because slurmdbd protects the last row of the default account.
The action properties need little history: `CallRequests` says which request
each call makes, `UpsertRows` and `DeleteGood` what it does to the rows.

What a refresh knows is carried by `RInv`: between the two GETs of an
undisturbed Read the user object is still the one in slurmdbd (`SeenIsTrue`),
and from the refresh to the apply the state has slurmdbd's user row, its keys,
and an attribute of slurmdbd wherever it is not null (`RefreshIsTrue`). An empty
plan ends there, which is `EmptyPlanIsTrue`, under no further assumption.

What an apply has done is carried by `WInv`, phase by phase: `UserWritten` (the
user row is the refreshed one until `UpdateUser`, the planned one after it),
`RowsWritten` (the keys in slurmdbd are the planned ones and those left in
`todo`; every planned row is in place unless its phase is still to come), and
`CreateWritten` for the calls of Create. At the end of an apply that gives
`AppliedIsInForce`, whatever earlier commands left half done; the lemma
`HeldReadsBack` turns it into `ApplyReadsBack`, and `CarriesOutPlan` (what is
carried out is the plan of the configuration as it is now) with `PlannedAgain`
(planning what an apply stored gives it back) into `SecondPlanIsEmpty`. The
assumptions are not for convenience. TLC has counterexamples without them:

- `DeletesOneRow` says that DELETE takes its key exactly, or that a request that
  selects several rows is refused. Where a DELETE without a partition takes all rows of its account, an update that
  removes the unscoped row also loses the scoped ones that the plan keeps, and
  neither `ApplyReadsBack` nor `KeepsPlannedAssociations` holds.
- `NoEmptyLists`: no configuration declares `[]`. `omitempty` drops it
  (client/assoc.go:32), so the apply stores `[]` and slurmdbd keeps the old
  list. `AppliedIsInForce` holds all the same: an attribute stored as `[]` is
  one that it does not ask for.

`RefusalsHaveReasons` uses `RowsWritten` and `DefaultSurvives`: every call finds
its user and the default account its association, so an upsert is only refused
for a denied row, and the rows that a DELETE selects are the last ones of the
default account, or several, only if the key is unscoped and has a neighbour.
What a DELETE selects needs no assumption. `PlannedIsKept` uses no history with
an exact DELETE; where ambiguous ones are refused, `WInv` says that the one row
selected is the one asked for.

**Account.** `DeleteIsAllowed` (nothing protected gets as far as the call that
deletes) follows from the backstop in Delete alone: the proof never uses
`ModifyPlan`. `ReadHasName` and `WriteHasPlan` give each call its subject.
`EmptyPlanIsTrue` and `AppliedReadsBack` share the invariant `FInv`, again along
the command: `SeenIsTrue` between the two GETs, `RefreshIsTrue` after them
(unless the second failed with its warning), `MetadataIsWritten` between the two
POSTs, `StoredIsWritten` at the end. `WriteIsExecuted` says what each POST
leaves: the second writes the limits and does not disturb the metadata. With
`CarriesOutConfig` (what is stored is the configuration as it is now) the plan
after an undisturbed apply is empty.

**QOS.** `StateFollowsCommand` and `PlanFollowsConfig` tie state and plan to the
call under way; `RefreshIsTrue` says that from the refresh to the update the
state is what slurmdbd shows, and `WrittenIsThere` that from the POST to the
read-back what was sent is in slurmdbd. With these the three idle properties
are inductive together. `StoredAsConfigured` adds that what an apply stores is
what the configuration says of an attribute, and that a create stored the rest
as slurmdbd shows it. The refresh and the plan after that are an instance of the
module itself with the refreshed state (`After`): `SecondPlanIsEmpty` says that
its `PlannedState` is that state, but for values the round trip loses and for
withdrawn attributes that are not computed (section 3).

**Client.** `DeletesHoldMutex` gives `MutexWorks`; `RunningIsAwaited` (without
late execution slurmrestd only works on what is waited for) gives the rest. The
refinement maps `busy` to "not idle": every step of the loop is an `Effect`, a
`Return`, a `Begin` or a stutter of the contract, and `AcknowledgedInForce` is
then proved of the client with the same invariant.

**Diff.** Most of the work is about data, not steps: `SharesTellMeaning` (valid
strings with one shares_raw mean the same, because the validator keeps numbers
below the sentinel), that lists which are equal when sorted have the same
elements, and that TRES lists of one length whose counts agree are equal when
neither has a zero nor a type twice (a counting argument over finite sets).
`DiffExact` follows from them for any two valid sets of blocks. For
`StoredIsInForce` the invariant adds that between plan and apply the state is
what a refresh would read (`StateIsRefreshed`, while nothing interferes): what
the diff leaves alone has the meaning of a row that is already in slurmdbd. While
deletes are left (`DeletesLeft`), only their keys are undeclared and what is
declared is in force (`ConfigHeld`): a DELETE takes what it was asked for, or, in
mode "all", also scoped rows that `ConfigHeld` excuses, while the association of
the bootstrap call is protected. After a create that row is the one undeclared
association.
`DiffIsTheUsers` ties the two models of the diff together: `UserResource` is
instantiated, `AssociationMap` gives a set of blocks as one of its association
maps, and the keys `DiffAssociations` creates, updates and deletes are its
`DiffCreate`, `DiffUpdate` and `DiffDelete`. It asks for one block for each key,
a prior without repeated entries (slurmdbd has none) and a plan without repeated
QOS, zero limits or doubled types, the cases that only `AssociationDiff` knows;
`ToldApart` says that the stand-ins for "null", "[]" and "no association" are no
values of attributes.

**Cluster.** `LooksOrMissed` says that a process that has not decided yet either
finds its cluster or has seen it missing; hence `CreatesMissed`, whoever posts
missed it, which is the whole of `ExistingSurvives`, and `CreatedIsThere`.

**Data sources.** `ShownWasTrue` (what a read showed, the object had) and
`FoundIsThere` (undisturbed, the object outlives the first request); the lemma
`LimitIsTold` covers the readers: they show every number they may show
(`Visible`), and otherwise null.

**Import.** `Declared`: what is written of an association is null, its own value,
or, in a list of which it overrides a type, what the account had (`OwnFields`: an
attribute that shows nothing but the account's values is never written). By
`PostedKeeps` a request with such a block keeps what `AssociationIsKept` keeps,
whether it replaces lists or not and whatever the account's limits are by then.

Model-checked only: liveness (`Converges`, `Bootstraps`, `Follows`,
`EveryCallReturns`), which is out of the proof system's reach under fairness.
Every other property that a run expects to hold has a theorem. The theorems
whose property is in brackets have no run property of their own; the invariants
they rest on were model-checked on the instances of the runs before they were
proved.

## 6. What is not modelled, and the plan

Not modelled: schema validation by the framework, logging, diagnostics texts,
JSON field names and number formats, the nested objects that the configuration
reader prints as JSON, the switch for TLS verification; of the generator the
accounts, QOS, default accounts, admin levels, labels and the syntax of its
output; CI, containers and examples. The name of a user does not change
(RequiresReplace makes it another resource). Resources do not interact in the
models other than as interference; a data source and its copy do.

Done: a model, a run and proofs for each component above, a theorem for every
safety and action property, and the empty second plan of the three resources.
To do: a composition of an account with the user that has its association
there, with the order of the dependency graph in an apply and a destroy, and
accounts removed while users refer to them.
