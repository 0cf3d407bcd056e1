--------------------------- MODULE ImportGenerator ---------------------------
(***************************************************************************)
(* Bringing an existing account under management: generate_import.py       *)
(* writes a configuration from a dump of the associations, the users are   *)
(* imported, and applies reconcile them, while sacctmgr goes on changing   *)
(* the account.  The promise is that nothing of this changes a user.       *)
(*                                                                         *)
(* Five attributes stand for all: fairshare (1 is Slurm's default); a      *)
(* value that inherits the account's (max_jobs, default_qos, allowed_qos)  *)
(* and one that does not (grp_jobs, priority); a TRES list that inherits   *)
(* type by type (max_tres_per_job, per_node, mins_per_job) and one that    *)
(* does not (grp_tres).  A value is in a slot, an attribute and a TRES     *)
(* type.  The resource is the slurm_user of UserResource: a read without   *)
(* prior state, the diff by key, one step per command.                     *)
(***************************************************************************)
EXTENDS Integers, FiniteSets, Functions

CONSTANTS
  Users, Partitions, NoPartition,
  TresTypes,
  Whole,        \* the one slot of an attribute that is no TRES list
  Numbers,      \* the values of the slots
  Null,         \* a slot that is not set
  NoRow,        \* no association
  NotManaged,   \* not in the configuration, or not in the state
  Owned,        \* what associations may have of their own before the import
  AccountLimits,   \* what the account may have
  MaxMembers, MaxChanges   \* bounds of the environment

Inherited == {"max_jobs", "max_tres"}
Lists == {"max_tres", "grp_tres"}
Slots == ({"fairshare", "max_jobs", "grp_jobs"} \X {Whole}) \cup (Lists \X TresTypes)
Siblings(s) == {t \in Slots : t[1] = s[1]}
Keys == Users \X Partitions

\* What an association has of its own, and what a block declares: a slot that
\* is not set, or an attribute whose slots all are not.
Values == [Slots -> Numbers \cup {Null}]
Rows == {v \in Values : v[<<"fairshare", Whole>>] # Null}
Default == [s \in Slots |-> IF s[1] = "fairshare" THEN 1 ELSE Null]

ASSUME ImportAssumption ==
  /\ NoPartition \in Partitions
  /\ 1 \in Numbers /\ Numbers \subseteq Nat
  /\ Null \notin Numbers /\ NoRow \notin Values
  /\ Owned \subseteq Rows
  /\ AccountLimits \subseteq {v \in Values : \A s \in Slots : s[1] \notin Inherited => v[s] = Null}
  /\ NotManaged \notin [rows : [Keys -> Rows \cup {NoRow}], account : AccountLimits]
  /\ MaxMembers \in Nat /\ MaxChanges \in Nat

VARIABLES
  layout,     \* "flat" or "big-cluster"
  account,    \* what the associations of the account inherit
  rows,       \* Keys -> the association in slurmdbd, of the account
  config,     \* Users -> (partition -> block), NotManaged before the generator
  state,      \* Users -> (partition -> block), NotManaged before the import
  dump,       \* history: the rows and the account that the generator saw
  changes     \* what the environment did so far

vars == <<layout, account, rows, config, state, dump, changes>>

-----------------------------------------------------------------------------
(* What slurmdbd shows: a value of its own and an inherited one look the same. *)

Shown(row, s) == IF row[s] # Null THEN row[s] ELSE account[s]

PartitionsOf(u) == {p \in Partitions : rows[<<u, p>>] # NoRow}

-----------------------------------------------------------------------------
(* The generator *)

\* sint, _norm_tres, _fairshare_emit: zero is skipped, and a fairshare of 1.
Norm(s, n) == IF n # Null /\ n > (IF s[1] = "fairshare" THEN 1 ELSE 0) THEN n ELSE Null

\* Mutant: whatever is not zero is written.
NaiveAssocFields(row) == [s \in Slots |-> Norm(s, Shown(row, s))]

\* _assoc_fields: an attribute is written whole, with the types that only the
\* account has, unless it shows what the account shows.
AssocFields(row) ==
  [s \in Slots |->
     IF \E t \in Siblings(s) : Norm(t, Shown(row, t)) # Norm(t, account[t])
     THEN Norm(s, Shown(row, s)) ELSE Null]

Members(rs) == {k \in Keys : rs[k] # NoRow}

\* _hoist_common_defaults: the fields, the partition included, that are the
\* same in every of at least two members.
HoistsPartition(rs, p) ==
  /\ Cardinality(Members(rs)) >= 2
  /\ p # NoPartition /\ \A k \in Members(rs) : k[2] = p
Hoists(s) ==
  /\ Cardinality(Members(rows)) >= 2
  /\ \E j \in Members(rows) : \A t \in Siblings(s) : \A k \in Members(rows) :
       AssocFields(rows[k])[t] = AssocFields(rows[j])[t]

\* generate_users, one block per association.
FlatConfig(u) == [p \in PartitionsOf(u) |-> AssocFields(rows[<<u, p>>])]

\* The account file without the hoisted fields, as the generate.tf that the
\* tool writes reads it: it never looks at association_defaults.
BigClusterConfig(u) ==
  LET written(p) == IF HoistsPartition(rows, p) THEN NoPartition ELSE p
      stripped(p) == [s \in Slots |-> IF Hoists(s) THEN Null ELSE AssocFields(rows[<<u, p>>])[s]]
  IN [q \in {written(p) : p \in PartitionsOf(u)} |->
        stripped(CHOOSE p \in PartitionsOf(u) : written(p) = q)]

\* A user without associations is skipped.
Generate ==
  /\ dump = NotManaged
  /\ config' = [u \in Users |->
       IF PartitionsOf(u) = {} THEN NotManaged
       ELSE IF layout = "flat" THEN FlatConfig(u) ELSE BigClusterConfig(u)]
  /\ dump' = [rows |-> rows, account |-> account]
  /\ UNCHANGED <<layout, account, rows, state, changes>>

-----------------------------------------------------------------------------
(* The slurm_user resource *)

\* A read without a prior state takes every value but the default fairshare.
ReadNew(row) ==
  [s \in Slots |-> IF s[1] = "fairshare" /\ row[s] = 1 THEN Null ELSE Shown(row, s)]

\* An attribute that is null stays null.
ReadPrior(row, prior) ==
  [s \in Slots |-> IF \A t \in Siblings(s) : prior[t] = Null THEN Null ELSE Shown(row, s)]

Refreshed(u) ==
  [p \in PartitionsOf(u) |->
     IF p \in DOMAIN state[u] THEN ReadPrior(rows[<<u, p>>], state[u][p]) ELSE ReadNew(rows[<<u, p>>])]

Import(u) ==
  /\ config[u] # NotManaged /\ state[u] = NotManaged
  /\ state' = [state EXCEPT ![u] = [p \in PartitionsOf(u) |-> ReadNew(rows[<<u, p>>])]]
  /\ UNCHANGED <<layout, account, rows, config, dump, changes>>

\* POST associations/: an attribute that is null is left out; TRES types that a
\* list does not name are kept, or cleared where the list replaces the old one.
Posted(row, block, replaces) ==
  LET old == IF row = NoRow THEN Default ELSE row
  IN [s \in Slots |->
        IF block[s] # Null THEN block[s]
        ELSE IF replaces /\ \E t \in Siblings(s) : block[t] # Null THEN Null ELSE old[s]]

\* An apply: refresh, plan, and Update by the diff of the associations.
Reconcile(u) ==
  /\ state[u] # NotManaged
  /\ \E replaces \in BOOLEAN :
       LET before == Refreshed(u)
           plan == config[u]
           differs(p) == p \notin DOMAIN before \/ before[p] # plan[p]
       IN rows' = [k \in Keys |->
            IF k[1] # u THEN rows[k]
            ELSE IF k[2] \notin DOMAIN plan THEN NoRow
            ELSE IF differs(k[2]) THEN Posted(rows[k], plan[k[2]], replaces) ELSE rows[k]]
  /\ state' = [state EXCEPT ![u] = config[u]]
  /\ UNCHANGED <<layout, account, config, dump, changes>>

-----------------------------------------------------------------------------

\* sacctmgr, or the account's own resource: the account gets another limit.
ChangeAccount ==
  /\ changes < MaxChanges
  /\ account' \in AccountLimits \ {account}
  /\ changes' = changes + 1
  /\ UNCHANGED <<layout, rows, config, state, dump>>

Init ==
  /\ layout \in {"flat", "big-cluster"}
  /\ account \in AccountLimits
  /\ \E ks \in SUBSET Keys : \E values \in [ks -> Owned] :
       /\ Cardinality(ks) \in 1..MaxMembers
       /\ rows = [k \in Keys |-> IF k \in ks THEN values[k] ELSE NoRow]
  /\ config = [u \in Users |-> NotManaged] /\ state = [u \in Users |-> NotManaged]
  /\ dump = NotManaged /\ changes = 0

Next == Generate \/ ChangeAccount \/ \E u \in Users : Import(u) \/ Reconcile(u)
Spec == Init /\ [][Next]_vars

-----------------------------------------------------------------------------
(* Properties *)

\* The generator wrote a partition for all members in one place.
PartitionIsLost == layout = "big-cluster" /\ \E p \in Partitions : HoistsPartition(dump.rows, p)

\* The association has a limit in the attribute that is not the account's.
Overrides(row, a, limits) == \E t \in Slots : t[1] = a /\ row[t] \notin {Null, limits[t]}

\* The value is the association's own; but such a list is declared whole: the
\* other types are pinned to the account's limit, and a limit of zero, which the
\* generator skips, may be cleared.
ValueIsKept(row, now, s) ==
  \/ now[s] = row[s]
  \/ /\ s[1] \in Lists /\ Overrides(row, s[1], dump.account)
     /\ \/ row[s] = Null /\ now[s] = dump.account[s]
        \/ row[s] = 0 /\ now[s] = Null

AssociationIsKept(row, now) ==
  /\ row = NoRow <=> now = NoRow
  /\ row # NoRow => \A s \in Slots : ValueIsKept(row, now, s)

(* _assoc_fields: "a naive reading would convert implicit inheritance into *)
(* a permanent per-user pin, silently breaking future account-limit        *)
(* changes": whenever the account changes, no import and no apply adds,    *)
(* removes or changes an association or what it has of its own, but for    *)
(* the other types of a TRES list that overrides the account's, and where  *)
(* a partition was hoisted.                                                *)
UsersAreKept ==
  dump # NotManaged =>
    PartitionIsLost \/ \A k \in Keys : AssociationIsKept(dump.rows[k], rows[k])

(* _hoist_common_defaults: "hoisting can never change a member's effective *)
(* config": the same whatever was hoisted.                                 *)
HoistKeepsConfig ==
  dump # NotManaged => \A k \in Keys : AssociationIsKept(dump.rows[k], rows[k])
=============================================================================
