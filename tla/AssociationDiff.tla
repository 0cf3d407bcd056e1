--------------------------- MODULE AssociationDiff ---------------------------
(***************************************************************************)
(* The association blocks of one slurm_user as data: how a plan becomes    *)
(* API requests (extractAssociations and the fairshare conversion), what   *)
(* Update makes of the difference (user_association_diff.go), and how Read *)
(* brings it back.  Terraform core compares the refreshed state with the   *)
(* configuration exactly; the diff compares what the two mean.  Where they *)
(* disagree, a plan that shows a change does nothing.                      *)
(*                                                                         *)
(* The calls of an apply and their failures are the subject of             *)
(* UserResource; here a refresh is one step, and so are all the POSTs of   *)
(* an apply.  The default account of the user is a constant.  Of the       *)
(* attributes, one stands for each type of value: fairshare (a string), a  *)
(* list of QOS names, a set of TRES.  A TRES is told apart by its type.    *)
(* The lists that the code makes of a set are in the order of the hashes:  *)
(* here they stay sets, and "the last one" of a list is some element.      *)
(***************************************************************************)
EXTENDS Integers, Sequences, FiniteSets, Functions

CONSTANTS
  Keys,         \* the (account, partition) pairs
  AccountOf,    \* Keys -> the account of a key
  Unscoped,     \* the keys without a partition
  DefaultKey,   \* the one of the default account
  UnscopedDelete, \* what DELETE without a partition selects
  Sentinel,     \* fairshareParentSentinel, the largest int32
  QosNames,
  Listed,       \* SUBSET QosNames -> the list in which slurmdbd shows them
  TresTypes, Counts,
  AccountTres,  \* TresTypes -> the limit of the account, inherited
  Null,         \* an absent attribute
  NoRow,        \* no association
  Blocks,       \* the association blocks the operator may write
  MaxEdits, MaxInterference   \* bounds of the environment

Entry == [type : TresTypes, count : Counts]

\* A fairshare string: the keyword, a number written as strconv.Itoa does or
\* otherwise ("+5", "007"), or anything else.
Text == [kind : {"parent", "plain", "padded", "junk"}, n : Nat]
Parent == [kind |-> "parent", n |-> 0]

Model == [key : Keys, fairshare : Text \cup {Null}, allowed_qos : Seq(QosNames) \cup {Null},
          max_tres : {s \in SUBSET Entry : IsFiniteSet(s)} \cup {Null}]

Row == [shares : Nat, qos : SUBSET QosNames, tres : [TresTypes -> Counts \cup {Null}]]

\* A list that names something twice.
Repeats(list) == \E i, j \in DOMAIN list : i # j /\ list[i] = list[j]

ASSUME DiffAssumption ==
  /\ Unscoped \subseteq Keys /\ DefaultKey \in Unscoped
  /\ \A j, k \in Unscoped : AccountOf[j] = AccountOf[k] => j = k
  /\ UnscopedDelete \in {"exact", "all", "refuse"}
  /\ IsFiniteSet(TresTypes) /\ Counts \subseteq Nat
  /\ Null \notin Nat \cup Text \cup Seq(QosNames) /\ NoRow \notin Row
  /\ \A qs \in SUBSET QosNames : Listed[qs] \in Seq(QosNames) /\ Range(Listed[qs]) = qs
                                  /\ ~Repeats(Listed[qs])
  /\ AccountTres \in [TresTypes -> Counts \cup {Null}]
  /\ Blocks \subseteq Model
  /\ Sentinel \in Nat \ {0} /\ MaxEdits \in Nat /\ MaxInterference \in Nat

VARIABLES
  config,   \* the association blocks of the configuration, a set
  created,  \* the user is in the Terraform state
  state,    \* its association blocks there
  rows,     \* Keys -> the association in slurmdbd
  pc,       \* "idle", "planned" when the operator sees a change, or "deleting"
  todo,     \* the keys of diff.Delete not deleted yet
  result,   \* how the last command ended
  quiet,    \* history: no interference since the last command
  edits, interferences   \* what the environment did so far

vars == <<config, created, state, rows, pc, todo, result, quiet, edits, interferences>>

-----------------------------------------------------------------------------
(* fairshare.go *)

\* Mutant: the sentinel itself is accepted as a number.
AcceptsSentinel(v) ==
  \/ v = Null \/ v.kind = "parent"
  \/ v.kind \in {"plain", "padded"} /\ v.n <= Sentinel

ValidateString(v) ==
  \/ v = Null \/ v.kind = "parent"
  \/ v.kind \in {"plain", "padded"} /\ v.n < Sentinel

sharesRawFromFairshare(v) ==
  IF v = Null THEN Null ELSE IF v.kind = "parent" THEN Sentinel ELSE v.n

fairshareStringFromSharesRaw(n) ==
  IF n = Sentinel THEN Parent ELSE [kind |-> "plain", n |-> n]

-----------------------------------------------------------------------------
(* From a plan to API associations *)

extractAssociation(m) ==
  [key |-> m.key,
   shares |-> sharesRawFromFairshare(m.fairshare),
   qos |-> IF m.allowed_qos = Null THEN <<>> ELSE m.allowed_qos,
   tres |-> IF m.max_tres = Null THEN {} ELSE m.max_tres]

extractAssociations(ms) == {extractAssociation(m) : m \in ms}

-----------------------------------------------------------------------------
(* user_association_diff.go *)

\* The count of a type in m, the map of a TRES list: the last one wins, and a
\* missing one is 0.
CountIn(list, t) ==
  LET named == {e \in list : e.type = t}
  IN IF named = {} THEN 0 ELSE (CHOOSE e \in named : TRUE).count

\* Mutant: the lengths are not compared.
tresPrefixEqual(a, b) == \A e \in b : CountIn(a, e.type) = e.count

tresSlicesEqual(a, b) ==
  Cardinality(a) = Cardinality(b) /\ \A e \in b : CountIn(a, e.type) = e.count

\* Mutant: the lists are not sorted first.
stringSlicesInOrder(a, b) == a = b

\* Equal when sorted: every string as often in the one as in the other.
stringSlicesEqual(a, b) ==
  \A q \in Range(a) \cup Range(b) :
    Cardinality({i \in DOMAIN a : a[i] = q}) = Cardinality({i \in DOMAIN b : b[i] = q})

associationsEqual(a, b) ==
  /\ a.shares = b.shares
  /\ stringSlicesEqual(a.qos, b.qos)
  /\ tresSlicesEqual(a.tres, b.tres)

KeysOf(list) == {a.key : a \in list}

\* Of several associations with one key, the last.
buildAssociationMap(list) ==
  [k \in KeysOf(list) |-> CHOOSE a \in list : a.key = k]

\* Mutant: the associations that left the plan stay.
DiffWithoutDelete(old, new) ==
  LET o == buildAssociationMap(old)
      n == buildAssociationMap(new)
  IN [create |-> {n[k] : k \in DOMAIN n \ DOMAIN o},
      update |-> {n[k] : k \in {k \in DOMAIN n \cap DOMAIN o : ~associationsEqual(o[k], n[k])}},
      delete |-> {}]

DiffAssociations(old, new) ==
  LET o == buildAssociationMap(old)
      n == buildAssociationMap(new)
  IN [create |-> {n[k] : k \in DOMAIN n \ DOMAIN o},
      update |-> {n[k] : k \in {k \in DOMAIN n \cap DOMAIN o : ~associationsEqual(o[k], n[k])}},
      delete |-> DOMAIN o \ DOMAIN n]

IsEmpty(diff) == diff.create = {} /\ diff.update = {} /\ diff.delete = {}

-----------------------------------------------------------------------------
(* slurmdbd *)

Default == [shares |-> 1, qos |-> {}, tres |-> [t \in TresTypes |-> Null]]

Named(list, t) == \E e \in list : e.type = t

\* The rows that the entries of one association may leave, of which a is the
\* last and wins.  What it does not carry (omitempty drops empty lists) comes
\* from an earlier one or stays; types it does not name are kept or cleared.
WithLast(row, list, a) ==
  LET old == IF row = NoRow THEN Default ELSE row
      earlier(values, kept) == IF values = {} THEN {kept} ELSE values
      shares == IF a.shares # Null THEN {a.shares}
                ELSE earlier({e.shares : e \in list} \ {Null}, old.shares)
      qos == IF a.qos # <<>> THEN {Range(a.qos)}
             ELSE earlier({Range(e.qos) : e \in {e \in list : e.qos # <<>>}}, old.qos)
      count(t) == IF Named(a.tres, t) THEN {CountIn(a.tres, t)}
                  ELSE earlier({CountIn(e.tres, t) : e \in {e \in list : Named(e.tres, t)}},
                               old.tres[t])
                       \cup (IF a.tres = {} THEN {} ELSE {Null})
      tres == {f \in [TresTypes -> Counts \cup {Null}] : \A t \in TresTypes : f[t] \in count(t)}
  IN {[shares |-> s, qos |-> q, tres |-> f] : s \in shares, q \in qos, f \in tres}

\* POST associations/ with entries of one association.
Posted(row, list) ==
  IF list = {} THEN {row} ELSE UNION {WithLast(row, list, a) : a \in list}

\* What slurmdbd shows: limits merge with the account's per TRES type.
ShownTres(row) ==
  LET count(t) == IF row.tres[t] # Null THEN row.tres[t] ELSE AccountTres[t]
  IN {[type |-> t, count |-> count(t)] : t \in {t \in TresTypes : count(t) # Null}}

\* POST associations/ with a list: each row of old that it names gets a value it
\* allows.
PostedAll(old, list) ==
  LET named == KeysOf(list)
      outcomes == [k \in named |-> Posted(old[k], {a \in list : a.key = k})]
  IN {[k \in Keys |-> IF k \in named THEN rs[k] ELSE old[k]] :
        rs \in {rs \in [named -> UNION Range(outcomes)] : \A k \in named : rs[k] \in outcomes[k]}}

\* POST users_association/: the new user has an unscoped association of the
\* default account, whether a block declares it or not.
Bootstrapped == [rows EXCEPT ![DefaultKey] = IF @ = NoRow THEN Default ELSE @]

Present == {k \in Keys : rows[k] # NoRow}

\* The rows that DELETE association/ selects: it carries no partition for an
\* unscoped key.
Selected(k) ==
  Present \cap ({k} \cup IF UnscopedDelete # "exact" /\ k \in Unscoped
                         THEN {j \in Keys : AccountOf[j] = AccountOf[k]} ELSE {})

\* ... unless it is refused: the unscoped and the last association of the default
\* account stay, and an ambiguous selector may be refused.
Protected(k) ==
  LET ofDefault == {j \in Present : AccountOf[j] = AccountOf[DefaultKey]}
  IN \/ DefaultKey \in Selected(k)
     \/ ofDefault # {} /\ ofDefault \subseteq Selected(k)
     \/ UnscopedDelete = "refuse" /\ \E i, j \in Selected(k) : i # j

-----------------------------------------------------------------------------
(* The commands *)

Init ==
  /\ config \in {{b} : b \in Blocks}
  /\ created = FALSE /\ state = {} /\ rows = [k \in Keys |-> NoRow]
  /\ pc = "idle" /\ todo = {} /\ result = "none" /\ quiet = TRUE
  /\ edits = 0 /\ interferences = 0

\* Mutant: every number is read as a number.
ReadNumber(row, prior) ==
  [key |-> prior.key,
   fairshare |-> IF prior.fairshare = Null THEN Null ELSE [kind |-> "plain", n |-> row.shares],
   allowed_qos |-> IF prior.allowed_qos = Null \/ row.qos = {} THEN Null ELSE Listed[row.qos],
   max_tres |-> IF prior.max_tres = Null \/ ShownTres(row) = {} THEN Null ELSE ShownTres(row)]

\* Mutant: the list of QOS stays as it was applied.
ReadStale(row, prior) ==
  [key |-> prior.key,
   fairshare |-> IF prior.fairshare = Null THEN Null ELSE fairshareStringFromSharesRaw(row.shares),
   allowed_qos |-> prior.allowed_qos,
   max_tres |-> IF prior.max_tres = Null \/ ShownTres(row) = {} THEN Null ELSE ShownTres(row)]

\* apiAssociationsToState for an association that is in the prior state.
ReadPrior(row, prior) ==
  [key |-> prior.key,
   fairshare |-> IF prior.fairshare = Null THEN Null ELSE fairshareStringFromSharesRaw(row.shares),
   allowed_qos |-> IF prior.allowed_qos = Null \/ row.qos = {} THEN Null ELSE Listed[row.qos],
   max_tres |-> IF prior.max_tres = Null \/ ShownTres(row) = {} THEN Null ELSE ShownTres(row)]

\* ... and for one that is not.
ReadNew(k, row) ==
  [key |-> k,
   fairshare |-> IF row.shares = 1 THEN Null ELSE fairshareStringFromSharesRaw(row.shares),
   allowed_qos |-> Null,
   max_tres |-> IF ShownTres(row) = {} THEN Null ELSE ShownTres(row)]

\* The prior of a key: the last block of the state that has it.
Refreshed ==
  LET priors == buildAssociationMap(state)
  IN {IF k \in DOMAIN priors THEN ReadPrior(rows[k], priors[k]) ELSE ReadNew(k, rows[k]) :
        k \in Present}

\* The validators: of the strings, and of default_account.
Valid ==
  /\ \A m \in config : ValidateString(m.fairshare)
  /\ \E m \in config : AccountOf[m.key] = AccountOf[DefaultKey]

\* tofu plan: validation, refresh, and core's comparison.
Plan ==
  /\ pc = "idle"
  /\ IF ~Valid
     THEN pc' = pc /\ result' = "invalid" /\ UNCHANGED state
     ELSE /\ state' = IF created THEN Refreshed ELSE {}
          /\ IF created /\ state' = config THEN pc' = pc /\ result' = "clean"
                                           ELSE pc' = "planned" /\ UNCHANGED result
  /\ quiet' = TRUE
  /\ UNCHANGED <<config, created, rows, todo, edits, interferences>>

Diff == DiffAssociations(extractAssociations(state), extractAssociations(config))

Finish(how) ==
  /\ created' = TRUE /\ state' = config
  /\ pc' = "idle" /\ todo' = {} /\ result' = how
  /\ UNCHANGED <<config, quiet, edits, interferences>>

\* Create makes the user and posts every block.
Create ==
  /\ pc = "planned" /\ ~created
  /\ rows' \in PostedAll(Bootstrapped, extractAssociations(config))
  /\ Finish("created")

\* Update posts what the diff creates and what it updates, and deletes the rest;
\* then the plan is the state.
Update ==
  /\ pc = "planned" /\ created
  /\ LET diff == Diff
     IN rows' \in PostedAll(rows, diff.create \cup diff.update) /\ todo' = diff.delete
  /\ pc' = "deleting"
  /\ UNCHANGED <<config, created, state, result, quiet, edits, interferences>>

DeleteAssociation(k) ==
  /\ pc = "deleting" /\ k \in todo /\ ~Protected(k)
  /\ rows' = [j \in Keys |-> IF j \in Selected(k) THEN NoRow ELSE rows[j]]
  /\ todo' = todo \ {k}
  /\ UNCHANGED <<config, created, state, pc, result, quiet, edits, interferences>>

FinishUpdate == pc = "deleting" /\ todo = {} /\ Finish("updated") /\ UNCHANGED rows

\* The delete loop stops at the first key that slurmdbd refuses to delete.
Refused ==
  /\ pc = "deleting" /\ \E k \in todo : Protected(k)
  /\ pc' = "idle" /\ todo' = {} /\ result' = "refused"
  /\ UNCHANGED <<config, created, state, rows, quiet, edits, interferences>>

\* The operator changes the block of one association, adds or removes one.
EditConfig ==
  /\ pc = "idle" /\ edits < MaxEdits
  /\ \E b \in Blocks :
       /\ b \notin config
       /\ config' \in {{b}, config \cup {b}, {m \in config : m.key # b.key} \cup {b}}
  /\ result' = "none"
  /\ edits' = edits + 1
  /\ UNCHANGED <<created, state, rows, pc, todo, quiet, interferences>>

\* sacctmgr: an association gets another weight, QOS list or TRES limit, or
\* is removed.
Interfere ==
  /\ interferences < MaxInterference
  /\ \E k \in Keys :
       /\ rows[k] # NoRow
       /\ rows' \in {[rows EXCEPT ![k] = NoRow]}
                    \cup {[rows EXCEPT ![k].shares = n] : n \in {1, Sentinel}}
                    \cup {[rows EXCEPT ![k].qos = qs] : qs \in SUBSET QosNames}
                    \cup {[rows EXCEPT ![k].tres[t] = n] : t \in TresTypes, n \in Counts \cup {Null}}
  /\ quiet' = FALSE
  /\ interferences' = interferences + 1
  /\ UNCHANGED <<config, created, state, pc, todo, result, edits>>

Apply == Create \/ Update \/ (\E k \in todo : DeleteAssociation(k)) \/ FinishUpdate \/ Refused

Next == Plan \/ Apply \/ EditConfig \/ Interfere
Spec == Init /\ [][Next]_vars

\* A step of Apply, which is enabled whenever a change is planned or deletes are
\* left: told by what it does to pc and todo.
Applied ==
  \/ pc = "planned" /\ pc' \in {"deleting", "idle"} /\ todo' \in SUBSET Keys
  \/ pc = "deleting" /\ pc' = "idle" /\ todo' = {}
  \/ pc = "deleting" /\ pc' = pc /\ \E k \in todo : todo' = todo \ {k}

\* A planned change is applied, and the operator plans again and again.
FairSpec == Spec /\ WF_<<pc, todo>>(Applied) /\ WF_vars(Plan)

-----------------------------------------------------------------------------
(* What a block means *)

Meaning(m) ==
  [key |-> m.key,
   shares |-> IF m.fairshare = Null THEN Null
              ELSE IF m.fairshare.kind = "parent" THEN Parent
              ELSE [kind |-> "plain", n |-> m.fairshare.n],
   qos |-> IF m.allowed_qos = Null THEN {} ELSE Range(m.allowed_qos),
   tres |-> IF m.max_tres = Null THEN {} ELSE m.max_tres]

\* Two configurations mean the same; of several blocks with a key, one counts.
SameMeaning(old, new) ==
  /\ KeysOf(old) = KeysOf(new)
  /\ \A k \in KeysOf(new) : \E p \in old, m \in new :
       p.key = k /\ m.key = k /\ Meaning(p) = Meaning(m)

\* A limit of zero, which the diff cannot tell from a missing one.
HasZero(m) == m.max_tres # Null /\ \E e \in m.max_tres : e.count = 0

\* Two limits for one type.
HasTwins(m) == m.max_tres # Null /\ \E e, f \in m.max_tres : e.type = f.type /\ e # f

\* Written as Read writes it.
Canonical(m) ==
  /\ m.fairshare = Null \/ m.fairshare.kind # "padded"
  /\ m.allowed_qos = Null \/ m.allowed_qos = Listed[Range(m.allowed_qos)]
  /\ m.allowed_qos # <<>> /\ m.max_tres # {}
  /\ ~HasTwins(m)

\* The documented rule: every TRES type slurmdbd shows is restated.
Restates(m) ==
  m.max_tres = Null \/ rows[m.key] = NoRow \/
  \A e \in ShownTres(rows[m.key]) : \E f \in m.max_tres : f.type = e.type

-----------------------------------------------------------------------------
(* Properties *)

(* Every variable keeps its type, and the state holds valid strings only.  *)
TypeOK ==
  /\ config \subseteq Blocks
  /\ created \in BOOLEAN
  /\ state \subseteq Model /\ \A m \in state : ValidateString(m.fairshare)
  /\ rows \in [Keys -> Row \cup {NoRow}]
  /\ pc \in {"idle", "planned", "deleting"} /\ todo \subseteq Keys
  /\ result \in {"none", "invalid", "clean", "created", "updated", "refused"}
  /\ quiet \in BOOLEAN /\ edits \in 0..MaxEdits /\ interferences \in 0..MaxInterference

(* DiffAssociations: an update acts on the difference in meaning and on    *)
(* nothing else.  A change that means something is never a silent no-op,   *)
(* but for zero limits; what is sent differs in meaning ("existing and     *)
(* equal, no action needed"), each association once, and is not deleted.   *)
DiffIsExact ==
  pc = "planned" /\ created =>
    LET diff == Diff
        sent == diff.create \cup diff.update
        changed == {m \in config :
                      \/ HasTwins(m)
                      \/ m.allowed_qos # Null /\ Repeats(m.allowed_qos)
                      \/ ~\E p \in state : p.key = m.key /\ Meaning(p) = Meaning(m)}
    IN /\ IsEmpty(diff) => SameMeaning(state, config) \/ \E m \in config : HasZero(m)
       /\ KeysOf(sent) \subseteq {m.key : m \in changed}
       /\ \A a, b \in sent : a.key = b.key => a = b
       /\ KeysOf(sent) \cap diff.delete = {}

\* slurmdbd holds what a block declares, and maybe more TRES.
Holds(row, m) ==
  /\ row # NoRow
  /\ m.fairshare # Null => row.shares = sharesRawFromFairshare(m.fairshare)
  /\ m.allowed_qos \notin {Null, <<>>} => row.qos = Range(m.allowed_qos)
  /\ m.max_tres # Null /\ ~HasTwins(m) => m.max_tres \subseteq ShownTres(row)

(* Drift detection on real values: an apply, and a plan without changes,   *)
(* that nothing disturbed mean that slurmdbd has the declared associations *)
(* and no other, and what they declare is in force: after an apply for one *)
(* block of each key and but for zero limits.  After a create there may    *)
(* also be the association of the bootstrap call; and a DELETE that takes  *)
(* a whole account may have taken declared ones, until the next plan.      *)
DeclaredIsInForce ==
  pc = "idle" /\ quiet /\ result \in {"clean", "created", "updated"} =>
    /\ Present \subseteq KeysOf(config) \cup (IF result = "created" THEN {DefaultKey} ELSE {})
    /\ \A m \in config : \E p \in config :
         /\ p.key = m.key
         /\ \/ Holds(rows[m.key], p)
            \/ HasZero(p) /\ m.key \in Present /\ result # "clean"
            \/ UnscopedDelete = "all" /\ m.key \notin Unscoped \cup Present /\ result = "updated"

(* The validator's comment: what it accepts never drifts.  A configuration *)
(* with one block per key, written as Read writes it, without zero limits  *)
(* and with every TRES type restated, reaches an empty plan for good,      *)
(* unless slurmdbd refuses to delete an association it does not declare    *)
(* (the bootstrapped one, where the default account is declared with a     *)
(* partition only: a diff that never resolves).                            *)
Converges ==
  <>[]\/ result = "clean"
      \/ ~Valid
      \/ \E m \in config : ~Canonical(m) \/ HasZero(m) \/ ~Restates(m)
      \/ \E m, p \in config : m.key = p.key /\ m # p
      \/ \E k \in Present \ KeysOf(config) : Protected(k)
=============================================================================
