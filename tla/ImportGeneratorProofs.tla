------------------------ MODULE ImportGeneratorProofs ------------------------
(***************************************************************************)
(* Proofs about ImportGenerator, for any number of users, partitions, TRES *)
(* types and members: what the generator declares of an association is     *)
(* what the association has of its own, but for the other types of a list  *)
(* that overrides the account's; so an apply changes nothing else.         *)
(***************************************************************************)
EXTENDS ImportGenerator, TLAPS

\* A block declares the row that the generator saw: the value itself; or nothing,
\* with the whole attribute or as a zero; or the account's limit.
Declares(row, block, limits) ==
  \A s \in Slots :
    \/ block[s] = row[s]
    \/ \A t \in Siblings(s) : block[t] = Null
    \/ /\ s[1] \in Lists /\ Overrides(row, s[1], limits)
       /\ \/ row[s] = 0 /\ block[s] = Null
          \/ row[s] = Null /\ block[s] = limits[s]

\* What is declared of the associations of u that the generator saw.
DeclaresOwn(u) ==
  /\ DOMAIN config[u] = {p \in Partitions : dump.rows[<<u, p>>] # NoRow}
  /\ \A p \in DOMAIN config[u] : Declares(dump.rows[<<u, p>>], config[u][p], dump.account)

Typed ==
  /\ dump = NotManaged \/ ~PartitionIsLost => rows \in [Keys -> Rows \cup {NoRow}]
  /\ dump # NotManaged => /\ dump.rows \in [Keys -> Rows \cup {NoRow}]
                          /\ dump.account \in Values
  /\ account \in AccountLimits
  /\ DOMAIN config = Users /\ DOMAIN state = Users
  /\ layout \in {"flat", "big-cluster"}

BeforeTheGenerator ==
  dump = NotManaged => \A u \in Users : config[u] = NotManaged /\ state[u] = NotManaged

ManagedIsDeclared == \A u \in Users : state[u] # NotManaged => config[u] # NotManaged

Declared ==
  dump # NotManaged /\ ~PartitionIsLost =>
    \A u \in Users : config[u] = NotManaged \/ DeclaresOwn(u)

IInv == Typed /\ BeforeTheGenerator /\ ManagedIsDeclared /\ Declared /\ UsersAreKept

\* What is no TRES list has one slot.
LEMMA OneSlot ==
  ASSUME NEW s \in Slots, s[1] \notin Lists
  PROVE  Siblings(s) = {s}
BY DEF Slots, Siblings, Lists

LEMMA NormTyped ==
  ASSUME NEW s \in Slots, NEW n \in Numbers \cup {Null}
  PROVE  /\ Norm(s, n) \in {n, Null}
         /\ s[1] # "fairshare" /\ n \notin {0, Null} => Norm(s, n) = n
<1>1. Numbers \subseteq Nat /\ Null \notin Numbers
  BY ImportAssumption
<1>2. n # Null => n \in Nat
  BY <1>1
<1>. QED
  BY <1>2 DEF Norm

\* _assoc_fields, for one attribute: it is left out, or it is the row's own but
\* for zeros and the account's other types.
LEMMA OwnFields ==
  ASSUME NEW row \in Rows, account \in Values
  PROVE  Declares(row, AssocFields(row), account)
<1> SUFFICES ASSUME NEW s \in Slots,
                    AssocFields(row)[s] # row[s],
                    ~\A t \in Siblings(s) : AssocFields(row)[t] = Null
             PROVE  /\ s[1] \in Lists /\ Overrides(row, s[1], account)
                    /\ \/ row[s] = 0 /\ AssocFields(row)[s] = Null
                       \/ row[s] = Null /\ AssocFields(row)[s] = account[s]
  BY DEF Declares
<1>1. \A t \in Slots : row[t] \in Numbers \cup {Null} /\ account[t] \in Numbers \cup {Null}
  BY DEF Rows, Values
<1>2. \A t \in Siblings(s) : t \in Slots /\ t[1] = s[1] /\ Siblings(t) = Siblings(s)
  BY DEF Siblings
<1>3. PICK t \in Siblings(s) : Norm(t, Shown(row, t)) # Norm(t, account[t])
  BY <1>2 DEF AssocFields
<1>4. \A r \in Siblings(s) : AssocFields(row)[r] = Norm(r, Shown(row, r))
  BY <1>2, <1>3 DEF AssocFields
<1>5. s \in Siblings(s)
  BY DEF Siblings
<1>6. Overrides(row, s[1], account)
  <2>1. Shown(row, t) # account[t]
    BY <1>3
  <2>2. row[t] # Null /\ row[t] # account[t]
    BY <2>1 DEF Shown
  <2>. QED
    BY <1>2, <2>2 DEF Overrides
<1>7. s[1] \in Lists
  <2>1. SUFFICES ASSUME Siblings(s) = {s} PROVE FALSE
    BY OneSlot
  <2>2. t = s
    BY <2>1
  <2>3. Shown(row, s) # account[s]
    BY <1>3, <2>2
  <2>4. row[s] # Null /\ Shown(row, s) = row[s]
    BY <2>3 DEF Shown
  <2>5. AssocFields(row)[s] \in {row[s], Null}
    BY <1>1, <1>4, <1>5, <2>4, NormTyped
  <2>. QED
    BY <2>1, <2>5
<1>8. s[1] # "fairshare"
  BY <1>7 DEF Lists
<1>9. CASE row[s] = Null
  <2>1. AssocFields(row)[s] \in {account[s], Null}
    BY <1>1, <1>4, <1>5, <1>9, NormTyped DEF Shown
  <2>. QED
    BY <1>6, <1>7, <1>9, <2>1
<1>10. CASE row[s] # Null
  <2>1. AssocFields(row)[s] = Norm(s, row[s])
    BY <1>4, <1>5, <1>10 DEF Shown
  <2>2. row[s] = 0 /\ AssocFields(row)[s] = Null
    BY <1>1, <1>8, <1>10, <2>1, NormTyped
  <2>. QED
    BY <1>6, <1>7, <2>2
<1>. QED
  BY <1>9, <1>10

\* A request with a block that declares the dumped row keeps its values.
LEMMA PostedKeeps ==
  ASSUME NEW row \in Rows, NEW now \in Rows, AssociationIsKept(row, now),
         NEW block, Declares(row, block, dump.account), NEW replaces \in BOOLEAN
  PROVE  /\ Posted(now, block, replaces) = [s \in Slots |-> Posted(now, block, replaces)[s]]
         /\ \A s \in Slots : ValueIsKept(row, Posted(now, block, replaces), s)
<1>1. now # NoRow /\ row # NoRow
  BY ImportAssumption DEF Rows
<1> DEFINE after == Posted(now, block, replaces)
<1>2. after = [s \in Slots |->
                 IF block[s] # Null THEN block[s]
                 ELSE IF replaces /\ \E t \in Siblings(s) : block[t] # Null THEN Null ELSE now[s]]
  BY <1>1 DEF Posted
<1> HIDE DEF after
<1>3. ASSUME NEW s \in Slots PROVE ValueIsKept(row, after, s)
  <2>1. after[s] = IF block[s] # Null THEN block[s]
                   ELSE IF replaces /\ \E t \in Siblings(s) : block[t] # Null THEN Null ELSE now[s]
    BY <1>2
  <2>2. ValueIsKept(row, now, s)
    BY <1>1 DEF AssociationIsKept
  <2>3. s \in Siblings(s)
    BY DEF Siblings
  <2>4. CASE block[s] = row[s]
    BY <2>1, <2>2, <2>4 DEF ValueIsKept
  <2>5. CASE \A t \in Siblings(s) : block[t] = Null
    BY <2>1, <2>2, <2>3, <2>5 DEF ValueIsKept
  <2>6. CASE s[1] \in Lists /\ Overrides(row, s[1], dump.account) /\ row[s] = 0 /\ block[s] = Null
    BY <2>1, <2>2, <2>6 DEF ValueIsKept
  <2>7. CASE s[1] \in Lists /\ Overrides(row, s[1], dump.account) /\ row[s] = Null /\ block[s] = dump.account[s]
    BY <2>1, <2>2, <2>7 DEF ValueIsKept
  <2>. QED
    BY <2>4, <2>5, <2>6, <2>7 DEF Declares
<1>4. after = [s \in Slots |-> after[s]]
  BY <1>2
<1>. QED
  BY <1>3, <1>4 DEF after

\* What is kept is still an association.
LEMMA KeptTyped ==
  ASSUME NEW row \in Rows, NEW now, now = [s \in Slots |-> now[s]],
         dump.account \in Values, \A s \in Slots : ValueIsKept(row, now, s)
  PROVE  now \in Rows
<1>1. \A s \in Slots : row[s] \in Numbers \cup {Null} /\ dump.account[s] \in Numbers \cup {Null}
  BY DEF Rows, Values
<1>2. \A s \in Slots : now[s] \in Numbers \cup {Null}
  BY <1>1 DEF ValueIsKept
<1>3. <<"fairshare", Whole>> \in Slots /\ <<"fairshare", Whole>>[1] \notin Lists
  BY DEF Slots, Lists
<1>4. now[<<"fairshare", Whole>>] = row[<<"fairshare", Whole>>]
  BY <1>3 DEF ValueIsKept
<1>5. now[<<"fairshare", Whole>>] # Null
  BY <1>4 DEF Rows
<1>6. now \in Values
  BY <1>2 DEF Values
<1>. QED
  BY <1>5, <1>6 DEF Rows

LEMMA InitIInv == Init => IInv
<1>. SUFFICES ASSUME Init PROVE IInv
  OBVIOUS
<1>1. Typed
  <2>1. PICK ks \in SUBSET Keys : \E values \in [ks -> Owned] :
          rows = [k \in Keys |-> IF k \in ks THEN values[k] ELSE NoRow]
    BY DEF Init
  <2>2. PICK values \in [ks -> Owned] :
          rows = [k \in Keys |-> IF k \in ks THEN values[k] ELSE NoRow]
    BY <2>1
  <2>3. rows \in [Keys -> Rows \cup {NoRow}]
    BY <2>2, ImportAssumption
  <2>. QED
    BY <2>3 DEF Init, Typed
<1>2. BeforeTheGenerator /\ ManagedIsDeclared /\ Declared /\ UsersAreKept
  BY DEF Init, BeforeTheGenerator, ManagedIsDeclared, Declared, UsersAreKept
<1>. QED
  BY <1>1, <1>2 DEF IInv

LEMMA GenerateKeeps == IInv /\ Generate => IInv'
<1>. SUFFICES ASSUME IInv, Generate PROVE IInv'
  OBVIOUS
<1>0. Typed /\ BeforeTheGenerator /\ dump = NotManaged
  BY DEF IInv, Generate
<1>1. rows \in [Keys -> Rows \cup {NoRow}] /\ account \in AccountLimits /\ account \in Values
  BY <1>0, ImportAssumption DEF Typed
<1>2. dump' = [rows |-> rows, account |-> account] /\ UNCHANGED <<layout, account, rows, state>>
  BY DEF Generate
<1>3. dump' # NotManaged
  BY <1>1, <1>2, ImportAssumption
<1>4. Typed'
  <2>1. DOMAIN config' = Users
    BY DEF Generate
  <2>. QED
    BY <1>0, <1>1, <1>2, <2>1 DEF Typed
<1>5. BeforeTheGenerator' /\ ManagedIsDeclared'
  BY <1>0, <1>2, <1>3 DEF BeforeTheGenerator, ManagedIsDeclared
<1>6. UsersAreKept'
  <2>1. \A k \in Keys : dump'.rows[k] = rows'[k]
    BY <1>2
  <2>. QED
    BY <2>1 DEF UsersAreKept, AssociationIsKept, ValueIsKept
<1>7. Declared'
  <2>. SUFFICES ASSUME ~PartitionIsLost', NEW u \in Users, config'[u] # NotManaged
                PROVE  DeclaresOwn(u)'
    BY DEF Declared
  <2>1. /\ PartitionsOf(u) # {}
        /\ config'[u] = IF layout = "flat" THEN FlatConfig(u) ELSE BigClusterConfig(u)
    BY DEF Generate
  <2>2. PartitionsOf(u) = {p \in Partitions : dump'.rows[<<u, p>>] # NoRow}
    BY <1>2 DEF PartitionsOf
  <2>3. \A p \in PartitionsOf(u) : <<u, p>> \in Keys /\ rows[<<u, p>>] \in Rows
    BY <1>1 DEF PartitionsOf, Keys
  <2>4. \A p \in PartitionsOf(u) : Declares(rows[<<u, p>>], AssocFields(rows[<<u, p>>]), account)
    BY <1>1, <2>3, OwnFields
  <2>5. SUFFICES ASSUME TRUE
                 PROVE  /\ DOMAIN config'[u] = PartitionsOf(u)
                        /\ \A p \in PartitionsOf(u) : Declares(rows[<<u, p>>], config'[u][p], account)
    <3>1. \A p \in PartitionsOf(u) : dump'.rows[<<u, p>>] = rows[<<u, p>>]
      BY <1>2
    <3>2. dump'.account = account
      BY <1>2
    <3>. QED
      BY <2>2, <3>1, <3>2 DEF DeclaresOwn
  <2>6. CASE layout = "flat"
    BY <2>1, <2>4, <2>6 DEF FlatConfig
  <2>7. CASE layout # "flat"
    <3>1. \A p \in Partitions : ~HoistsPartition(rows, p)
      <4>1. layout = "big-cluster"
        BY <1>0, <2>7 DEF Typed
      <4>. QED
        BY <1>2, <4>1 DEF PartitionIsLost, HoistsPartition, Members
    <3> DEFINE written(p) == IF HoistsPartition(rows, p) THEN NoPartition ELSE p
    <3> DEFINE stripped(p) == [s \in Slots |->
                                 IF Hoists(s) THEN Null ELSE AssocFields(rows[<<u, p>>])[s]]
    <3>2. \A p \in PartitionsOf(u) : written(p) = p
      BY <3>1 DEF PartitionsOf
    <3>3. config'[u] = [q \in {written(p) : p \in PartitionsOf(u)} |->
                          stripped(CHOOSE p \in PartitionsOf(u) : written(p) = q)]
      BY <2>1, <2>7 DEF BigClusterConfig
    <3> HIDE DEF stripped, written
    <3>4. {written(p) : p \in PartitionsOf(u)} = PartitionsOf(u)
      BY <3>2
    <3>5. \A q \in PartitionsOf(u) : (CHOOSE p \in PartitionsOf(u) : written(p) = q) = q
      BY <3>2
    <3>6. DOMAIN config'[u] = PartitionsOf(u)
      BY <3>3, <3>4
    <3>7. \A q \in PartitionsOf(u) : config'[u][q] = stripped(q)
      BY <3>3, <3>4, <3>5
    <3>8. ASSUME NEW q \in PartitionsOf(u) PROVE Declares(rows[<<u, q>>], stripped(q), account)
      <4> DEFINE own == AssocFields(rows[<<u, q>>])
      <4>1. Declares(rows[<<u, q>>], own, account)
        BY <2>4
      <4>2. \A s \in Slots : stripped(q)[s] = IF Hoists(s) THEN Null ELSE own[s]
        BY DEF stripped
      <4>3. \A s \in Slots : \A t \in Siblings(s) : t \in Slots /\ (Hoists(t) <=> Hoists(s))
        BY DEF Siblings, Hoists
      <4> HIDE DEF own
      <4>4. ASSUME NEW s \in Slots, Hoists(s) PROVE \A t \in Siblings(s) : stripped(q)[t] = Null
        BY <4>2, <4>3, <4>4
      <4>5. ASSUME NEW s \in Slots, ~Hoists(s)
            PROVE  stripped(q)[s] = own[s] /\ \A t \in Siblings(s) : stripped(q)[t] = own[t]
        BY <4>2, <4>3, <4>5
      <4>. QED
        BY <4>1, <4>4, <4>5 DEF Declares
    <3>. QED
      BY <3>6, <3>7, <3>8
  <2>. QED
    BY <2>6, <2>7
<1>. QED
  BY <1>4, <1>5, <1>6, <1>7 DEF IInv

LEMMA ImportKeeps == ASSUME NEW u \in Users PROVE IInv /\ Import(u) => IInv'
<1>. SUFFICES ASSUME IInv, Import(u) PROVE IInv'
  OBVIOUS
<1>1. UNCHANGED <<layout, account, rows, config, dump>> /\ config[u] # NotManaged
  BY DEF Import
<1>2. DOMAIN state' = Users /\ \A v \in Users : v # u => state'[v] = state[v]
  BY DEF Import, IInv, Typed
<1>3. Typed'
  BY <1>1, <1>2 DEF IInv, Typed, PartitionIsLost, HoistsPartition, Members
<1>4. BeforeTheGenerator' /\ ManagedIsDeclared'
  BY <1>1, <1>2 DEF IInv, BeforeTheGenerator, ManagedIsDeclared
<1>5. Declared' /\ UsersAreKept'
  BY <1>1 DEF IInv, Declared, DeclaresOwn, UsersAreKept, PartitionIsLost, HoistsPartition, Members,
              AssociationIsKept, ValueIsKept, Overrides, Declares
<1>. QED
  BY <1>3, <1>4, <1>5 DEF IInv

\* The heart: where no partition is lost, an apply keeps every association.
LEMMA ReconcileKeepsRows ==
  ASSUME NEW u \in Users, IInv, Reconcile(u), ~PartitionIsLost
  PROVE  /\ rows' \in [Keys -> Rows \cup {NoRow}]
         /\ \A k \in Keys : AssociationIsKept(dump.rows[k], rows'[k])
<1>1. state[u] # NotManaged /\ config[u] # NotManaged /\ dump # NotManaged
  BY DEF Reconcile, IInv, ManagedIsDeclared, BeforeTheGenerator
<1>2. DeclaresOwn(u) /\ \A k \in Keys : AssociationIsKept(dump.rows[k], rows[k])
  BY <1>1 DEF IInv, Declared, UsersAreKept
<1>3. /\ rows \in [Keys -> Rows \cup {NoRow}] /\ dump.rows \in [Keys -> Rows \cup {NoRow}]
      /\ dump.account \in Values
  BY <1>1 DEF IInv, Typed
<1>4. PICK replaces \in BOOLEAN : \E before :
        rows' = [k \in Keys |->
          IF k[1] # u THEN rows[k]
          ELSE IF k[2] \notin DOMAIN config[u] THEN NoRow
          ELSE IF k[2] \notin DOMAIN before \/ before[k[2]] # config[u][k[2]]
               THEN Posted(rows[k], config[u][k[2]], replaces) ELSE rows[k]]
  BY DEF Reconcile
<1>5. ASSUME NEW k \in Keys
      PROVE  rows'[k] \in Rows \cup {NoRow} /\ AssociationIsKept(dump.rows[k], rows'[k])
  <2>1. k = <<k[1], k[2]>> /\ k[2] \in Partitions
    BY DEF Keys
  <2>2. CASE k[1] # u
    BY <1>2, <1>3, <1>4, <2>2
  <2>3. CASE k[1] = u /\ k[2] \notin DOMAIN config[u]
    <3>1. dump.rows[k] = NoRow
      BY <1>2, <2>1, <2>3 DEF DeclaresOwn
    <3>2. rows'[k] = NoRow
      BY <1>4, <2>3
    <3>. QED
      BY <3>1, <3>2 DEF AssociationIsKept
  <2>4. CASE k[1] = u /\ k[2] \in DOMAIN config[u]
    <3>1. dump.rows[k] # NoRow /\ Declares(dump.rows[k], config[u][k[2]], dump.account)
      BY <1>2, <2>1, <2>4 DEF DeclaresOwn
    <3>2. dump.rows[k] \in Rows /\ rows[k] \in Rows /\ AssociationIsKept(dump.rows[k], rows[k])
      BY <1>2, <1>3, <3>1 DEF AssociationIsKept
    <3> DEFINE after == Posted(rows[k], config[u][k[2]], replaces)
    <3>3. after = [s \in Slots |-> after[s]] /\ \A s \in Slots : ValueIsKept(dump.rows[k], after, s)
      BY <3>1, <3>2, PostedKeeps
    <3>4. rows'[k] \in {after, rows[k]}
      BY <1>4, <2>4
    <3> HIDE DEF after
    <3>5. after \in Rows
      BY <1>3, <3>2, <3>3, KeptTyped
    <3>6. AssociationIsKept(dump.rows[k], after)
      BY <3>1, <3>3, <3>5, ImportAssumption DEF AssociationIsKept, Rows
    <3>. QED
      BY <3>2, <3>4, <3>5, <3>6
  <2>. QED
    BY <2>2, <2>3, <2>4
<1>6. rows' = [k \in Keys |-> rows'[k]]
  BY <1>4
<1>. QED
  BY <1>5, <1>6

LEMMA ReconcileKeeps == ASSUME NEW u \in Users PROVE IInv /\ Reconcile(u) => IInv'
<1>. SUFFICES ASSUME IInv, Reconcile(u) PROVE IInv'
  OBVIOUS
<1>1. UNCHANGED <<layout, account, config, dump>>
  BY DEF Reconcile
<1>2. PartitionIsLost' = PartitionIsLost
  BY <1>1 DEF PartitionIsLost, HoistsPartition, Members
<1>3. state[u] # NotManaged /\ config[u] # NotManaged /\ dump # NotManaged
  BY DEF Reconcile, IInv, ManagedIsDeclared, BeforeTheGenerator
<1>4. DOMAIN state' = Users /\ \A v \in Users : v # u => state'[v] = state[v]
  BY DEF Reconcile, IInv, Typed
<1>5. Typed'
  BY <1>1, <1>2, <1>3, <1>4, ReconcileKeepsRows DEF IInv, Typed
<1>6. UsersAreKept'
  <2>1. \A k \in Keys : AssociationIsKept(dump.rows[k], rows'[k]) <=>
                        AssociationIsKept(dump.rows[k], rows[k])'
    BY <1>1 DEF AssociationIsKept, ValueIsKept, Overrides
  <2>. QED
    BY <1>2, <2>1, ReconcileKeepsRows DEF UsersAreKept
<1>7. BeforeTheGenerator' /\ ManagedIsDeclared'
  BY <1>1, <1>3, <1>4 DEF IInv, BeforeTheGenerator, ManagedIsDeclared
<1>8. Declared'
  BY <1>1, <1>2 DEF IInv, Declared, DeclaresOwn, Declares, Overrides
<1>. QED
  BY <1>5, <1>6, <1>7, <1>8 DEF IInv

LEMMA NextKeepsIInv == IInv /\ [Next]_vars => IInv'
<1>. SUFFICES ASSUME IInv, [Next]_vars PROVE IInv'
  OBVIOUS
<1>1. CASE Generate
  BY <1>1, GenerateKeeps
<1>2. ASSUME UNCHANGED <<layout, rows, config, state, dump>>, account' \in AccountLimits
      PROVE  IInv'
  <2>1. PartitionIsLost' = PartitionIsLost
    BY <1>2 DEF PartitionIsLost, HoistsPartition, Members
  <2>2. Typed' /\ BeforeTheGenerator' /\ ManagedIsDeclared'
    BY <1>2, <2>1 DEF IInv, Typed, BeforeTheGenerator, ManagedIsDeclared
  <2>3. \A u \in Users : DeclaresOwn(u)' = DeclaresOwn(u)
    BY <1>2 DEF DeclaresOwn, Declares, Overrides
  <2>4. Declared'
    BY <1>2, <2>1, <2>3 DEF IInv, Declared
  <2>5. UsersAreKept'
    BY <1>2, <2>1 DEF IInv, UsersAreKept, AssociationIsKept, ValueIsKept, Overrides
  <2>. QED
    BY <2>2, <2>4, <2>5 DEF IInv
<1>3. CASE ChangeAccount
  BY <1>2, <1>3 DEF ChangeAccount
<1>4. ASSUME NEW u \in Users, Import(u) PROVE IInv'
  BY <1>4, ImportKeeps
<1>5. ASSUME NEW u \in Users, Reconcile(u) PROVE IInv'
  BY <1>5, ReconcileKeeps
<1>6. CASE UNCHANGED vars
  BY <1>2, <1>6 DEF vars, IInv, Typed
<1>. QED
  BY <1>1, <1>3, <1>4, <1>5, <1>6 DEF Next

(* generate_import.py: bringing users under management leaves their        *)
(* associations and what these have of their own, inherited values         *)
(* unpinned, however the account changes meanwhile, as long as no          *)
(* partition is hoisted; but where an association overrides a type of a    *)
(* TRES list, the list's other types get the account's limit of that time, *)
(* and its limits of zero may be cleared.                                  *)
THEOREM ImportKeepsUsers == Spec => []UsersAreKept
<1>1. IInv => UsersAreKept
  BY DEF IInv
<1>. QED
  BY InitIInv, NextKeepsIInv, <1>1, PTL DEF Spec
=============================================================================
