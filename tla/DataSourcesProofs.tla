-------------------------- MODULE DataSourcesProofs --------------------------
(***************************************************************************)
(* Proofs about DataSources: whatever reads, failures and changes          *)
(* interleave, what a read shows was the object's own, null stands for     *)
(* nothing else than nothing (or a zero that qos.go skips), and a "not     *)
(* found" is true.                                                         *)
(***************************************************************************)
EXTENDS DataSources, TLAPS

\* The object is in its own history.
PastHasObject == object = Gone \/ object \in past

\* What a read showed, the object had.
ShownWasTrue ==
  /\ shown.limit = Null \/ \E o \in past : shown.limit = o.limit
  /\ shown.list = Null \/ \E o \in past : shown.list = o.list

\* Between the two reads, undisturbed, the object is still there.
FoundIsThere == pc = "associations" /\ quiet => object # Gone

IInv ==
  /\ TypeOK /\ PastHasObject /\ ShownWasTrue /\ FoundIsThere
  /\ AnswerIsTrue /\ CopyWasTrue

-----------------------------------------------------------------------------
(* How an attribute is read *)

\* Every reader shows the number, or tells nothing from something.
LEMMA LimitIsTold ==
  ASSUME NEW limit \in Limits
  PROVE  /\ slurmIntOrNull(SlurmInt(limit)) = limit \/
              (slurmIntOrNull(SlurmInt(limit)) = Null /\ limit \notin Numbers)
         /\ nonZeroOrNull(SlurmInt(limit)) = limit \/
              (nonZeroOrNull(SlurmInt(limit)) = Null /\ (limit \notin Numbers \/ limit = 0))
         /\ dsAssocJobsScalar(SlurmInt(limit)) = limit \/
              (dsAssocJobsScalar(SlurmInt(limit)) = Null /\ limit \notin Numbers)
         /\ stringifySlurmInt(SlurmInt(limit)) = limit
BY DataSourcesAssumption
   DEF slurmIntOrNull, nonZeroOrNull, dsAssocJobsScalar, stringifySlurmInt, SlurmInt, Limits

LEMMA ReadSays ==
  ASSUME NEW o \in Object
  PROVE  /\ ReadOf(o) \in Shown /\ Says(ReadOf(o), o)
         /\ assocToState(o) \in Shown /\ Says(assocToState(o), o)
<1>1. o.limit \in Limits /\ o.list \in SUBSET Names
  BY DEF Object
<1>2. /\ partitionToState(o) \in Shown /\ Says(partitionToState(o), o)
      /\ stringifyConfMap(o) \in Shown /\ Says(stringifyConfMap(o), o)
      /\ assocToState(o) \in Shown /\ Says(assocToState(o), o)
  BY <1>1, LimitIsTold
     DEF partitionToState, stringifyConfMap, assocToState, ListOrNull, Shown, Says, Visible
<1>3. qosAPIToState(o) \in Shown /\ Says(qosAPIToState(o), o)
  BY <1>1, LimitIsTold DEF qosAPIToState, ListOrNull, Shown, Says, Visible
<1>. QED
  BY <1>2, <1>3 DEF ReadOf

\* The skip of the rows of members, and of those without a user.
LEMMA OwnRowsAreOwn ==
  /\ \A r \in OwnRows : r.of = object /\ object # Gone
  /\ object # Gone => OwnRows # {}
<1>1. ASSUME NEW r \in OwnRows PROVE r.of = object /\ object # Gone
  <2>1. r \in Rows /\ (r.user # "" <=> kind = "user")
    BY DEF OwnRows
  <2>2. CASE r \in {[user |-> "alice", of |-> member]} /\ kind = "account"
    <3>1. r.user = "alice" /\ kind # "user"
      BY <2>2
    <3>2. r.user # ""
      BY <3>1
    <3>. QED
      BY <2>1, <3>1, <3>2
  <2>3. CASE object # Gone /\ r = [user |-> IF kind = "user" THEN "alice" ELSE "", of |-> object]
    BY <2>3
  <2>. QED
    BY <2>1, <2>2, <2>3 DEF Rows
<1>2. ASSUME object # Gone PROVE OwnRows # {}
  <2> DEFINE own == [user |-> IF kind = "user" THEN "alice" ELSE "", of |-> object]
  <2>1. own \in Rows
    BY <1>2 DEF Rows
  <2>2. (own.user # "" <=> kind = "user")
    OBVIOUS
  <2> HIDE DEF own
  <2>. QED
    BY <2>1, <2>2 DEF OwnRows
<1>. QED
  BY <1>1, <1>2

-----------------------------------------------------------------------------
(* The steps *)

LEMMA InitIInv == Init => IInv
<1>. SUFFICES ASSUME Init PROVE IInv
  OBVIOUS
<1>1. TypeOK
  BY DataSourcesAssumption DEF Init, TypeOK, Object, Shown, Fresh, Nothing, Limits
<1>2. PastHasObject /\ ShownWasTrue /\ FoundIsThere /\ AnswerIsTrue /\ CopyWasTrue
  BY DEF Init, PastHasObject, ShownWasTrue, FoundIsThere, AnswerIsTrue, CopyWasTrue, Nothing, Fresh
<1>. QED
  BY <1>1, <1>2 DEF IInv

\* A plan that ends with values of the object keeps the invariant.
LEMMA EndKeeps ==
  ASSUME IInv, NEW values \in Shown, NEW how \in {"ok", "warning"}, EndPlan(values, how),
         (object # Gone /\ Says(values, object)) \/ values = Nothing,
         how = "ok" /\ quiet => object # Gone /\ Says(values, object),
         UNCHANGED <<kind, api, server, object, member, copy, quiet, past, changes>>,
         faults' \in 0..MaxFaults
  PROVE  IInv'
<1>1. shown' = values /\ result' = how /\ pc' \in {"planned", "idle"}
  BY DEF EndPlan
<1>2. TypeOK'
  BY <1>1 DEF IInv, TypeOK
<1>3. PastHasObject' /\ FoundIsThere' /\ CopyWasTrue'
  BY <1>1 DEF IInv, PastHasObject, FoundIsThere, CopyWasTrue
<1>4. ShownWasTrue'
  BY <1>1 DEF IInv, ShownWasTrue, PastHasObject, Says, Nothing
<1>5. AnswerIsTrue'
  BY <1>1 DEF IInv, AnswerIsTrue, Answered, Says, Visible
<1>. QED
  BY <1>2, <1>3, <1>4, <1>5 DEF IInv

\* So does one that stops, if what it says is true.
LEMMA StopKeeps ==
  ASSUME IInv, NEW how \in {"error", "missing", "version", "hint"}, Stop(how),
         how = "missing" => object = Gone,
         how = "hint" => server = "old",
         how = "version" => api = "old",
         UNCHANGED <<kind, api, server, object, member, copy, past, changes>>,
         quiet' \in BOOLEAN, faults' \in 0..MaxFaults
  PROVE  IInv'
<1>1. shown' = Nothing /\ result' = how /\ pc' = "idle"
  BY DEF Stop
<1>2. TypeOK'
  BY <1>1 DEF IInv, TypeOK, Nothing, Shown
<1>3. PastHasObject' /\ FoundIsThere' /\ CopyWasTrue' /\ ShownWasTrue'
  BY <1>1 DEF IInv, PastHasObject, FoundIsThere, CopyWasTrue, ShownWasTrue, Nothing
<1>4. AnswerIsTrue'
  BY <1>1 DEF IInv, AnswerIsTrue, Answered
<1>. QED
  BY <1>2, <1>3, <1>4 DEF IInv

LEMMA StartReadKeeps == IInv /\ StartRead => IInv'
<1>. SUFFICES ASSUME IInv, StartRead PROVE IInv'
  OBVIOUS
<1>1. CASE kind \in ConfKinds /\ ~requireAPIVersion
  <2>1. faults' \in 0..MaxFaults
    BY DEF IInv, TypeOK, StartRead
  <2>. QED
    BY <1>1, <2>1, StopKeeps DEF StartRead, requireAPIVersion
<1>2. CASE ~(kind \in ConfKinds /\ ~requireAPIVersion)
  BY <1>2 DEF StartRead, IInv, TypeOK, PastHasObject, ShownWasTrue, FoundIsThere, AnswerIsTrue,
              Answered, CopyWasTrue
<1>. QED
  BY <1>1, <1>2

LEMMA ReadObjectKeeps == IInv /\ ReadObject => IInv'
<1>. SUFFICES ASSUME IInv, ReadObject PROVE IInv'
  OBVIOUS
<1>1. faults' \in 0..MaxFaults /\ quiet' \in BOOLEAN
  BY DEF IInv, TypeOK, ReadObject
<1>2. CASE ~Serves
  <2>1. Stop(IF kind \in ConfKinds THEN "hint" ELSE "error")
    BY <1>2 DEF ReadObject
  <2>2. kind \in ConfKinds => server = "old"
    BY <1>2 DEF Serves, IInv, TypeOK
  <2>3. CASE kind \in ConfKinds
    BY <1>1, <2>1, <2>2, <2>3, StopKeeps DEF ReadObject
  <2>4. CASE kind \notin ConfKinds
    BY <1>1, <2>1, <2>4, StopKeeps DEF ReadObject
  <2>. QED
    BY <2>3, <2>4
<1>3. CASE Serves /\ object = Gone
  BY <1>1, <1>3, StopKeeps DEF ReadObject
<1>4. CASE Serves /\ object # Gone /\ kind \in AssocKinds
  BY <1>4 DEF ReadObject, IInv, TypeOK, PastHasObject, ShownWasTrue, FoundIsThere, AnswerIsTrue,
              Answered, CopyWasTrue
<1>5. CASE Serves /\ object # Gone /\ kind \notin AssocKinds
  <2>1. object \in Object
    BY <1>5 DEF IInv, TypeOK
  <2>. QED
    BY <1>1, <1>5, <2>1, ReadSays, EndKeeps DEF ReadObject
<1>. QED
  BY <1>2, <1>3, <1>4, <1>5

LEMMA ReadAssociationsKeeps == IInv /\ ReadAssociations => IInv'
<1>. SUFFICES ASSUME IInv, ReadAssociations PROVE IInv'
  OBVIOUS
<1>1. faults' \in 0..MaxFaults
  BY DEF IInv, TypeOK, ReadAssociations
<1>2. CASE OwnRows = {}
  <2>1. ~quiet /\ Nothing \in Shown
    BY <1>2, OwnRowsAreOwn DEF IInv, FoundIsThere, ReadAssociations, Nothing, Shown
  <2>. QED
    BY <1>1, <1>2, <2>1, EndKeeps DEF ReadAssociations
<1>3. CASE OwnRows # {}
  <2>1. PICK r \in OwnRows : EndPlan(assocToState(r.of), "ok")
    BY <1>3 DEF ReadAssociations
  <2>2. object \in Object /\ object # Gone /\ r.of = object
    BY OwnRowsAreOwn DEF IInv, TypeOK
  <2>. QED
    BY <1>1, <2>1, <2>2, ReadSays, EndKeeps DEF ReadAssociations
<1>. QED
  BY <1>2, <1>3

LEMMA FailReadKeeps == IInv /\ FailRead => IInv'
<1>. SUFFICES ASSUME IInv, FailRead PROVE IInv'
  OBVIOUS
<1>1. faults' \in 0..MaxFaults /\ quiet' \in BOOLEAN
  BY DataSourcesAssumption DEF IInv, TypeOK, FailRead
<1>2. CASE pc = "associations" /\ kind = "account"
  <2>1. Nothing \in Shown
    BY DEF Nothing, Shown
  <2>. QED
    BY <1>1, <1>2, <2>1, EndKeeps DEF FailRead
<1>3. CASE ~(pc = "associations" /\ kind = "account")
  BY <1>1, <1>3, StopKeeps DEF FailRead
<1>. QED
  BY <1>2, <1>3

LEMMA ApplyKeeps == IInv /\ Apply => IInv'
<1>. SUFFICES ASSUME IInv, Apply PROVE IInv'
  OBVIOUS
<1>1. DOMAIN copy = {"limit", "list"}
  BY DEF IInv, TypeOK, Object
<1>2. copy' = [limit |-> IF shown.limit = Null THEN copy.limit ELSE shown.limit,
               list |-> IF shown.list = Null THEN copy.list ELSE shown.list]
  BY <1>1 DEF Apply
<1>3. TypeOK'
  BY <1>2 DEF Apply, IInv, TypeOK, Object, Shown
<1>4. CopyWasTrue'
  BY <1>2 DEF Apply, IInv, CopyWasTrue, ShownWasTrue
<1>5. PastHasObject' /\ ShownWasTrue' /\ FoundIsThere' /\ AnswerIsTrue'
  BY DEF Apply, IInv, PastHasObject, ShownWasTrue, FoundIsThere, AnswerIsTrue, Answered,
     Says, Visible
<1>. QED
  BY <1>3, <1>4, <1>5 DEF IInv

LEMMA ChangeObjectKeeps == IInv /\ ChangeObject => IInv'
<1>. SUFFICES ASSUME IInv, ChangeObject PROVE IInv'
  OBVIOUS
<1>0. PICK o \in Object \cup {Gone} :
        object' = o /\ past' = IF o = Gone THEN past ELSE past \cup {o}
  BY DEF ChangeObject
<1>1. TypeOK'
  <2>1. changes' \in 0..MaxChanges
    BY DataSourcesAssumption DEF ChangeObject, IInv, TypeOK
  <2>2. past' \subseteq Object
    BY <1>0 DEF IInv, TypeOK
  <2>. QED
    BY <1>0, <2>1, <2>2 DEF ChangeObject, IInv, TypeOK
<1>2. past \subseteq past' /\ quiet' = FALSE
  BY DEF ChangeObject
<1>3. PastHasObject' /\ FoundIsThere' /\ AnswerIsTrue'
  BY DEF ChangeObject, IInv, PastHasObject, FoundIsThere, AnswerIsTrue
<1>4. ShownWasTrue' /\ CopyWasTrue'
  BY <1>2 DEF ChangeObject, IInv, ShownWasTrue, CopyWasTrue
<1>. QED
  BY <1>1, <1>3, <1>4 DEF IInv

LEMMA NextKeepsIInv == IInv /\ [Next]_vars => IInv'
<1>. SUFFICES ASSUME IInv, [Next]_vars PROVE IInv'
  OBVIOUS
<1>1. CASE UNCHANGED vars
  BY <1>1 DEF vars, IInv, TypeOK, PastHasObject, ShownWasTrue, FoundIsThere, AnswerIsTrue,
              Answered, CopyWasTrue, Says, Visible
<1>. QED
  BY <1>1, StartReadKeeps, ReadObjectKeeps, ReadAssociationsKeeps, FailReadKeeps, ApplyKeeps,
     ChangeObjectKeeps DEF Next

LEMMA IInvHolds == Spec => []IInv
BY InitIInv, NextKeepsIInv, PTL DEF Spec

-----------------------------------------------------------------------------

(* Every variable keeps its type: what a read shows of a limit is a        *)
(* number, unset, infinite or null, never another value of the wire.       *)
THEOREM TypeCorrect == Spec => []TypeOK
<1>1. IInv => TypeOK
  BY DEF IInv
<1>. QED
  BY IInvHolds, <1>1, PTL

(* The data sources' Read: an undisturbed answer without a warning says    *)
(* what Slurm has, but for a zero priority or grace time, and errors name  *)
(* the right cause.                                                        *)
THEOREM AnswersAreTrue == Spec => []AnswerIsTrue
<1>1. IInv => AnswerIsTrue
  BY DEF IInv
<1>. QED
  BY IInvHolds, <1>1, PTL

(* A resource that copies a data source's attributes never gets a value    *)
(* that the source never had, whatever fails or changes between the reads. *)
THEOREM CopiesAreTrue == Spec => []CopyWasTrue
<1>1. IInv => CopyWasTrue
  BY DEF IInv
<1>. QED
  BY IInvHolds, <1>1, PTL
=============================================================================
