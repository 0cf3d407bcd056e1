------------------------ MODULE AssociationDiffProofs ------------------------
(***************************************************************************)
(* Proofs about AssociationDiff: the diff is exact but for zero limits,    *)
(* and what an undisturbed apply or an empty plan reports is in force, for *)
(* any associations, QOS lists, TRES lists and weights.                    *)
(***************************************************************************)
EXTENDS AssociationDiff, FiniteSetTheorems, TLAPS

Association ==
  [key : Keys, shares : Nat \cup {Null}, qos : Seq(QosNames),
   tres : {s \in SUBSET Entry : IsFiniteSet(s)}]

-----------------------------------------------------------------------------
(* fairshare.go *)

\* The conversion is a round trip: the sentinel is "parent" and no number.
LEMMA SharesRoundTrip ==
  ASSUME NEW n \in Nat
  PROVE  /\ fairshareStringFromSharesRaw(n) \in Text
         /\ fairshareStringFromSharesRaw(n) # Null
         /\ sharesRawFromFairshare(fairshareStringFromSharesRaw(n)) = n
         /\ n <= Sentinel => ValidateString(fairshareStringFromSharesRaw(n))
<1>1. fairshareStringFromSharesRaw(n) \in Text
  BY DEF fairshareStringFromSharesRaw, Text, Parent
<1>2. fairshareStringFromSharesRaw(n) # Null
  BY <1>1, DiffAssumption
<1>. QED
  BY <1>1, <1>2, DiffAssumption
     DEF fairshareStringFromSharesRaw, sharesRawFromFairshare, ValidateString, Parent

LEMMA SharesTyped ==
  ASSUME NEW v \in Text \cup {Null}, ValidateString(v)
  PROVE  /\ sharesRawFromFairshare(v) \in Nat \cup {Null}
         /\ v # Null => sharesRawFromFairshare(v) \in 0..Sentinel
         /\ sharesRawFromFairshare(v) = Null <=> v = Null
BY DiffAssumption DEF sharesRawFromFairshare, ValidateString, Text

\* Valid strings with one shares_raw mean the same, and the other way round.
LEMMA SharesTellMeaning ==
  ASSUME NEW p \in Model, NEW m \in Model,
         ValidateString(p.fairshare), ValidateString(m.fairshare)
  PROVE  sharesRawFromFairshare(p.fairshare) = sharesRawFromFairshare(m.fairshare)
           <=> Meaning(p).shares = Meaning(m).shares
<1>1. p.fairshare \in Text \cup {Null} /\ m.fairshare \in Text \cup {Null}
  BY DEF Model
<1>2. Null \notin Nat /\ Null \notin Text /\ Sentinel \in Nat
  BY DiffAssumption
<1>3. \A n : [kind |-> "plain", n |-> n] # Parent
  BY DEF Parent
<1>4. Parent \in Text /\ \A n \in Nat : [kind |-> "plain", n |-> n] \in Text
  BY DEF Parent, Text
<1>. QED
  BY <1>1, <1>2, <1>3, <1>4 DEF Meaning, sharesRawFromFairshare, ValidateString, Text

-----------------------------------------------------------------------------
(* Lists and sets *)

LEMMA PositionsFinite ==
  ASSUME NEW a \in Seq(QosNames), NEW q
  PROVE  IsFiniteSet({i \in DOMAIN a : a[i] = q})
<1>1. DOMAIN a = 1..Len(a) /\ Len(a) \in Nat
  OBVIOUS
<1>2. IsFiniteSet(1..Len(a))
  BY <1>1, FS_Interval
<1>. QED
  BY <1>1, <1>2, FS_Subset

\* stringSlicesEqual: equal lists name the same.
LEMMA EqualListsNameTheSame ==
  ASSUME NEW a \in Seq(QosNames), NEW b \in Seq(QosNames), stringSlicesEqual(a, b)
  PROVE  Range(a) = Range(b)
<1> DEFINE at(s, q) == {i \in DOMAIN s : s[i] = q}
<1>1. \A q : IsFiniteSet(at(a, q)) /\ IsFiniteSet(at(b, q))
  BY PositionsFinite
<1>2. \A q \in Range(a) \cup Range(b) : Cardinality(at(a, q)) = Cardinality(at(b, q))
  BY DEF stringSlicesEqual
<1>3. \A q : (q \in Range(a) <=> at(a, q) # {}) /\ (q \in Range(b) <=> at(b, q) # {})
  BY DEF Range
<1> HIDE DEF at
<1>. QED
  BY <1>1, <1>2, <1>3, FS_EmptySet

\* Lists that name everything once are equal when they name the same.
LEMMA ListsWithoutRepeats ==
  ASSUME NEW a \in Seq(QosNames), NEW b \in Seq(QosNames),
         ~Repeats(a), ~Repeats(b), Range(a) = Range(b)
  PROVE  stringSlicesEqual(a, b)
<1> DEFINE at(s, q) == {i \in DOMAIN s : s[i] = q}
<1>1. ASSUME NEW s \in {a, b}, NEW q \in Range(s) PROVE Cardinality(at(s, q)) = 1
  <2>1. PICK i \in DOMAIN s : s[i] = q
    BY DEF Range
  <2>2. at(s, q) = {i}
    BY <1>1, <2>1 DEF Repeats
  <2> HIDE DEF at
  <2>. QED
    BY <2>2, FS_Singleton
<1>2. ASSUME NEW q \in Range(a) \cup Range(b) PROVE Cardinality(at(a, q)) = Cardinality(at(b, q))
  <2>1. q \in Range(a) /\ q \in Range(b)
    OBVIOUS
  <2>2. Cardinality(at(a, q)) = 1
    BY <1>1, <2>1
  <2>3. Cardinality(at(b, q)) = 1
    BY <1>1, <2>1
  <2>. QED
    BY <2>2, <2>3
<1>. QED
  BY <1>2 DEF stringSlicesEqual

\* tresSlicesEqual: without zero limits, equal lists are the same set.
LEMMA EqualLimitsAreTheSame ==
  ASSUME NEW a \in SUBSET Entry, NEW b \in SUBSET Entry, IsFiniteSet(a), IsFiniteSet(b),
         tresSlicesEqual(a, b), \A e \in b : e.count # 0
  PROVE  a = b
<1>1. ASSUME NEW e \in b PROVE e \in a
  <2> DEFINE named == {f \in a : f.type = e.type}
  <2>1. CountIn(a, e.type) = e.count /\ e.count # 0
    BY DEF tresSlicesEqual
  <2>2. named # {} /\ e.count = (CHOOSE f \in named : TRUE).count
    BY <2>1 DEF CountIn
  <2>3. PICK f \in named : f = (CHOOSE g \in named : TRUE)
    BY <2>2
  <2>4. f.count = e.count /\ f.type = e.type /\ f \in a
    BY <2>2, <2>3
  <2>5. f = e
    BY <2>4 DEF Entry
  <2>. QED
    BY <2>4, <2>5
<1>2. b \in SUBSET a /\ Cardinality(a) = Cardinality(b)
  BY <1>1 DEF tresSlicesEqual
<1>. QED
  BY <1>2, FS_Subset

\* The count of a type that a list names once.
LEMMA CountOfOne ==
  ASSUME NEW list \in SUBSET Entry, NEW e \in list,
         \A f \in list : f.type = e.type => f = e
  PROVE  CountIn(list, e.type) = e.count
<1> DEFINE named == {f \in list : f.type = e.type}
<1>1. named = {e}
  OBVIOUS
<1>2. (CHOOSE f \in named : TRUE) = e
  BY <1>1
<1>. QED
  BY <1>1, <1>2 DEF CountIn

\* Lists of one limit for each type are equal when they are the same set.
LEMMA LimitsWithoutTwins ==
  ASSUME NEW a \in SUBSET Entry, \A e, f \in a : e.type = f.type => e = f
  PROVE  tresSlicesEqual(a, a)
<1>1. \A e \in a : CountIn(a, e.type) = e.count
  BY CountOfOne
<1>. QED
  BY <1>1 DEF tresSlicesEqual

LEMMA EmptyList == <<>> \in Seq(QosNames) /\ Range(<<>>) = {} /\ ~Repeats(<<>>)
<1>1. DOMAIN <<>> = {}
  OBVIOUS
<1>. QED
  BY <1>1 DEF Range, Repeats

-----------------------------------------------------------------------------
(* Blocks and associations *)

ValidModel == {m \in Model : ValidateString(m.fairshare)}

LEMMA ExtractTyped ==
  ASSUME NEW m \in ValidModel
  PROVE  /\ extractAssociation(m) \in Association
         /\ extractAssociation(m).key = m.key
         /\ extractAssociation(m).shares \in 0..Sentinel \cup {Null}
<1>1. /\ m.key \in Keys /\ m.fairshare \in Text \cup {Null}
      /\ m.allowed_qos \in Seq(QosNames) \cup {Null}
      /\ m.max_tres \in {s \in SUBSET Entry : IsFiniteSet(s)} \cup {Null}
      /\ ValidateString(m.fairshare)
  BY DEF ValidModel, Model
<1>2. /\ sharesRawFromFairshare(m.fairshare) \in Nat \cup {Null}
      /\ sharesRawFromFairshare(m.fairshare) \in 0..Sentinel \cup {Null}
  BY <1>1, SharesTyped
<1>3. (IF m.allowed_qos = Null THEN <<>> ELSE m.allowed_qos) \in Seq(QosNames)
  BY <1>1, EmptyList
<1>4. (IF m.max_tres = Null THEN {} ELSE m.max_tres) \in {s \in SUBSET Entry : IsFiniteSet(s)}
  BY <1>1, FS_EmptySet
<1>. QED
  BY <1>1, <1>2, <1>3, <1>4 DEF extractAssociation, Association

LEMMA KeysExtracted ==
  ASSUME NEW ms \in SUBSET ValidModel
  PROVE  /\ KeysOf(extractAssociations(ms)) = KeysOf(ms)
         /\ KeysOf(ms) \subseteq Keys
BY ExtractTyped DEF KeysOf, extractAssociations, ValidModel, Model

\* buildAssociationMap: each key leads to an association of the list.
LEMMA MapOfList ==
  ASSUME NEW list
  PROVE  /\ DOMAIN buildAssociationMap(list) = KeysOf(list)
         /\ \A k \in KeysOf(list) : /\ buildAssociationMap(list)[k] \in list
                                     /\ buildAssociationMap(list)[k].key = k
<1>1. ASSUME NEW k \in KeysOf(list)
      PROVE  \E a \in list : a.key = k
  BY DEF KeysOf
<1>. QED
  BY <1>1 DEF buildAssociationMap

LEMMA MapOfBlocks ==
  ASSUME NEW ms \in SUBSET ValidModel, NEW k \in KeysOf(ms)
  PROVE  \E m \in ms : /\ m.key = k
                       /\ buildAssociationMap(extractAssociations(ms))[k] = extractAssociation(m)
<1> DEFINE a == buildAssociationMap(extractAssociations(ms))[k]
<1>1. a \in extractAssociations(ms) /\ a.key = k
  BY MapOfList, KeysExtracted
<1>2. PICK m \in ms : a = extractAssociation(m)
  BY <1>1 DEF extractAssociations
<1>3. m.key = k
  BY <1>1, <1>2, ExtractTyped
<1>. QED
  BY <1>2, <1>3

\* Associations that are equal, without a zero limit, mean the same.
LEMMA EqualMeansTheSame ==
  ASSUME NEW p \in ValidModel, NEW m \in ValidModel, p.key = m.key, ~HasZero(m),
         associationsEqual(extractAssociation(p), extractAssociation(m))
  PROVE  Meaning(p) = Meaning(m)
<1> DEFINE a == extractAssociation(p)
           b == extractAssociation(m)
<1>1. a \in Association /\ b \in Association
  BY ExtractTyped
<1>2. Meaning(p).shares = Meaning(m).shares
  BY SharesTellMeaning DEF associationsEqual, extractAssociation, ValidModel
<1>3. Range(a.qos) = Range(b.qos)
  BY <1>1, EqualListsNameTheSame DEF associationsEqual, Association
<1>4. \A e \in b.tres : e.count # 0
  BY DEF extractAssociation, HasZero
<1>5. a.tres = b.tres
  BY <1>1, <1>4, EqualLimitsAreTheSame DEF associationsEqual, Association
<1>6. Meaning(p).qos = Range(a.qos) /\ Meaning(m).qos = Range(b.qos)
  BY EmptyList DEF Meaning, extractAssociation
<1>7. Meaning(p).tres = a.tres /\ Meaning(m).tres = b.tres
  BY DEF Meaning, extractAssociation
<1>. QED
  BY <1>2, <1>3, <1>5, <1>6, <1>7 DEF Meaning

\* Blocks that mean the same, each QOS and each TRES type once, are equal.
LEMMA SameMeaningIsEqual ==
  ASSUME NEW p \in ValidModel, NEW m \in ValidModel, Meaning(p) = Meaning(m),
         p.allowed_qos # Null => ~Repeats(p.allowed_qos),
         m.allowed_qos # Null => ~Repeats(m.allowed_qos), ~HasTwins(m)
  PROVE  associationsEqual(extractAssociation(p), extractAssociation(m))
<1> DEFINE a == extractAssociation(p)
           b == extractAssociation(m)
<1>1. a \in Association /\ b \in Association
  BY ExtractTyped
<1>2. a.shares = b.shares
  BY SharesTellMeaning DEF extractAssociation, ValidModel
<1>3. Meaning(p).qos = Range(a.qos) /\ Meaning(m).qos = Range(b.qos)
  BY EmptyList DEF Meaning, extractAssociation
<1>4. Meaning(p).tres = a.tres /\ Meaning(m).tres = b.tres
  BY DEF Meaning, extractAssociation
<1>5. ~Repeats(a.qos) /\ ~Repeats(b.qos)
  BY EmptyList DEF extractAssociation
<1>6. stringSlicesEqual(a.qos, b.qos)
  BY <1>1, <1>3, <1>5, ListsWithoutRepeats DEF Association
<1>7. \A e, f \in b.tres : e.type = f.type => e = f
  BY DEF extractAssociation, HasTwins
<1>8. tresSlicesEqual(a.tres, b.tres)
  BY <1>1, <1>4, <1>7, LimitsWithoutTwins DEF Association
<1>. QED
  BY <1>2, <1>6, <1>8 DEF associationsEqual

-----------------------------------------------------------------------------
(* slurmdbd *)

\* A weight that Read can turn into a valid string.
Sound(row) == row # NoRow => row \in Row /\ row.shares \in 0..Sentinel

\* The row has what the association carries.
Carries(row, a) ==
  /\ a.shares # Null => row.shares = a.shares
  /\ a.qos # <<>> => row.qos = Range(a.qos)
  /\ \A t \in TresTypes : Named(a.tres, t) => row.tres[t] = CountIn(a.tres, t)

LEMMA CountTyped ==
  ASSUME NEW list \in SUBSET Entry, NEW t, Named(list, t)
  PROVE  CountIn(list, t) \in Counts
<1> DEFINE named == {e \in list : e.type = t}
<1>1. named # {} /\ \A e \in named : e.count \in Counts
  BY DEF Named, Entry
<1>2. (CHOOSE e \in named : TRUE) \in named
  BY <1>1
<1>. QED
  BY <1>1, <1>2 DEF CountIn

LEMMA PostedNothing ==
  ASSUME NEW row, NEW r \in Posted(row, {})
  PROVE  r = row
BY DEF Posted

\* A post of associations leaves a sound row that carries one of them.
LEMMA PostedRow ==
  ASSUME NEW row, Sound(row), NEW list \in SUBSET Association, list # {},
         \A a \in list : a.shares \in 0..Sentinel \cup {Null},
         NEW r \in Posted(row, list)
  PROVE  r \in Row /\ r # NoRow /\ Sound(r) /\ \E a \in list : Carries(r, a)
<1> DEFINE old == IF row = NoRow THEN Default ELSE row
<1>1. PICK a \in list : r \in WithLast(row, list, a)
  BY DEF Posted
<1> DEFINE earlier(values, kept) == IF values = {} THEN {kept} ELSE values
           shares == IF a.shares # Null THEN {a.shares}
                     ELSE earlier({e.shares : e \in list} \ {Null}, old.shares)
           qos == IF a.qos # <<>> THEN {Range(a.qos)}
                  ELSE earlier({Range(e.qos) : e \in {e \in list : e.qos # <<>>}}, old.qos)
           count(t) == IF Named(a.tres, t) THEN {CountIn(a.tres, t)}
                       ELSE earlier({CountIn(e.tres, t) : e \in {e \in list : Named(e.tres, t)}},
                                    old.tres[t])
                            \cup (IF a.tres = {} THEN {} ELSE {Null})
           tres == {f \in [TresTypes -> Counts \cup {Null}] :
                      \A t \in TresTypes : f[t] \in count(t)}
<1>2. PICK s \in shares, q \in qos, f \in tres : r = [shares |-> s, qos |-> q, tres |-> f]
  <2>1. WithLast(row, list, a) =
          {[shares |-> s, qos |-> q, tres |-> f] : s \in shares, q \in qos, f \in tres}
    BY DEF WithLast
  <2> HIDE DEF shares, qos, tres
  <2>. QED
    BY <1>1, <2>1
<1>3. old \in Row /\ old.shares \in 0..Sentinel
  BY DiffAssumption DEF Sound, Default, Row
<1>4. \A e \in list : Range(e.qos) \in SUBSET QosNames
  BY DEF Association, Range
<1>5. s \in 0..Sentinel
  BY <1>3
<1>6. q \in SUBSET QosNames
  BY <1>3, <1>4 DEF Row
<1>7. f \in [TresTypes -> Counts \cup {Null}]
  OBVIOUS
<1>8. r \in Row /\ r.shares \in 0..Sentinel
  BY <1>2, <1>5, <1>6, <1>7, DiffAssumption DEF Row
<1>9. Carries(r, a)
  BY <1>2 DEF Carries
<1>. QED
  BY <1>8, <1>9, DiffAssumption DEF Sound

\* A row that carries what a block says holds the block.
LEMMA CarriedIsHeld ==
  ASSUME NEW m \in ValidModel, NEW r \in Row, r # NoRow, Carries(r, extractAssociation(m))
  PROVE  Holds(r, m)
<1> DEFINE a == extractAssociation(m)
<1>1. m.fairshare # Null => r.shares = sharesRawFromFairshare(m.fairshare)
  <2>1. m.fairshare # Null => a.shares # Null
    BY SharesTyped DEF ValidModel, Model, extractAssociation
  <2>. QED
    BY <2>1 DEF Carries, extractAssociation
<1>2. m.allowed_qos \notin {Null, <<>>} => r.qos = Range(m.allowed_qos)
  BY DEF Carries, extractAssociation
<1>3. ASSUME m.max_tres # Null, ~HasTwins(m), NEW e \in m.max_tres
      PROVE  e \in ShownTres(r)
  <2>1. m.max_tres \in SUBSET Entry /\ a.tres = m.max_tres
    BY <1>3 DEF ValidModel, Model, extractAssociation
  <2>2. e \in Entry /\ e.type \in TresTypes /\ e.count \in Counts
    BY <1>3, <2>1 DEF Entry
  <2>3. CountIn(m.max_tres, e.type) = e.count
    BY <1>3, <2>1, CountOfOne DEF HasTwins
  <2>4. r.tres[e.type] = e.count
    BY <1>3, <2>1, <2>2, <2>3 DEF Carries, Named
  <2>5. r.tres[e.type] # Null /\ e = [type |-> e.type, count |-> r.tres[e.type]]
    BY <2>2, <2>4, DiffAssumption DEF Entry
  <2>. QED
    BY <2>2, <2>5 DEF ShownTres
<1>. QED
  BY <1>1, <1>2, <1>3 DEF Holds

\* ... and so does one that holds a block that the diff finds equal.
LEMMA EqualIsHeld ==
  ASSUME NEW p \in ValidModel, NEW m \in ValidModel, ~HasZero(m),
         associationsEqual(extractAssociation(p), extractAssociation(m)),
         NEW r, Holds(r, p)
  PROVE  Holds(r, m)
<1> DEFINE a == extractAssociation(p)
           b == extractAssociation(m)
<1>1. a \in Association /\ b \in Association
  BY ExtractTyped
<1>2. m.fairshare # Null => r.shares = sharesRawFromFairshare(m.fairshare)
  <2>1. sharesRawFromFairshare(p.fairshare) = sharesRawFromFairshare(m.fairshare)
    BY DEF associationsEqual, extractAssociation
  <2>2. m.fairshare # Null => p.fairshare # Null
    BY <2>1, SharesTyped DEF ValidModel, Model
  <2>. QED
    BY <2>1, <2>2 DEF Holds
<1>3. m.allowed_qos \notin {Null, <<>>} => r.qos = Range(m.allowed_qos)
  <2>1. Range(a.qos) = Range(b.qos)
    BY <1>1, EqualListsNameTheSame DEF associationsEqual, Association
  <2>2. ASSUME m.allowed_qos \notin {Null, <<>>} PROVE Range(b.qos) # {}
    <3>1. b.qos \in Seq(QosNames) /\ b.qos # <<>>
      BY <1>1, <2>2 DEF extractAssociation, Association
    <3>2. 1 \in DOMAIN b.qos
      BY <3>1
    <3>. QED
      BY <3>2 DEF Range
  <2>3. ASSUME m.allowed_qos \notin {Null, <<>>} PROVE p.allowed_qos \notin {Null, <<>>}
    BY <2>1, <2>2, <2>3, EmptyList DEF extractAssociation
  <2>. QED
    BY <2>1, <2>3 DEF Holds, extractAssociation
<1>4. m.max_tres # Null /\ ~HasTwins(m) => m.max_tres \subseteq ShownTres(r)
  <2>1. \A e \in b.tres : e.count # 0
    BY DEF extractAssociation, HasZero
  <2>2. a.tres = b.tres
    BY <1>1, <2>1, EqualLimitsAreTheSame DEF associationsEqual, Association
  <2>. QED
    BY <2>2 DEF Holds, extractAssociation, HasTwins
<1>. QED
  BY <1>2, <1>3, <1>4 DEF Holds

\* What a post leaves: the rows that its list does not name stay.
LEMMA RowsAfter ==
  ASSUME NEW old, NEW list, NEW rs \in PostedAll(old, list)
  PROVE  /\ rs = [k \in Keys |-> rs[k]]
         /\ \A k \in Keys : IF k \in KeysOf(list)
                            THEN rs[k] \in Posted(old[k], {a \in list : a.key = k})
                            ELSE rs[k] = old[k]
<1> DEFINE named == KeysOf(list)
           outcomes == [k \in named |-> Posted(old[k], {a \in list : a.key = k})]
<1>1. PICK f \in [named -> UNION Range(outcomes)] :
        /\ \A k \in named : f[k] \in outcomes[k]
        /\ rs = [k \in Keys |-> IF k \in named THEN f[k] ELSE old[k]]
  BY DEF PostedAll
<1>2. \A k \in named : f[k] \in Posted(old[k], {a \in list : a.key = k})
  BY <1>1
<1> HIDE DEF named
<1>3. \A k \in Keys : rs[k] = IF k \in named THEN f[k] ELSE old[k]
  BY <1>1
<1>. QED
  BY <1>1, <1>2, <1>3 DEF named

-----------------------------------------------------------------------------
(* Read *)

LEMMA ShownTyped ==
  ASSUME NEW row \in Row
  PROVE  ShownTres(row) \in SUBSET Entry /\ IsFiniteSet(ShownTres(row))
<1> DEFINE S == ShownTres(row)
           type == [e \in S |-> e.type]
<1>1. \A t \in TresTypes : row.tres[t] \in Counts \cup {Null} /\ AccountTres[t] \in Counts \cup {Null}
  BY DiffAssumption DEF Row
<1>2. S \in SUBSET Entry
  BY <1>1 DEF ShownTres, Entry
<1>3. \A e, f \in S : e.type = f.type => e = f
  BY DEF ShownTres
<1>4. type \in [S -> TresTypes]
  BY <1>2 DEF Entry
<1>5. type \in Injection(S, TresTypes)
  BY <1>3, <1>4 DEF Injection, IsInjective
<1>. QED
  BY <1>2, <1>5, FS_Injection, DiffAssumption

\* What Read makes of a row is a valid block that the row holds.
ReadBack(m, k, row) ==
  /\ m \in ValidModel /\ m.key = k
  /\ m.allowed_qos # Null => ~Repeats(m.allowed_qos)
  /\ Holds(row, m)

LEMMA PriorIsReadBack ==
  ASSUME NEW row \in Row, row # NoRow, Sound(row), NEW prior \in ValidModel
  PROVE  ReadBack(ReadPrior(row, prior), prior.key, row)
<1> DEFINE m == ReadPrior(row, prior)
<1>1. row.shares \in Nat /\ row.shares <= Sentinel
  BY DiffAssumption DEF Sound
<1>2. /\ m.fairshare \in Text \cup {Null} /\ ValidateString(m.fairshare)
      /\ m.fairshare # Null => row.shares = sharesRawFromFairshare(m.fairshare)
  BY <1>1, SharesRoundTrip DEF ReadPrior, ValidateString
<1>3. row.qos \in SUBSET QosNames
  BY DEF Row
<1>4. /\ m.allowed_qos \in Seq(QosNames) \cup {Null}
      /\ m.allowed_qos # Null => ~Repeats(m.allowed_qos) /\ row.qos = Range(m.allowed_qos)
  BY <1>3, DiffAssumption DEF ReadPrior
<1>5. /\ m.max_tres \in {s \in SUBSET Entry : IsFiniteSet(s)} \cup {Null}
      /\ m.max_tres # Null => m.max_tres = ShownTres(row)
  BY ShownTyped DEF ReadPrior
<1>6. m.key = prior.key /\ prior.key \in Keys
  BY DEF ReadPrior, ValidModel, Model
<1>7. m \in Model
  BY <1>2, <1>4, <1>5, <1>6 DEF ReadPrior, Model
<1>. QED
  BY <1>2, <1>4, <1>5, <1>6, <1>7 DEF ReadBack, ValidModel, Holds

LEMMA NewIsReadBack ==
  ASSUME NEW row \in Row, row # NoRow, Sound(row), NEW k \in Keys
  PROVE  ReadBack(ReadNew(k, row), k, row)
<1> DEFINE m == ReadNew(k, row)
<1>1. row.shares \in Nat /\ row.shares <= Sentinel
  BY DiffAssumption DEF Sound
<1>2. /\ m.fairshare \in Text \cup {Null} /\ ValidateString(m.fairshare)
      /\ m.fairshare # Null => row.shares = sharesRawFromFairshare(m.fairshare)
  BY <1>1, SharesRoundTrip DEF ReadNew, ValidateString
<1>3. m.allowed_qos = Null /\ m.key = k
  BY DEF ReadNew
<1>4. /\ m.max_tres \in {s \in SUBSET Entry : IsFiniteSet(s)} \cup {Null}
      /\ m.max_tres # Null => m.max_tres = ShownTres(row)
  BY ShownTyped DEF ReadNew
<1>5. m \in Model
  BY <1>2, <1>3, <1>4 DEF ReadNew, Model
<1>. QED
  BY <1>2, <1>3, <1>4, <1>5 DEF ReadBack, ValidModel, Holds

-----------------------------------------------------------------------------
(* The invariant *)

\* The state after an undisturbed refresh: one block for each association,
\* which holds it.
StateIsRefreshed ==
  /\ \A p, m \in state : p.key = m.key => p = m
  /\ \A p \in state : p.allowed_qos # Null => ~Repeats(p.allowed_qos)
  /\ quiet => /\ Present = KeysOf(state)
              /\ \A p \in state : Holds(rows[p.key], p)

\* The declared associations are in force, but for what DeclaredIsInForce excuses
\* after an update.
ConfigHeld ==
  \A k \in KeysOf(config) : \E p \in config :
    /\ p.key = k
    /\ \/ Holds(rows[k], p)
       \/ HasZero(p) /\ k \in Present
       \/ UnscopedDelete = "all" /\ k \notin Unscoped \cup Present

\* While the delete loop runs, only what it still has to delete is in the way.
DeletesLeft ==
  /\ created /\ todo \cap KeysOf(config) = {}
  /\ quiet => /\ Present \subseteq KeysOf(config) \cup todo
              /\ UnscopedDelete = "refuse" => todo \subseteq Present
              /\ ConfigHeld

IInv ==
  /\ TypeOK
  /\ \A k \in Keys : Sound(rows[k])
  /\ pc # "idle" => Valid
  /\ ~created => \A k \in Keys : rows[k] = NoRow
  /\ pc = "planned" /\ created => StateIsRefreshed
  /\ pc = "deleting" => DeletesLeft
  /\ DeclaredIsInForce

LEMMA ConfigIsValid ==
  ASSUME TypeOK, Valid
  PROVE  config \in SUBSET ValidModel
BY DiffAssumption DEF TypeOK, Valid, ValidModel

LEMMA StateIsValid ==
  ASSUME TypeOK
  PROVE  state \in SUBSET ValidModel
BY DEF TypeOK, ValidModel

\* A refresh has one block for each row, read back from it.
LEMMA RefreshReadsBack ==
  ASSUME TypeOK, \A k \in Keys : Sound(rows[k])
  PROVE  /\ Refreshed \in SUBSET ValidModel
         /\ KeysOf(Refreshed) = Present
         /\ \A p \in Refreshed : ReadBack(p, p.key, rows[p.key])
         /\ \A p, m \in Refreshed : p.key = m.key => p = m
<1> DEFINE priors == buildAssociationMap(state)
           read(k) == IF k \in DOMAIN priors THEN ReadPrior(rows[k], priors[k]) ELSE ReadNew(k, rows[k])
<1>1. Refreshed = {read(k) : k \in Present}
  BY DEF Refreshed, Present
<1>2. ASSUME NEW k \in Present PROVE ReadBack(read(k), k, rows[k])
  <2>1. k \in Keys /\ rows[k] \in Row /\ rows[k] # NoRow /\ Sound(rows[k])
    BY <1>2 DEF Present, TypeOK
  <2>2. CASE k \in DOMAIN priors
    <3>1. priors[k] \in ValidModel /\ priors[k].key = k
      BY <2>2, MapOfList, StateIsValid
    <3>2. ReadBack(ReadPrior(rows[k], priors[k]), priors[k].key, rows[k])
      BY <2>1, <3>1, PriorIsReadBack
    <3>. QED
      BY <2>2, <3>1, <3>2
  <2>3. CASE k \notin DOMAIN priors
    <3>1. ReadBack(ReadNew(k, rows[k]), k, rows[k])
      BY <2>1, NewIsReadBack
    <3>. QED
      BY <2>3, <3>1
  <2>. QED
    BY <2>2, <2>3
<1>3. \A k \in Present : read(k) \in ValidModel /\ read(k).key = k
  BY <1>2 DEF ReadBack
<1> HIDE DEF read, priors
<1>4. Refreshed \in SUBSET ValidModel
  BY <1>1, <1>3
<1>5. KeysOf(Refreshed) = Present
  BY <1>1, <1>3 DEF KeysOf
<1>6. \A p \in Refreshed : p.key \in Present /\ p = read(p.key)
  BY <1>1, <1>3
<1>. QED
  BY <1>2, <1>4, <1>5, <1>6

-----------------------------------------------------------------------------
(* The diff of a planned update *)

\* What the diff makes of one key.
LEMMA DiffOfKey ==
  ASSUME NEW old \in SUBSET ValidModel, NEW new \in SUBSET ValidModel
  PROVE  LET diff == DiffAssociations(extractAssociations(old), extractAssociations(new))
             sent == diff.create \cup diff.update
             o == buildAssociationMap(extractAssociations(old))
             n == buildAssociationMap(extractAssociations(new))
         IN /\ diff.delete = KeysOf(old) \ KeysOf(new)
            /\ \A a \in sent : a.key \in KeysOf(new) /\ a = n[a.key]
            /\ \A k \in KeysOf(new) :
                 n[k] \in sent <=> (k \notin KeysOf(old) \/ ~associationsEqual(o[k], n[k]))
<1> DEFINE o == buildAssociationMap(extractAssociations(old))
           n == buildAssociationMap(extractAssociations(new))
           updated == {k \in KeysOf(new) \cap KeysOf(old) : ~associationsEqual(o[k], n[k])}
           sent == {n[k] : k \in KeysOf(new) \ KeysOf(old)} \cup {n[k] : k \in updated}
<1>1. DOMAIN o = KeysOf(old) /\ DOMAIN n = KeysOf(new)
  BY MapOfList, KeysExtracted
<1>2. \A k \in KeysOf(new) : n[k].key = k
  BY MapOfList, KeysExtracted
<1>3. DiffAssociations(extractAssociations(old), extractAssociations(new)) =
        [create |-> {n[k] : k \in KeysOf(new) \ KeysOf(old)},
         update |-> {n[k] : k \in updated}, delete |-> KeysOf(old) \ KeysOf(new)]
  BY <1>1 DEF DiffAssociations
<1> HIDE DEF o, n
<1>4. \A a \in sent : a.key \in KeysOf(new) /\ a = n[a.key]
  BY <1>2
<1>5. \A k \in KeysOf(new) : n[k] \in sent <=> (k \notin KeysOf(old) \/ ~associationsEqual(o[k], n[k]))
  BY <1>2
<1>. QED
  BY <1>3, <1>4, <1>5 DEF o, n

\* The diff of a refreshed state acts on exactly the difference in meaning.
LEMMA PlannedDiffIsExact ==
  ASSUME IInv
  PROVE  DiffIsExact
<1> SUFFICES ASSUME pc = "planned", created
             PROVE  LET diff == Diff
                        sent == diff.create \cup diff.update
                        changed == {m \in config :
                                      \/ HasTwins(m)
                                      \/ m.allowed_qos # Null /\ Repeats(m.allowed_qos)
                                      \/ ~\E p \in state : p.key = m.key /\ Meaning(p) = Meaning(m)}
                    IN /\ IsEmpty(diff) => SameMeaning(state, config) \/ \E m \in config : HasZero(m)
                       /\ KeysOf(sent) \subseteq {m.key : m \in changed}
                       /\ \A a, b \in sent : a.key = b.key => a = b
                       /\ KeysOf(sent) \cap diff.delete = {}
  BY DEF DiffIsExact
<1> DEFINE diff == Diff
           sent == diff.create \cup diff.update
           o == buildAssociationMap(extractAssociations(state))
           n == buildAssociationMap(extractAssociations(config))
           changed == {m \in config :
                         \/ HasTwins(m)
                         \/ m.allowed_qos # Null /\ Repeats(m.allowed_qos)
                         \/ ~\E p \in state : p.key = m.key /\ Meaning(p) = Meaning(m)}
<1>1. state \in SUBSET ValidModel /\ config \in SUBSET ValidModel
  BY StateIsValid, ConfigIsValid DEF IInv
<1>2. /\ diff.delete = KeysOf(state) \ KeysOf(config)
      /\ \A a \in sent : a.key \in KeysOf(config) /\ a = n[a.key]
      /\ \A k \in KeysOf(config) :
           n[k] \in sent <=> (k \notin KeysOf(state) \/ ~associationsEqual(o[k], n[k]))
  BY <1>1, DiffOfKey DEF Diff
<1>3. StateIsRefreshed
  BY DEF IInv
<1>4. \A k \in KeysOf(state) : \E p \in state : p.key = k /\ o[k] = extractAssociation(p)
  BY <1>1, MapOfBlocks
<1>5. \A k \in KeysOf(config) : \E m \in config : m.key = k /\ n[k] = extractAssociation(m)
  BY <1>1, MapOfBlocks
<1> HIDE DEF o, n, diff
<1>6. ASSUME IsEmpty(diff), \A m \in config : ~HasZero(m)
      PROVE  SameMeaning(state, config)
  <2>1. sent = {} /\ diff.delete = {}
    BY <1>6 DEF IsEmpty
  <2>2. KeysOf(state) = KeysOf(config)
    BY <1>2, <2>1
  <2>3. ASSUME NEW k \in KeysOf(config)
        PROVE  \E p \in state, m \in config : p.key = k /\ m.key = k /\ Meaning(p) = Meaning(m)
    <3>1. associationsEqual(o[k], n[k])
      BY <1>2, <2>1
    <3>2. PICK p \in state : p.key = k /\ o[k] = extractAssociation(p)
      BY <1>4, <2>2
    <3>3. PICK m \in config : m.key = k /\ n[k] = extractAssociation(m)
      BY <1>5
    <3>4. Meaning(p) = Meaning(m)
      BY <1>1, <1>6, <3>1, <3>2, <3>3, EqualMeansTheSame
    <3>. QED
      BY <3>2, <3>3, <3>4
  <2>. QED
    BY <2>2, <2>3 DEF SameMeaning
<1>7. ASSUME NEW a \in sent
      PROVE  \E m \in changed : m.key = a.key
  <2>1. a.key \in KeysOf(config) /\ a = n[a.key]
    BY <1>2
  <2>2. PICK m \in config : m.key = a.key /\ a = extractAssociation(m)
    BY <1>5, <2>1
  <2>3. ASSUME m \notin changed PROVE FALSE
    <3>1. PICK p \in state : p.key = m.key /\ Meaning(p) = Meaning(m)
      BY <2>3
    <3>2. a.key \in KeysOf(state)
      BY <2>2, <3>1 DEF KeysOf
    <3>3. o[a.key] = extractAssociation(p)
      BY <1>3, <1>4, <2>2, <3>1, <3>2 DEF StateIsRefreshed
    <3>4. /\ p.allowed_qos # Null => ~Repeats(p.allowed_qos)
          /\ m.allowed_qos # Null => ~Repeats(m.allowed_qos)
          /\ ~HasTwins(m)
      BY <1>3, <2>3 DEF StateIsRefreshed
    <3>5. associationsEqual(extractAssociation(p), extractAssociation(m))
      BY <1>1, <3>1, <3>4, SameMeaningIsEqual
    <3>. QED
      BY <1>2, <2>1, <2>2, <3>2, <3>3, <3>5
  <2>. QED
    BY <2>2, <2>3
<1>8. KeysOf(sent) \subseteq {m.key : m \in changed}
  BY <1>7 DEF KeysOf
<1>9. \A a, b \in sent : a.key = b.key => a = b
  BY <1>2
<1>10. KeysOf(sent) \cap diff.delete = {}
  BY <1>2 DEF KeysOf
<1>. QED
  BY <1>6, <1>8, <1>9, <1>10 DEF diff

-----------------------------------------------------------------------------
(* The diff that UserResource abstracts from *)

\* What the blocks of a user are in UserResource: keys told apart by account
\* and partition, a list declared empty, no association.
CONSTANTS Accounts, Partitions, NoPartition, EmptyDeclared, NoAssoc

Attributes == {"fairshare", "allowed_qos", "max_tres"}

\* Only the operators on association maps are used: the variables, and the
\* constants of the user row, stand for nothing here.
User == INSTANCE UserResource WITH
  Fields <- Attributes, EmptyList <- EmptyDeclared, NoUser <- NoRow,
  Values <- UNION {{Meaning(m).shares, Meaning(m).qos, Meaning(m).tres} : m \in Model} \ {Null, {}},
  AdminLevels <- {"None"}, NoneLevel <- "None", WCKeys <- {}, WCKeyReadable <- FALSE,
  Inherited <- [f \in Attributes |-> Null], ImportHides <- [f \in Attributes |-> {}],
  UnscopedDelete <- "exact", QosDenied <- [k \in Keys |-> {}], Configs <- {}, MaxFaults <- 0,
  srv <- rows, plan <- config, seen <- state, todo <- {}, foreign <- FALSE, faults <- 0

\* A list attribute: absent, declared empty, or a value.
ListAttribute(declared, meaning) ==
  IF declared = Null THEN Null ELSE IF meaning = {} THEN EmptyDeclared ELSE meaning

AttributesOf(m) ==
  [f \in Attributes |->
     IF f = "fairshare" THEN Meaning(m).shares
     ELSE IF f = "allowed_qos" THEN ListAttribute(m.allowed_qos, Meaning(m).qos)
     ELSE ListAttribute(m.max_tres, Meaning(m).tres)]

\* The association map of blocks that have one key each.
AssociationMap(ms) ==
  [k \in Keys |-> IF k \in KeysOf(ms) THEN AttributesOf(CHOOSE m \in ms : m.key = k) ELSE NoAssoc]

OneOfEachKey(ms) == \A m, p \in ms : m.key = p.key => m = p

\* Names a QOS at most once; and also neither a limit of zero nor a type twice.
NoRepeats(m) == m.allowed_qos # Null => ~Repeats(m.allowed_qos)
Plain(m) == NoRepeats(m) /\ ~HasZero(m) /\ ~HasTwins(m)

\* The model values are no attribute values.
ToldApart ==
  /\ {Null, EmptyDeclared} \cap (SUBSET QosNames \cup SUBSET Entry) = {}
  /\ EmptyDeclared \notin Text \cup {Null}
  /\ \A m \in Model : AttributesOf(m) # NoAssoc

LEMMA MeaningTyped ==
  ASSUME NEW m \in Model
  PROVE  /\ Meaning(m).shares \in Text \cup {Null}
         /\ Meaning(m).qos \in SUBSET QosNames /\ Meaning(m).tres \in SUBSET Entry
         /\ m.allowed_qos = Null => Meaning(m).qos = {}
         /\ m.max_tres = Null => Meaning(m).tres = {}
<1>1. m.fairshare \in Text \cup {Null} /\ m.allowed_qos \in Seq(QosNames) \cup {Null}
      /\ m.max_tres \in {s \in SUBSET Entry : IsFiniteSet(s)} \cup {Null}
  BY DEF Model
<1>2. Meaning(m).shares \in Text \cup {Null}
  BY <1>1 DEF Meaning, Text, Parent
<1>3. m.allowed_qos # Null => Range(m.allowed_qos) \in SUBSET QosNames
  BY <1>1 DEF Range
<1> QED BY <1>1, <1>2, <1>3 DEF Meaning

\* An absent list and an empty one compare as the same.
LEMMA ListAttributesCompare ==
  ASSUME NEW s, NEW t, {s, t} \cap {Null, EmptyDeclared} = {},
         NEW v, NEW w, v = Null => s = {}, w = Null => t = {}
  PROVE  User!Wire(ListAttribute(v, s)) = User!Wire(ListAttribute(w, t)) <=> s = t
<1>1. User!Wire(ListAttribute(v, s)) = IF s = {} THEN Null ELSE s
  BY DEF ListAttribute, User!Wire
<1>2. User!Wire(ListAttribute(w, t)) = IF t = {} THEN Null ELSE t
  BY DEF ListAttribute, User!Wire
<1> QED BY <1>1, <1>2

\* Blocks whose attributes the abstract comparison finds equal mean the same.
LEMMA AbstractlyEqual ==
  ASSUME ToldApart, NEW p \in Model, NEW m \in Model, p.key = m.key
  PROVE  User!AssociationsEqual(AttributesOf(p), AttributesOf(m)) <=> Meaning(p) = Meaning(m)
<1> DEFINE a == AttributesOf(p)
           b == AttributesOf(m)
<1>1. /\ Meaning(p).shares \in Text \cup {Null} /\ Meaning(m).shares \in Text \cup {Null}
      /\ Meaning(p).qos \in SUBSET QosNames /\ Meaning(m).qos \in SUBSET QosNames
      /\ Meaning(p).tres \in SUBSET Entry /\ Meaning(m).tres \in SUBSET Entry
      /\ p.allowed_qos = Null => Meaning(p).qos = {}
      /\ m.allowed_qos = Null => Meaning(m).qos = {}
      /\ p.max_tres = Null => Meaning(p).tres = {}
      /\ m.max_tres = Null => Meaning(m).tres = {}
  BY MeaningTyped
<1>2. /\ {Meaning(p).qos, Meaning(m).qos} \cap {Null, EmptyDeclared} = {}
      /\ {Meaning(p).tres, Meaning(m).tres} \cap {Null, EmptyDeclared} = {}
  BY <1>1 DEF ToldApart
<1>3. User!Wire(a["fairshare"]) = User!Wire(b["fairshare"]) <=> Meaning(p).shares = Meaning(m).shares
  BY <1>1 DEF ToldApart, AttributesOf, Attributes, User!Wire
<1>4. User!Wire(a["allowed_qos"]) = User!Wire(b["allowed_qos"]) <=> Meaning(p).qos = Meaning(m).qos
  <2>1. a["allowed_qos"] = ListAttribute(p.allowed_qos, Meaning(p).qos)
        /\ b["allowed_qos"] = ListAttribute(m.allowed_qos, Meaning(m).qos)
    BY DEF AttributesOf, Attributes
  <2> QED BY <1>1, <1>2, <2>1, ListAttributesCompare
<1>5. User!Wire(a["max_tres"]) = User!Wire(b["max_tres"]) <=> Meaning(p).tres = Meaning(m).tres
  <2>1. a["max_tres"] = ListAttribute(p.max_tres, Meaning(p).tres)
        /\ b["max_tres"] = ListAttribute(m.max_tres, Meaning(m).tres)
    BY DEF AttributesOf, Attributes
  <2> QED BY <1>1, <1>2, <2>1, ListAttributesCompare
<1>6. User!AssociationsEqual(a, b) <=>
        /\ Meaning(p).shares = Meaning(m).shares
        /\ Meaning(p).qos = Meaning(m).qos /\ Meaning(p).tres = Meaning(m).tres
  <2> HIDE DEF a, b
  <2> QED BY <1>3, <1>4, <1>5 DEF User!AssociationsEqual, Attributes
<1> QED BY <1>6 DEF Meaning

\* The map tells which keys there are, and the block of each.
LEMMA MapOfOneEach ==
  ASSUME Keys = User!Key, ToldApart, NEW ms \in SUBSET ValidModel, OneOfEachKey(ms)
  PROVE  /\ User!Keys(AssociationMap(ms)) = KeysOf(ms)
         /\ \A m \in ms :
              /\ m.key \in KeysOf(ms) /\ AssociationMap(ms)[m.key] = AttributesOf(m)
              /\ buildAssociationMap(extractAssociations(ms))[m.key] = extractAssociation(m)
<1>1. KeysOf(ms) \subseteq Keys
  BY KeysExtracted
<1>2. ASSUME NEW m \in ms
      PROVE  /\ m.key \in KeysOf(ms) /\ AssociationMap(ms)[m.key] = AttributesOf(m)
             /\ buildAssociationMap(extractAssociations(ms))[m.key] = extractAssociation(m)
  <2>1. m.key \in KeysOf(ms)
    BY DEF KeysOf
  <2>2. (CHOOSE p \in ms : p.key = m.key) = m
    BY DEF OneOfEachKey
  <2>3. PICK p \in ms : p.key = m.key
                        /\ buildAssociationMap(extractAssociations(ms))[m.key] = extractAssociation(p)
    BY <2>1, MapOfBlocks
  <2>4. p = m
    BY <2>3 DEF OneOfEachKey
  <2> QED BY <1>1, <2>1, <2>2, <2>3, <2>4 DEF AssociationMap
<1>3. \A k \in KeysOf(ms) : AssociationMap(ms)[k] # NoAssoc
  BY <1>2 DEF KeysOf, ToldApart, ValidModel
<1>4. \A k \in Keys \ KeysOf(ms) : AssociationMap(ms)[k] = NoAssoc
  BY DEF AssociationMap
<1> QED BY <1>1, <1>2, <1>3, <1>4 DEF User!Keys

(* UserResource compares association maps attribute by attribute; the code *)
(* compares lists, conversions and counts (user_association_diff.go).  With*)
(* one block for each key, and no repeated QOS, zero limit or doubled TRES *)
(* type in the plan, the two create, update and delete the same keys.      *)
THEOREM DiffIsTheUsers ==
  ASSUME Keys = User!Key, ToldApart,
         NEW old \in SUBSET {m \in ValidModel : NoRepeats(m)}, OneOfEachKey(old),
         NEW new \in SUBSET {m \in ValidModel : Plain(m)}, OneOfEachKey(new)
  PROVE  LET diff == DiffAssociations(extractAssociations(old), extractAssociations(new))
         IN /\ KeysOf(diff.create) = User!DiffCreate(AssociationMap(old), AssociationMap(new))
            /\ KeysOf(diff.update) = User!DiffUpdate(AssociationMap(old), AssociationMap(new))
            /\ diff.delete = User!DiffDelete(AssociationMap(old), AssociationMap(new))
<1> DEFINE diff == DiffAssociations(extractAssociations(old), extractAssociations(new))
           o == buildAssociationMap(extractAssociations(old))
           n == buildAssociationMap(extractAssociations(new))
           om == AssociationMap(old)
           nm == AssociationMap(new)
           updated == {k \in KeysOf(new) \cap KeysOf(old) : ~associationsEqual(o[k], n[k])}
<1>1. old \in SUBSET ValidModel /\ new \in SUBSET ValidModel
  OBVIOUS
<1>2. DOMAIN o = KeysOf(old) /\ DOMAIN n = KeysOf(new) /\ \A k \in KeysOf(new) : n[k].key = k
  BY <1>1, MapOfList, KeysExtracted
<1>3. diff = [create |-> {n[k] : k \in KeysOf(new) \ KeysOf(old)},
              update |-> {n[k] : k \in updated}, delete |-> KeysOf(old) \ KeysOf(new)]
  BY <1>2 DEF DiffAssociations
<1>4. User!Keys(om) = KeysOf(old) /\ User!Keys(nm) = KeysOf(new)
  BY <1>1, MapOfOneEach
<1>5. ASSUME NEW k \in KeysOf(new) \cap KeysOf(old)
      PROVE  associationsEqual(o[k], n[k]) <=> User!AssociationsEqual(om[k], nm[k])
  <2>1. PICK p \in old, m \in new : p.key = k /\ m.key = k
    BY DEF KeysOf
  <2>2. /\ om[k] = AttributesOf(p) /\ nm[k] = AttributesOf(m)
        /\ o[k] = extractAssociation(p) /\ n[k] = extractAssociation(m)
    BY <1>1, <2>1, MapOfOneEach
  <2>3. p \in ValidModel /\ NoRepeats(p) /\ m \in ValidModel /\ Plain(m)
    OBVIOUS
  <2>4. associationsEqual(extractAssociation(p), extractAssociation(m)) <=> Meaning(p) = Meaning(m)
    BY <2>1, <2>3, EqualMeansTheSame, SameMeaningIsEqual DEF Plain, NoRepeats
  <2>5. User!AssociationsEqual(AttributesOf(p), AttributesOf(m)) <=> Meaning(p) = Meaning(m)
    BY <2>1, <2>3, AbstractlyEqual DEF ValidModel
  <2> QED BY <2>2, <2>4, <2>5
<1> HIDE DEF o, n, om, nm, diff
<1>6. KeysOf(diff.create) = User!DiffCreate(om, nm)
  <2>1. KeysOf({n[k] : k \in KeysOf(new) \ KeysOf(old)}) = KeysOf(new) \ KeysOf(old)
    BY <1>2 DEF KeysOf
  <2> QED BY <1>3, <1>4, <2>1 DEF User!DiffCreate
<1>7. KeysOf(diff.update) = User!DiffUpdate(om, nm)
  <2>1. updated \subseteq KeysOf(new)
    OBVIOUS
  <2>2. updated = User!DiffUpdate(om, nm)
    BY <1>4, <1>5 DEF User!DiffUpdate
  <2> HIDE DEF updated
  <2>3. KeysOf({n[k] : k \in updated}) = updated
    BY <1>2, <2>1 DEF KeysOf
  <2> QED BY <1>3, <2>2, <2>3
<1>8. diff.delete = User!DiffDelete(om, nm)
  BY <1>3, <1>4 DEF User!DiffDelete
<1> QED BY <1>6, <1>7, <1>8 DEF diff, om, nm

-----------------------------------------------------------------------------
(* The steps *)

\* A post of blocks leaves a sound row that holds one of them.
LEMMA PostedBlocks ==
  ASSUME NEW ms \in SUBSET ValidModel, NEW k \in KeysOf(ms), NEW row, Sound(row),
         NEW r \in Posted(row, {a \in extractAssociations(ms) : a.key = k})
  PROVE  /\ r \in Row /\ r # NoRow /\ Sound(r)
         /\ \E p \in ms : p.key = k /\ Holds(r, p)
<1> DEFINE list == {a \in extractAssociations(ms) : a.key = k}
<1>1. list \in SUBSET Association /\ \A a \in list : a.shares \in 0..Sentinel \cup {Null}
  BY ExtractTyped DEF extractAssociations
<1>2. list # {}
  <2>1. k \in KeysOf(extractAssociations(ms))
    BY KeysExtracted
  <2>. QED
    BY <2>1 DEF KeysOf
<1> HIDE DEF list
<1>3. r \in Row /\ r # NoRow /\ Sound(r) /\ \E a \in list : Carries(r, a)
  BY <1>1, <1>2, PostedRow DEF list
<1>4. PICK a \in list : Carries(r, a)
  BY <1>3
<1>5. PICK p \in ms : a = extractAssociation(p)
  BY DEF list, extractAssociations
<1>6. p.key = k
  BY <1>5, ExtractTyped DEF list
<1>. QED
  BY <1>3, <1>4, <1>5, <1>6, CarriedIsHeld

LEMMA DefaultIsSound == Default \in Row /\ Sound(Default)
<1>1. 1 \in 0..Sentinel
  BY DiffAssumption
<1>. QED
  BY <1>1 DEF Default, Row, Sound

\* The state of a finished apply is its plan.
LEMMA FinishTyped ==
  ASSUME TypeOK, Valid, NEW how \in {"created", "updated"}, Finish(how),
         rows' \in [Keys -> Row \cup {NoRow}]
  PROVE  TypeOK'
<1>1. config \in SUBSET ValidModel
  BY ConfigIsValid
<1>2. state' \subseteq Model /\ \A m \in state' : ValidateString(m.fairshare)
  BY <1>1 DEF Finish, ValidModel
<1>3. /\ config' \subseteq Blocks /\ created' \in BOOLEAN /\ pc' = "idle" /\ todo' = {}
      /\ result' \in {"created", "updated"}
      /\ quiet' \in BOOLEAN /\ edits' \in 0..MaxEdits /\ interferences' \in 0..MaxInterference
  BY DEF Finish, TypeOK
<1>. QED
  BY <1>2, <1>3 DEF TypeOK

LEMMA CreateKeeps ==
  ASSUME IInv, Create
  PROVE  IInv'
<1> DEFINE list == extractAssociations(config)
<1>1. /\ pc = "planned" /\ ~created /\ Finish("created")
      /\ rows' \in PostedAll(Bootstrapped, list)
  BY DEF Create
<1>2. config \in SUBSET ValidModel /\ KeysOf(config) \subseteq Keys /\ KeysOf(list) = KeysOf(config)
  BY <1>1, ConfigIsValid, KeysExtracted DEF IInv
<1>3. \A k \in Keys : rows[k] = NoRow
  BY <1>1 DEF IInv
<1>4. \A k \in Keys : Bootstrapped[k] = IF k = DefaultKey THEN Default ELSE NoRow
  <2>1. rows \in [Keys -> Row \cup {NoRow}]
    BY DEF IInv, TypeOK
  <2>. QED
    BY <1>3, <2>1 DEF Bootstrapped
<1>5. \A k \in Keys : Sound(Bootstrapped[k])
  BY <1>4, DefaultIsSound DEF Sound
<1>6. /\ rows' = [k \in Keys |-> rows'[k]]
      /\ \A k \in Keys : IF k \in KeysOf(list)
                         THEN rows'[k] \in Posted(Bootstrapped[k], {a \in list : a.key = k})
                         ELSE rows'[k] = Bootstrapped[k]
  <2> HIDE DEF list
  <2>. QED
    BY <1>1, RowsAfter
<1>7. ASSUME NEW k \in KeysOf(config)
      PROVE  /\ rows'[k] \in Row /\ rows'[k] # NoRow /\ Sound(rows'[k])
             /\ \E p \in config : p.key = k /\ Holds(rows'[k], p)
  <2>1. k \in Keys /\ k \in KeysOf(list)
    BY <1>2
  <2>2. Sound(Bootstrapped[k]) /\ rows'[k] \in Posted(Bootstrapped[k], {a \in list : a.key = k})
    BY <1>5, <1>6, <2>1
  <2> DEFINE ms == config
             r == rows'[k]
             old == Bootstrapped[k]
  <2>3. /\ r \in Posted(old, {a \in extractAssociations(ms) : a.key = k}) /\ Sound(old)
        /\ ms \in SUBSET ValidModel /\ k \in KeysOf(ms)
    BY <1>2, <2>2
  <2> HIDE DEF ms, r, old
  <2>4. r \in Row /\ r # NoRow /\ Sound(r) /\ \E p \in ms : p.key = k /\ Holds(r, p)
    BY <2>3, PostedBlocks
  <2>. QED
    BY <2>4 DEF ms, r
<1>8. \A k \in Keys \ KeysOf(config) : rows'[k] = IF k = DefaultKey THEN Default ELSE NoRow
  BY <1>2, <1>4, <1>6
<1>9. \A k \in Keys : rows'[k] \in Row \cup {NoRow} /\ Sound(rows'[k])
  BY <1>7, <1>8, DefaultIsSound DEF Sound
<1>10. rows' \in [Keys -> Row \cup {NoRow}]
  BY <1>6, <1>9
<1>11. TypeOK'
  BY <1>1, <1>10, FinishTyped DEF IInv
<1>12. (\A k \in Keys : Sound(rows[k]))'
  BY <1>9 DEF Sound
<1>13. pc' = "idle" /\ created' = TRUE /\ config' = config /\ result' = "created"
  BY <1>1 DEF Finish
<1>14. DeclaredIsInForce'
  <2>1. Present' \subseteq KeysOf(config) \cup {DefaultKey}
    BY <1>8 DEF Present
  <2>2. \A m \in config : m.key \in KeysOf(config)
    BY DEF KeysOf
  <2>3. \A m \in config : \E p \in config : p.key = m.key /\ Holds(rows'[m.key], p)
    BY <1>7, <2>2
  <2>4. \A m \in config : \E p \in config : p.key = m.key /\ Holds(rows[m.key], p)'
    BY <1>13, <2>3 DEF Holds, HasTwins, ShownTres
  <2>5. KeysOf(config)' = KeysOf(config)
    BY <1>13 DEF KeysOf
  <2>. QED
    BY <1>13, <2>1, <2>4, <2>5 DEF DeclaredIsInForce
<1>. QED
  BY <1>11, <1>12, <1>13, <1>14 DEF IInv

LEMMA UpdateKeeps ==
  ASSUME IInv, Update
  PROVE  IInv'
<1> DEFINE diff == Diff
           sent == diff.create \cup diff.update
           o == buildAssociationMap(extractAssociations(state))
           n == buildAssociationMap(extractAssociations(config))
<1>1. /\ pc = "planned" /\ created /\ rows' \in PostedAll(rows, sent) /\ todo' = diff.delete
      /\ pc' = "deleting" /\ UNCHANGED <<config, created, state, result, quiet, edits, interferences>>
  BY DEF Update
<1>2. /\ config \in SUBSET ValidModel /\ state \in SUBSET ValidModel
      /\ KeysOf(config) \subseteq Keys /\ KeysOf(state) \subseteq Keys
  BY <1>1, ConfigIsValid, StateIsValid, KeysExtracted DEF IInv
<1>3. /\ diff.delete = KeysOf(state) \ KeysOf(config)
      /\ \A a \in sent : a.key \in KeysOf(config) /\ a = n[a.key]
      /\ \A k \in KeysOf(config) :
           n[k] \in sent <=> (k \notin KeysOf(state) \/ ~associationsEqual(o[k], n[k]))
  BY <1>2, DiffOfKey DEF Diff
<1>4. \A k \in KeysOf(state) : \E p \in state : p.key = k /\ o[k] = extractAssociation(p)
  BY <1>2, MapOfBlocks
<1>5. \A k \in KeysOf(config) : \E m \in config : m.key = k /\ n[k] = extractAssociation(m)
  BY <1>2, MapOfBlocks
<1>6. StateIsRefreshed
  BY <1>1 DEF IInv
<1>7. rows' = [k \in Keys |-> rows'[k]]
      /\ \A k \in Keys : IF k \in KeysOf(sent)
                         THEN rows'[k] \in Posted(rows[k], {a \in sent : a.key = k})
                         ELSE rows'[k] = rows[k]
  <2> HIDE DEF sent
  <2>. QED
    BY <1>1, RowsAfter
<1>8. KeysOf(sent) \subseteq KeysOf(config)
      /\ \A k \in KeysOf(config) : k \in KeysOf(sent) <=> n[k] \in sent
  <2>1. \A k \in KeysOf(config) : n[k].key = k
    BY <1>2, <1>5, ExtractTyped
  <2> HIDE DEF sent, n
  <2>. QED
    BY <1>3, <2>1 DEF KeysOf
<1>9. \A k \in Keys : Sound(rows[k]) /\ rows[k] \in Row \cup {NoRow}
  BY DEF IInv, TypeOK
<1> HIDE DEF diff, sent, o, n
\* The key leaves the configuration, or never was in it.
<1>10. ASSUME NEW k \in Keys \ KeysOf(config)
       PROVE  rows'[k] = rows[k] /\ (quiet => (rows[k] # NoRow <=> k \in todo'))
  <2>1. rows'[k] = rows[k]
    BY <1>7, <1>8
  <2>2. quiet => (rows[k] # NoRow <=> k \in KeysOf(state))
    BY <1>6 DEF StateIsRefreshed, Present
  <2>. QED
    BY <1>1, <1>3, <2>1, <2>2
\* The diff sends it.
<1>11. ASSUME NEW k \in KeysOf(config), n[k] \in sent
       PROVE  /\ rows'[k] \in Row /\ rows'[k] # NoRow /\ Sound(rows'[k])
              /\ \E p \in config : p.key = k /\ Holds(rows'[k], p)
  <2>1. PICK m \in config : m.key = k /\ n[k] = extractAssociation(m)
    BY <1>5
  <2>2. n[k].key = k
    BY <1>2, <2>1, ExtractTyped
  <2>3. {a \in sent : a.key = k} = {n[k]}
    BY <1>3, <1>11, <2>2
  <2>4. k \in Keys /\ k \in KeysOf(sent)
    BY <1>2, <1>8, <1>11
  <2>5. {a \in extractAssociations({m}) : a.key = k} = {n[k]}
    BY <2>1, <2>2 DEF extractAssociations
  <2>6. k \in KeysOf({m}) /\ {m} \in SUBSET ValidModel
    BY <1>2, <2>1 DEF KeysOf
  <2>7. rows'[k] \in Posted(rows[k], {a \in extractAssociations({m}) : a.key = k})
    BY <1>7, <2>3, <2>4, <2>5
  <2>8. Sound(rows[k])
    BY <1>9, <2>4
  <2> DEFINE ms == {m}
             r == rows'[k]
  <2>9. r \in Posted(rows[k], {a \in extractAssociations(ms) : a.key = k})
    BY <2>7
  <2>10. ms \in SUBSET ValidModel /\ k \in KeysOf(ms)
    BY <2>6
  <2> HIDE DEF ms, r
  <2>11. r \in Row /\ r # NoRow /\ Sound(r) /\ \E p \in ms : p.key = k /\ Holds(r, p)
    BY <2>8, <2>9, <2>10, PostedBlocks
  <2>. QED
    BY <2>11 DEF ms, r
\* The diff finds it equal: the row holds it already.
<1>12. ASSUME NEW k \in KeysOf(config), n[k] \notin sent
       PROVE  /\ rows'[k] = rows[k]
              /\ quiet => /\ rows'[k] # NoRow
                          /\ \E p \in config : p.key = k /\ (HasZero(p) \/ Holds(rows'[k], p))
  <2>2. k \in Keys /\ rows'[k] = rows[k]
    BY <1>2, <1>7, <1>8, <1>12
  <2>3. k \in KeysOf(state) /\ associationsEqual(o[k], n[k])
    BY <1>3, <1>12
  <2>4. PICK p \in state : p.key = k /\ o[k] = extractAssociation(p)
    BY <1>4, <2>3
  <2>5. PICK m \in config : m.key = k /\ n[k] = extractAssociation(m)
    BY <1>5
  <2>6. quiet => Holds(rows[k], p)
    BY <1>6, <2>4 DEF StateIsRefreshed
  <2>7. quiet => rows[k] # NoRow
    BY <2>6 DEF Holds
  <2>8. quiet /\ ~HasZero(m) => Holds(rows[k], m)
    BY <1>2, <2>3, <2>4, <2>5, <2>6, EqualIsHeld
  <2>. QED
    BY <2>2, <2>5, <2>7, <2>8
<1>13. \A k \in Keys : rows'[k] \in Row \cup {NoRow} /\ Sound(rows'[k])
  BY <1>9, <1>10, <1>11, <1>12 DEF Sound
<1>14. rows' \in [Keys -> Row \cup {NoRow}]
  BY <1>7, <1>13
<1>15. TypeOK'
  <2>1. todo' \subseteq Keys
    BY <1>1, <1>2, <1>3
  <2>. QED
    BY <1>1, <1>14, <2>1 DEF IInv, TypeOK
<1>16. (\A k \in Keys : Sound(rows[k]))'
  BY <1>13 DEF Sound
<1>17. Valid'
  BY <1>1 DEF IInv, Valid
<1>18. KeysOf(config)' = KeysOf(config)
  BY <1>1 DEF KeysOf
<1>19. DeletesLeft'
  <2>1. todo' \cap KeysOf(config) = {} /\ todo' \subseteq Keys
    BY <1>1, <1>2, <1>3
  <2>2. ASSUME quiet
        PROVE  Present' \subseteq KeysOf(config) \cup todo' /\ todo' \subseteq Present'
    BY <1>10, <2>1, <2>2 DEF Present
  <2>3. ASSUME quiet, NEW k \in KeysOf(config)
        PROVE  \E p \in config : /\ p.key = k
                                 /\ (Holds(rows'[k], p) \/ (HasZero(p) /\ k \in Present'))
    BY <1>2, <1>11, <1>12, <2>3 DEF Present
  <2>4. quiet => ConfigHeld'
    BY <1>1, <1>18, <2>3 DEF ConfigHeld, Holds, HasZero, HasTwins, ShownTres
  <2>. QED
    BY <1>1, <1>18, <2>1, <2>2, <2>4 DEF DeletesLeft
<1>20. DeclaredIsInForce'
  BY <1>1 DEF DeclaredIsInForce
<1>. QED
  BY <1>1, <1>15, <1>16, <1>17, <1>19, <1>20 DEF IInv

\* A DELETE spares the declared rows, unless it takes a whole account.
LEMMA DeleteSpares ==
  ASSUME IInv, NEW k \in todo, DeleteAssociation(k), quiet, NEW j \in KeysOf(config), j \in Selected(k)
  PROVE  UnscopedDelete = "all" /\ j \notin Unscoped
<1>1. pc = "deleting" /\ ~Protected(k) /\ DeletesLeft /\ j # k
  BY DEF DeleteAssociation, IInv, DeletesLeft
<1>2. UnscopedDelete # "exact" /\ k \in Unscoped /\ AccountOf[j] = AccountOf[k]
  BY <1>1 DEF Selected
<1>3. UnscopedDelete # "refuse"
  <2>1. SUFFICES ASSUME UnscopedDelete = "refuse" PROVE FALSE
    OBVIOUS
  <2>2. k \in Selected(k)
    BY <1>1, <2>1 DEF DeletesLeft, Selected
  <2>. QED
    BY <1>1, <2>1, <2>2 DEF Protected
<1>4. UnscopedDelete = "all"
  BY <1>2, <1>3, DiffAssumption
<1>. QED
  BY <1>1, <1>2, <1>4, DiffAssumption

LEMMA DeleteKeeps ==
  ASSUME IInv, NEW k \in todo, DeleteAssociation(k)
  PROVE  IInv'
<1>1. /\ pc = "deleting" /\ ~Protected(k) /\ todo' = todo \ {k}
      /\ rows' = [j \in Keys |-> IF j \in Selected(k) THEN NoRow ELSE rows[j]]
      /\ UNCHANGED <<config, created, state, pc, result, quiet, edits, interferences>>
  BY DEF DeleteAssociation
<1>2. TypeOK /\ Valid /\ created /\ DeletesLeft /\ k \in Keys
  BY <1>1 DEF IInv, DeletesLeft, TypeOK
<1>3. config \in SUBSET ValidModel /\ KeysOf(config) \subseteq Keys
  BY <1>2, ConfigIsValid, KeysExtracted
<1>4. \A j \in Keys : rows'[j] = IF j \in Selected(k) THEN NoRow ELSE rows[j]
  BY <1>1
<1>5. rows' \in [Keys -> Row \cup {NoRow}]
  BY <1>1, <1>2 DEF TypeOK
<1>6. TypeOK'
  BY <1>1, <1>2, <1>5 DEF TypeOK
<1>7. (\A j \in Keys : Sound(rows[j]))'
  BY <1>4 DEF IInv, Sound
<1>8. Valid'
  BY <1>1, <1>2 DEF Valid
<1>9. KeysOf(config)' = KeysOf(config) /\ Present' = Present \ Selected(k)
  BY <1>1, <1>4 DEF KeysOf, Present
<1>10. ASSUME quiet
       PROVE  Present' \subseteq KeysOf(config) \cup todo'
  <2>1. k \in Present => k \in Selected(k)
    BY DEF Selected
  <2>. QED
    BY <1>1, <1>2, <1>9, <1>10, <2>1 DEF DeletesLeft
<1>11. ASSUME quiet, UnscopedDelete = "refuse"
       PROVE  todo' \subseteq Present'
  <2>1. todo \subseteq Present
    BY <1>2, <1>11 DEF DeletesLeft
  <2>2. k \in Selected(k)
    BY <2>1 DEF Selected
  <2>3. Selected(k) = {k}
    BY <1>1, <1>11, <2>2 DEF Protected
  <2>. QED
    BY <1>1, <1>9, <2>1, <2>3
<1>12. ASSUME quiet PROVE ConfigHeld'
  <2>1. SUFFICES ASSUME NEW j \in KeysOf(config)
                 PROVE  \E p \in config :
                          /\ p.key = j
                          /\ \/ Holds(rows'[j], p)
                             \/ HasZero(p) /\ j \in Present'
                             \/ UnscopedDelete = "all" /\ j \notin Unscoped \cup Present'
    BY <1>1, <1>9 DEF ConfigHeld, Holds, HasZero, HasTwins, ShownTres
  <2>2. PICK p \in config :
          /\ p.key = j
          /\ \/ Holds(rows[j], p)
             \/ HasZero(p) /\ j \in Present
             \/ UnscopedDelete = "all" /\ j \notin Unscoped \cup Present
    BY <1>2, <1>12 DEF DeletesLeft, ConfigHeld
  <2>3. CASE j \in Selected(k)
    BY <1>9, <1>12, <2>2, <2>3, DeleteSpares
  <2>4. CASE j \notin Selected(k)
    BY <1>3, <1>4, <1>9, <2>2, <2>4
  <2>. QED
    BY <2>3, <2>4
<1>13. DeletesLeft'
  BY <1>1, <1>2, <1>9, <1>10, <1>11, <1>12 DEF DeletesLeft
<1>14. DeclaredIsInForce'
  BY <1>1 DEF DeclaredIsInForce
<1>. QED
  BY <1>1, <1>2, <1>6, <1>7, <1>8, <1>13, <1>14 DEF IInv

LEMMA FinishKeeps ==
  ASSUME IInv, FinishUpdate
  PROVE  IInv'
<1>1. pc = "deleting" /\ todo = {} /\ Finish("updated") /\ rows' = rows
  BY DEF FinishUpdate
<1>2. TypeOK /\ Valid /\ DeletesLeft
  BY <1>1 DEF IInv
<1>3. TypeOK'
  BY <1>1, <1>2, FinishTyped DEF TypeOK
<1>4. /\ pc' = "idle" /\ created' = TRUE /\ config' = config /\ quiet' = quiet
      /\ result' = "updated"
  BY <1>1 DEF Finish
<1>5. (\A j \in Keys : Sound(rows[j]))'
  BY <1>1 DEF IInv, Sound
<1>6. DeclaredIsInForce'
  <2>1. SUFFICES ASSUME quiet
                 PROVE  /\ Present \subseteq KeysOf(config)
                        /\ \A m \in config : \E p \in config :
                             /\ p.key = m.key
                             /\ \/ Holds(rows[m.key], p)
                                \/ HasZero(p) /\ m.key \in Present
                                \/ UnscopedDelete = "all" /\ m.key \notin Unscoped \cup Present
    BY <1>1, <1>4 DEF DeclaredIsInForce, Present, KeysOf, Holds, HasZero, HasTwins, ShownTres
  <2>2. \A m \in config : m.key \in KeysOf(config)
    BY DEF KeysOf
  <2>. QED
    BY <1>1, <1>2, <2>1, <2>2 DEF DeletesLeft, ConfigHeld
<1>. QED
  BY <1>3, <1>4, <1>5, <1>6 DEF IInv

LEMMA RefusedKeeps ==
  ASSUME IInv, Refused
  PROVE  IInv'
<1>1. /\ pc = "deleting" /\ pc' = "idle" /\ todo' = {} /\ result' = "refused"
      /\ UNCHANGED <<config, created, state, rows, quiet, edits, interferences>>
  BY DEF Refused
<1>2. TypeOK'
  BY <1>1 DEF IInv, TypeOK
<1>. QED
  BY <1>1, <1>2 DEF IInv, DeclaredIsInForce, Sound, DeletesLeft

LEMMA PlanKeeps ==
  ASSUME IInv, Plan
  PROVE  IInv'
<1>1. UNCHANGED <<config, created, rows, todo, edits, interferences>> /\ quiet' = TRUE /\ pc = "idle"
  BY DEF Plan
<1>2. (\A k \in Keys : Sound(rows[k]))' /\ (~created => \A k \in Keys : rows[k] = NoRow)'
  BY <1>1 DEF IInv, Sound
<1>3. CASE ~Valid
  <2>1. UNCHANGED state /\ pc' = "idle" /\ result' = "invalid"
    BY <1>1, <1>3 DEF Plan
  <2>2. TypeOK'
    BY <1>1, <2>1 DEF IInv, TypeOK
  <2>. QED
    BY <1>2, <2>1, <2>2 DEF IInv, DeclaredIsInForce
<1>4. CASE Valid /\ ~created
  <2>1. state' = {} /\ pc' = "planned" /\ result' = result
    BY <1>4 DEF Plan
  <2>2. TypeOK'
    BY <1>1, <2>1 DEF IInv, TypeOK
  <2>3. Valid'
    BY <1>1, <1>4 DEF Valid
  <2>. QED
    BY <1>1, <1>2, <1>4, <2>1, <2>2, <2>3 DEF IInv, DeclaredIsInForce
<1>5. CASE Valid /\ created
  <2>1. state' = Refreshed
    BY <1>5 DEF Plan
  <2>2. /\ Refreshed \in SUBSET ValidModel
        /\ KeysOf(Refreshed) = Present
        /\ \A p \in Refreshed : ReadBack(p, p.key, rows[p.key])
        /\ \A p, m \in Refreshed : p.key = m.key => p = m
    BY RefreshReadsBack DEF IInv
  <2>3. \/ state' = config /\ pc' = "idle" /\ result' = "clean"
        \/ pc' = "planned" /\ result' = result
    BY <1>1, <1>5 DEF Plan
  <2>4. TypeOK'
    BY <1>1, <2>1, <2>2, <2>3 DEF IInv, TypeOK, ValidModel
  <2>5. Valid'
    BY <1>1, <1>5 DEF Valid
  <2>6. \A p \in state' : Holds(rows[p.key], p)
    BY <2>1, <2>2 DEF ReadBack
  <2>7. (\A p \in state : Holds(rows[p.key], p))'
    BY <1>1, <2>6 DEF Holds, HasTwins, ShownTres
  <2>8. (\A p \in state : p.allowed_qos # Null => ~Repeats(p.allowed_qos))'
    BY <2>1, <2>2 DEF ReadBack
  <2>9. (Present = KeysOf(state))'
    BY <1>1, <2>1, <2>2 DEF Present, KeysOf
  <2>10. StateIsRefreshed'
    BY <2>1, <2>2, <2>7, <2>8, <2>9 DEF StateIsRefreshed
  <2>11. DeclaredIsInForce'
    <3> SUFFICES ASSUME pc' = "idle"
                 PROVE  /\ Present' = KeysOf(config)'
                        /\ \A m \in config' : Holds(rows[m.key], m)'
      BY DEF DeclaredIsInForce
    <3>1. state' = config'
      BY <1>1, <2>3
    <3>. QED
      BY <2>7, <2>9, <3>1 DEF Present, KeysOf
  <2>. QED
    BY <1>1, <1>2, <1>5, <2>3, <2>4, <2>5, <2>10, <2>11 DEF IInv
<1>. QED
  BY <1>3, <1>4, <1>5

LEMMA EditKeeps ==
  ASSUME IInv, EditConfig
  PROVE  IInv'
<1>1. /\ pc = "idle" /\ result' = "none" /\ edits < MaxEdits /\ edits' = edits + 1
      /\ UNCHANGED <<created, state, rows, pc, todo, quiet, interferences>>
  BY DEF EditConfig
<1>2. config' \subseteq Blocks
  BY DEF EditConfig, IInv, TypeOK
<1>3. TypeOK'
  BY <1>1, <1>2, DiffAssumption DEF IInv, TypeOK
<1>. QED
  BY <1>1, <1>3 DEF IInv, DeclaredIsInForce, Sound

LEMMA InterfereKeeps ==
  ASSUME IInv, Interfere
  PROVE  IInv'
<1>1. /\ quiet' = FALSE /\ interferences < MaxInterference /\ interferences' = interferences + 1
      /\ UNCHANGED <<config, created, state, pc, todo, result, edits>>
  BY DEF Interfere
<1>2. PICK k \in Keys :
        /\ rows[k] # NoRow
        /\ rows' \in {[rows EXCEPT ![k] = NoRow]}
                     \cup {[rows EXCEPT ![k].shares = n] : n \in {1, Sentinel}}
                     \cup {[rows EXCEPT ![k].qos = qs] : qs \in SUBSET QosNames}
                     \cup {[rows EXCEPT ![k].tres[t] = n] : t \in TresTypes, n \in Counts \cup {Null}}
  BY DEF Interfere
<1>3. rows \in [Keys -> Row \cup {NoRow}] /\ rows[k] \in Row /\ Sound(rows[k])
  BY <1>2 DEF IInv, TypeOK
<1>4. PICK r \in Row \cup {NoRow} : rows' = [rows EXCEPT ![k] = r] /\ Sound(r)
  <2>1. CASE rows' = [rows EXCEPT ![k] = NoRow]
    BY <2>1 DEF Sound
  <2>2. ASSUME NEW n \in {1, Sentinel}, rows' = [rows EXCEPT ![k].shares = n]
        PROVE  \E r \in Row \cup {NoRow} : rows' = [rows EXCEPT ![k] = r] /\ Sound(r)
    <3>1. [rows[k] EXCEPT !.shares = n] \in Row /\ n \in 0..Sentinel
      BY <1>3, DiffAssumption DEF Row
    <3>2. Sound([rows[k] EXCEPT !.shares = n])
      BY <1>3, <3>1 DEF Sound, Row
    <3>. QED
      BY <1>3, <2>2, <3>1, <3>2
  <2>3. ASSUME NEW qs \in SUBSET QosNames, rows' = [rows EXCEPT ![k].qos = qs]
        PROVE  \E r \in Row \cup {NoRow} : rows' = [rows EXCEPT ![k] = r] /\ Sound(r)
    <3>1. [rows[k] EXCEPT !.qos = qs] \in Row
      BY <1>3 DEF Row
    <3>2. Sound([rows[k] EXCEPT !.qos = qs])
      BY <1>2, <1>3, <3>1 DEF Sound, Row
    <3>. QED
      BY <1>3, <2>3, <3>1, <3>2
  <2>4. ASSUME NEW t \in TresTypes, NEW n \in Counts \cup {Null},
               rows' = [rows EXCEPT ![k].tres[t] = n]
        PROVE  \E r \in Row \cup {NoRow} : rows' = [rows EXCEPT ![k] = r] /\ Sound(r)
    <3>1. [rows[k] EXCEPT !.tres[t] = n] \in Row
      BY <1>3 DEF Row
    <3>2. Sound([rows[k] EXCEPT !.tres[t] = n])
      BY <1>2, <1>3, <3>1 DEF Sound, Row
    <3>. QED
      BY <1>3, <2>4, <3>1, <3>2
  <2>. QED
    BY <1>2, <2>1, <2>2, <2>3, <2>4
<1>5. rows' \in [Keys -> Row \cup {NoRow}]
  BY <1>3, <1>4
<1>6. TypeOK'
  <2>1. interferences' \in 0..MaxInterference
    BY <1>1, DiffAssumption DEF IInv, TypeOK
  <2>2. quiet' \in BOOLEAN
    BY <1>1
  <2>. QED
    BY <1>1, <1>5, <2>1, <2>2 DEF IInv, TypeOK
<1>7. (\A j \in Keys : Sound(rows[j]))'
  BY <1>3, <1>4 DEF IInv, Sound
<1>8. created
  BY <1>2 DEF IInv
<1>9. /\ pc' # "idle" => Valid'
      /\ pc' = "planned" => StateIsRefreshed'
      /\ pc' = "deleting" => DeletesLeft'
  BY <1>1, <1>8 DEF IInv, Valid, StateIsRefreshed, DeletesLeft, KeysOf
<1>. QED
  BY <1>1, <1>6, <1>7, <1>8, <1>9 DEF IInv, DeclaredIsInForce

LEMMA Initially == Init => IInv
<1> SUFFICES ASSUME Init PROVE IInv
  OBVIOUS
<1>1. config \subseteq Blocks /\ rows \in [Keys -> Row \cup {NoRow}]
  BY DEF Init
<1>2. edits \in 0..MaxEdits /\ interferences \in 0..MaxInterference
  BY DiffAssumption DEF Init
<1>3. TypeOK
  BY <1>1, <1>2 DEF Init, TypeOK
<1>. QED
  BY <1>3 DEF Init, IInv, DeclaredIsInForce, Sound

LEMMA Inductive == IInv /\ [Next]_vars => IInv'
<1> SUFFICES ASSUME IInv, [Next]_vars PROVE IInv'
  OBVIOUS
<1>1. CASE Plan
  BY <1>1, PlanKeeps
<1>2. CASE Create
  BY <1>2, CreateKeeps
<1>3. CASE Update
  BY <1>3, UpdateKeeps
<1>4. ASSUME NEW k \in todo, DeleteAssociation(k) PROVE IInv'
  BY <1>4, DeleteKeeps
<1>5. CASE FinishUpdate
  BY <1>5, FinishKeeps
<1>6. CASE Refused
  BY <1>6, RefusedKeeps
<1>7. CASE EditConfig
  BY <1>7, EditKeeps
<1>8. CASE Interfere
  BY <1>8, InterfereKeeps
<1>9. CASE UNCHANGED vars
  BY <1>9 DEF vars, IInv, TypeOK, Sound, Valid, StateIsRefreshed, DeletesLeft, ConfigHeld, Present,
              KeysOf, Holds, HasTwins, HasZero, ShownTres, DeclaredIsInForce
<1>. QED
  BY <1>1, <1>2, <1>3, <1>4, <1>5, <1>6, <1>7, <1>8, <1>9 DEF Next, Apply

-----------------------------------------------------------------------------
(* Theorems *)

LEMMA InvariantHolds == Spec => []IInv
BY Initially, Inductive, PTL DEF Spec

(* Every variable keeps its type; what Read writes passes the validator.   *)
THEOREM TypeCorrect == Spec => []TypeOK
<1>1. IInv => TypeOK
  BY DEF IInv
<1>. QED
  BY <1>1, InvariantHolds, PTL

(* DiffAssociations on a refreshed state: an update sends each association *)
(* at most once and only where its meaning changes or a list repeats       *)
(* itself, deletes none of them, and does nothing only when no meaning     *)
(* differs, but for zero limits.                                           *)
THEOREM DiffExact == Spec => []DiffIsExact
BY InvariantHolds, PlannedDiffIsExact, PTL

(* What an undisturbed apply or an empty plan reports is in force.         *)
THEOREM StoredIsInForce == Spec => []DeclaredIsInForce
<1>1. IInv => DeclaredIsInForce
  BY DEF IInv
<1>. QED
  BY <1>1, InvariantHolds, PTL
=============================================================================
